----------------------------- MODULE MCChunkCache -----------------------------
(* A small instance of ChunkCache for TLC. *)
EXTENDS ChunkCache

CONSTANTS c1, p1, p2, p3
=============================================================================
