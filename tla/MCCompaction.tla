----------------------------- MODULE MCCompaction -----------------------------
(* Model values and payloads for model checking Compaction. *)
EXTENDS Compaction

CONSTANTS a, b

MCByte == {a, b}
MCData == {<<a>>, <<b, b>>}
=============================================================================
