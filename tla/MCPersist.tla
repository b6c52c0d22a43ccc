------------------------------ MODULE MCPersist ------------------------------
(* Small instances of Persist for TLC. *)
EXTENDS Persist

CONSTANTS a, w1, s1

MCByte == {a}
MCData == {<<a>>}
=============================================================================
