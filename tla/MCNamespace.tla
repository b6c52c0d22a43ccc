----------------------------- MODULE MCNamespace -----------------------------
(* Small instances of Namespace for TLC. *)
EXTENDS Namespace, TLC

CONSTANTS p1, p2, x, y, u

Symmetry == Permutations({p1, p2}) \cup Permutations({x, y})
=============================================================================
