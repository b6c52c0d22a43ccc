------------------------------- MODULE MCMount --------------------------------
(* Definitions for model checking Mount. *)
EXTENDS Mount

MCDaemon == 1..3
=============================================================================
