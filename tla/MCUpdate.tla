------------------------------ MODULE MCUpdate ------------------------------
(* Small instances of UpdateController. *)
EXTENDS UpdateController

Nothing == {}
=============================================================================
