------------------------ MODULE MCTaskConfirmations ------------------------
(* Instances of TaskConfirmations for TLC. *)
EXTENDS TaskConfirmations
=============================================================================
