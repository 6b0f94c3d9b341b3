------------------------------- MODULE MCWork -------------------------------
(* TLC instances of PullWork. *)
EXTENDS PullWork
=============================================================================
