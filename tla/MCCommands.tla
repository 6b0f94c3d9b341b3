----------------------------- MODULE MCCommands -----------------------------
(* TLC instances of PoolCommands. *)
EXTENDS PoolCommands
=============================================================================
