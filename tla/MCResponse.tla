----------------------------- MODULE MCResponse -----------------------------
(* TLC instances of ResponseStream. *)
EXTENDS ResponseStream
=============================================================================
