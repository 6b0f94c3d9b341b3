------------------------------ MODULE MCPlane ------------------------------
(* Instances of PlaneSession for TLC. *)
EXTENDS PlaneSession
=============================================================================
