------------------------------ MODULE MCEpoch -------------------------------
(* Instances of EpochRotation for TLC. *)
EXTENDS EpochRotation
=============================================================================
