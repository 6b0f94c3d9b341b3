------------------------------ MODULE MCEngine ------------------------------
(* Instances of EngineProcess for TLC. *)
EXTENDS EngineProcess

\* Every machine with the usual settings, every setting on one machine.
EachInTurn ==
    {e \in AllEnvironments :
        \/ e.wrong = "none" /\ e.pins = "valid" /\ e.verify = "unset" /\ e.keys = "good"
        \/ e.kind = "prod" /\ e.snp /\ ~e.recollect}
=============================================================================
