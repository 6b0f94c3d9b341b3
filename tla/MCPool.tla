------------------------------- MODULE MCPool -------------------------------
(* Instances of SupervisedPool for TLC. *)
EXTENDS SupervisedPool

Full     == {<<1, 1>>}
Half     == {<<1, 2>>}
HalfFull == {<<1, 2>>, <<1, 1>>}
NoFractions == {}
=============================================================================
