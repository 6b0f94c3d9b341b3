--------------------------- MODULE ResultContract ---------------------------
(***************************************************************************)
(* What the gateway may rely on for one unit of inference work: the result *)
(* it is sent is either one stream that runs to its end, or a stream that  *)
(* is given up and replaced by one JSON answer with an error status.  The  *)
(* ciphertexts of the stream are numbered 0, 1, 2, ... without gaps, and   *)
(* nothing follows the final one.  The connection may die at any moment.   *)
(***************************************************************************)
EXTENDS Naturals

VARIABLES
    view,      \* what the gateway has: see ViewType
    count,     \* ciphertexts written to the stream so far
    closed     \* TRUE once the final ciphertext is written

cvars == <<view, count, closed>>

ViewType == {"waiting", "streaming", "complete", "cut", "answered", "lost"}

Init ==
    /\ view = "waiting"
    /\ count = 0
    /\ closed = FALSE

Start ==
    /\ view = "waiting"
    /\ view' = "streaming"
    /\ UNCHANGED <<count, closed>>

\* Ciphertexts are added at the end, and only before the final one.
Write ==
    /\ view = "streaming"
    /\ ~closed
    /\ count' > count
    /\ closed' \in BOOLEAN
    /\ UNCHANGED view

\* A stream that carried ciphertext is complete only with its final frame.
Complete ==
    /\ view = "streaming"
    /\ count > 0 => closed
    /\ view' = "complete"
    /\ UNCHANGED <<count, closed>>

GiveUp ==
    /\ view = "streaming"
    /\ view' = "cut"
    /\ UNCHANGED <<count, closed>>

Answer ==
    /\ view = "cut"
    /\ view' = "answered"
    /\ UNCHANGED <<count, closed>>

Lose ==
    /\ view \in {"streaming", "cut"}
    /\ view' = "lost"
    /\ UNCHANGED <<count, closed>>

Next ==
    \/ Start
    \/ Write
    \/ Complete
    \/ GiveUp
    \/ Answer
    \/ Lose

\* The work is always brought to an end.
Ended == view \in {"complete", "answered", "lost"}

Spec == Init /\ [][Next]_cvars /\ <>Ended
=============================================================================
