------------------------------ MODULE PullWork ------------------------------
(***************************************************************************)
(* The pull workers of one engine and the work they take (plane/pull.rs,   *)
(* infer/gate.rs, infer/gateway_plane_task.rs, ie-crypto's admit.rs).      *)
(*                                                                         *)
(* Each worker long-polls its own session.  The gateway may hand the same  *)
(* signed envelope out again, to any worker, when it has not seen an       *)
(* answer; the replay store all workers share decides which one runs it.   *)
(* ResponseStream models what happens inside "infer" and on the stream.    *)
(***************************************************************************)
EXTENDS Naturals, FiniteSets

CONSTANTS
    Workers,          \* pull workers, one per session
    Requests,         \* envelopes, told apart by their nonce
    MaxDeliveries,    \* bound on how often the gateway hands a request out
    None              \* no request

ASSUME WorkAssumption ==
    /\ None \notin Requests
    /\ IsFiniteSet(Workers)
    /\ MaxDeliveries \in Nat

VARIABLES
    mode,             \* EnvelopeAdmitMode of the process
    up,               \* up[w]: the worker's transport is open
    pc,               \* pc[w]: where the worker is
    job,              \* job[w]: the request it holds
    busy,             \* busy[w]: PullWorkerHandle.busy
    status,           \* status[w]: x-ope-status of the answer to post
    envelope,         \* envelope[r]: what the gateway sent as r
    delivered,        \* delivered[r]: how often r was handed out
    replay,           \* nonces in the process-wide replay store
    keyHeld,          \* the epoch's secret is in the provider
    runs,             \* history: runs[r]: how often r was run: decrypted, or passed upstream
    answered          \* history: answered[r]: answers to r the gateway received

vars == <<mode, up, pc, job, busy, status, envelope, delivered, replay, keyHeld, runs, answered>>

\* challenge and ops_control are work kinds of their own; the rest is an
\* inference: a body that is no envelope, one whose traffic class header and
\* meta disagree, an envelope the gate refuses, a gateway-plane task (with or
\* without what a task needs), an end-to-end encrypted request.  An envelope
\* may be signed or not; admission looks at it for e2e only.
Kinds == {"challenge", "ops_control", "garbled", "misclassed", "refused", "task", "bad_task", "e2e"}
Signatures == {"none", "good", "bad"}
Envelopes == {[kind |-> k, sig |-> "none"] : k \in Kinds} \cup [kind : {"e2e", "task"}, sig : Signatures]

NotSent == [kind |-> "none", sig |-> "none"]

-----------------------------------------------------------------------------
(* Decisions on an envelope.                                               *)

is_gateway_plane_task_envelope(e) == e.kind \in {"task", "bad_task"}

validate_ope_inference_envelope(e) == e.kind = "e2e"

\* pull_once streams only what will be decrypted; the rest is answered whole.
Streams(e) == ~is_gateway_plane_task_envelope(e) /\ validate_ope_inference_envelope(e)

\* EnvelopeAdmitter::from_env: what TEECHAT_OPE_ENGINE_VERIFY asks for and
\* whether trust keys are given; a value parse does not know counts as unset,
\* "error" stops the process at start-up.
from_env(verify, keys) ==
    LET m == IF verify \notin {"unset", "unknown"} THEN verify
             ELSE IF keys THEN "signed-only" ELSE "off"
    IN IF m # "off" /\ ~keys THEN "error" ELSE m

AdmitModes ==
    {from_env(v, k) : v \in {"unset", "unknown", "off", "signed-only", "required"},
                      k \in BOOLEAN} \ {"error"}

\* EnvelopeAdmitter::admit hands the envelope to verify_and_open.
MustVerify(e) ==
    \/ mode = "required"
    \/ mode = "signed-only" /\ e.sig # "none"

\* verify_and_open (ope-envelope): a good signature and a nonce not seen yet.
VerifyAndOpen(e, r) == e.sig = "good" /\ r \notin replay

-----------------------------------------------------------------------------
Init ==
    /\ mode \in AdmitModes
    /\ up = [w \in Workers |-> TRUE]
    /\ pc = [w \in Workers |-> "pull"]
    /\ job = [w \in Workers |-> None]
    /\ busy = [w \in Workers |-> FALSE]
    /\ status = [w \in Workers |-> 0]
    /\ envelope = [r \in Requests |-> NotSent]
    /\ delivered = [r \in Requests |-> 0]
    /\ replay = {}
    /\ keyHeld = TRUE
    /\ runs = [r \in Requests |-> 0]
    /\ answered = [r \in Requests |-> 0]

Goto(w, l) == pc' = [pc EXCEPT ![w] = l]

\* The worker loop: a closed transport is reported and ends it.
StartPull(w) ==
    /\ pc[w] = "pull"
    /\ Goto(w, IF up[w] THEN "poll" ELSE "stopped")
    /\ UNCHANGED <<mode, up, job, busy, status, envelope, delivered, replay, keyHeld, runs, answered>>

LoseTransport(w) ==
    /\ up[w]
    /\ up' = [up EXCEPT ![w] = FALSE]
    /\ UNCHANGED <<mode, pc, job, busy, status, envelope, delivered, replay, keyHeld, runs, answered>>

\* 204, an empty body, no request id, or an error of the poll.
PullNothing(w) ==
    /\ pc[w] = "poll"
    /\ Goto(w, "pull")
    /\ UNCHANGED <<mode, up, job, busy, status, envelope, delivered, replay, keyHeld, runs, answered>>

\* Mutant: only streamed work makes the worker busy.
BusyWhenStreaming(w, r, e) ==
    /\ pc[w] = "poll" /\ up[w]
    /\ delivered[r] < MaxDeliveries
    /\ envelope[r] \in {NotSent, e}
    /\ envelope' = [envelope EXCEPT ![r] = e]
    /\ delivered' = [delivered EXCEPT ![r] = @ + 1]
    /\ job' = [job EXCEPT ![w] = r]
    /\ busy' = [busy EXCEPT ![w] = Streams(e)]
    /\ Goto(w, IF e.kind \in {"challenge", "ops_control"} THEN "handle"
               ELSE IF Streams(e) THEN "open" ELSE "whole")
    /\ UNCHANGED <<mode, up, status, replay, keyHeld, runs, answered>>

\* The gateway hands out r: pull_once up to its first await.  What is not an
\* envelope, or has no consistent traffic class, is an error: the request is
\* dropped without an answer and the worker is never busy with it.
PullWork(w, r, e) ==
    /\ pc[w] = "poll" /\ up[w]
    /\ delivered[r] < MaxDeliveries
    /\ envelope[r] \in {NotSent, e}
    /\ envelope' = [envelope EXCEPT ![r] = e]
    /\ delivered' = [delivered EXCEPT ![r] = @ + 1]
    /\ IF e.kind \in {"garbled", "misclassed"}
       THEN /\ Goto(w, "pull")
            /\ UNCHANGED <<mode, job, busy>>
       ELSE /\ job' = [job EXCEPT ![w] = r]
            /\ busy' = [busy EXCEPT ![w] = TRUE]
            /\ Goto(w, IF e.kind \in {"challenge", "ops_control"} THEN "handle"
                       ELSE IF Streams(e) THEN "open" ELSE "whole")
    /\ UNCHANGED <<mode, up, status, replay, keyHeld, runs, answered>>

Answer(w, s, l) ==
    /\ status' = [status EXCEPT ![w] = s]
    /\ Goto(w, l)

\* A challenge or ops_control request: its handler, or the lack of one or a
\* body that does not parse, decides between 200 and 500.
HandleControlWork(w) ==
    /\ pc[w] = "handle"
    /\ \E s \in {200, 500} : Answer(w, s, "post_control")
    /\ UNCHANGED <<mode, up, job, busy, envelope, delivered, replay, keyHeld, runs, answered>>

\* run_gateway_plane_task_inference: the upstream's answer, or its failure.
TaskAnswers == {200, 502}

\* A gateway-plane task is run before the admitter is asked, in every mode:
\* its messages go upstream (503: no upstream is configured) and the answer is
\* posted whole, like the refusal of a task that lacks something or of an
\* envelope the gate does not let through.
RunWhole(w) ==
    LET e == envelope[job[w]]
    IN  /\ pc[w] = "whole"
        /\ \/ /\ e.kind = "task"
              /\ \E s \in TaskAnswers : Answer(w, s, "post")
              /\ runs' = [runs EXCEPT ![job[w]] = @ + 1]
           \/ /\ Answer(w, IF e.kind = "task" THEN 503 ELSE 400, "post")
              /\ UNCHANGED runs
        /\ UNCHANGED <<mode, up, job, busy, envelope, delivered, replay, keyHeld, answered>>

\* The result post is opened, with status 200, before the work is looked at.
OpenStream(w) ==
    /\ pc[w] = "open" /\ up[w]
    /\ Goto(w, "admit")
    /\ UNCHANGED <<mode, up, job, busy, status, envelope, delivered, replay, keyHeld, runs, answered>>

\* Mutant: admission checks the nonce and does not spend it.
AdmitWithoutSpending(w) ==
    LET e == envelope[job[w]]
    IN  /\ pc[w] = "admit"
        /\ IF MustVerify(e) /\ ~VerifyAndOpen(e, job[w])
           THEN Answer(w, 401, "abort")
           ELSE Goto(w, "decrypt") /\ UNCHANGED status
        /\ UNCHANGED <<mode, up, job, busy, envelope, delivered, replay, keyHeld, runs, answered>>

\* Admission: a nonce is spent when its envelope is opened, before anything
\* that could still fail.
Admit(w) ==
    LET r == job[w]
        e == envelope[r]
    IN  /\ pc[w] = "admit"
        /\ IF MustVerify(e) /\ ~VerifyAndOpen(e, r)
           THEN /\ Answer(w, 401, "abort")
                /\ UNCHANGED replay
           ELSE /\ Goto(w, "decrypt")
                /\ replay' = IF MustVerify(e) THEN replay \cup {r} ELSE replay
                /\ UNCHANGED status
        /\ UNCHANGED <<mode, up, job, busy, envelope, delivered, keyHeld, runs, answered>>

\* Another task prunes the epoch the requests are encrypted to.
PruneEpoch ==
    /\ keyHeld
    /\ keyHeld' = FALSE
    /\ UNCHANGED <<mode, up, pc, job, busy, status, envelope, delivered, replay, runs, answered>>

Decrypt(w) ==
    /\ pc[w] = "decrypt"
    /\ IF keyHeld
       THEN /\ Goto(w, "infer")
            /\ runs' = [runs EXCEPT ![job[w]] = @ + 1]
            /\ UNCHANGED status
       ELSE /\ Answer(w, 400, "abort")
            /\ UNCHANGED runs
    /\ UNCHANGED <<mode, up, job, busy, envelope, delivered, replay, keyHeld, answered>>

\* The inference itself (see ResponseStream); "post" then finishes the stream.
Infer(w) ==
    /\ pc[w] = "infer"
    /\ \E s \in {200, 400, 502, 503} : Answer(w, s, IF s = 200 THEN "post" ELSE "abort")
    /\ UNCHANGED <<mode, up, job, busy, envelope, delivered, replay, keyHeld, runs, answered>>

\* A stream whose work failed is cut, and the answer posted whole instead: the
\* gateway takes the cut stream for no answer.
AbortStream(w) ==
    /\ pc[w] = "abort"
    /\ Goto(w, "post")
    /\ UNCHANGED <<mode, up, job, busy, status, envelope, delivered, replay, keyHeld, runs, answered>>

Release(w) == job' = [job EXCEPT ![w] = None]

\* Mutant: the answer is posted again although the gateway has it.
PostAgain(w) ==
    /\ pc[w] \in {"post", "post_control"} /\ up[w]
    /\ answered' = [answered EXCEPT ![job[w]] = @ + 1]
    /\ UNCHANGED <<mode, up, pc, job, busy, status, envelope, delivered, replay, keyHeld, runs>>

\* The answer arrives at the gateway.
PostResult(w) ==
    /\ pc[w] \in {"post", "post_control"} /\ up[w]
    /\ answered' = [answered EXCEPT ![job[w]] = @ + 1]
    /\ Release(w)
    /\ busy' = [busy EXCEPT ![w] = FALSE]
    /\ Goto(w, "pull")
    /\ UNCHANGED <<mode, up, status, envelope, delivered, replay, keyHeld, runs>>

\* Mutant: the worker keeps retrying on the transport it has.
PostRetries(w) ==
    /\ pc[w] \in {"post", "post_control"}
    /\ Goto(w, "post")
    /\ UNCHANGED <<mode, up, job, busy, status, envelope, delivered, replay, keyHeld, runs, answered>>

\* The post fails, or cannot be opened.  Only a challenge or ops_control answer
\* resets the busy flag; an inference result returns with `?` before it does.
PostFails(w) ==
    /\ pc[w] \in {"open", "post", "post_control"}
    /\ Release(w)
    /\ busy' = [busy EXCEPT ![w] = pc[w] # "post_control"]
    /\ Goto(w, "pull")
    /\ UNCHANGED <<mode, up, status, envelope, delivered, replay, keyHeld, runs, answered>>

Step(w) ==
    \/ StartPull(w) \/ HandleControlWork(w) \/ RunWhole(w)
    \/ OpenStream(w) \/ Admit(w) \/ Decrypt(w) \/ Infer(w) \/ AbortStream(w)
    \/ PostResult(w) \/ PostFails(w)

Next ==
    \/ \E w \in Workers :
          \/ Step(w) \/ PullNothing(w) \/ LoseTransport(w)
          \/ \E r \in Requests, e \in Envelopes : PullWork(w, r, e)
    \/ PruneEpoch

Spec == Init /\ [][Next]_vars /\ \A w \in Workers : WF_vars(Step(w))

-----------------------------------------------------------------------------
(* Properties.                                                             *)

\* The state is well-formed: a worker holds a request exactly while it is
\* between taking work and being done with it, and no counter of a request
\* exceeds its hand-outs.
TypeOK ==
    /\ mode \in AdmitModes
    /\ up \in [Workers -> BOOLEAN] /\ busy \in [Workers -> BOOLEAN]
    /\ pc \in [Workers -> {"pull", "poll", "stopped", "handle", "whole", "open", "admit",
                          "decrypt", "infer", "abort", "post", "post_control"}]
    /\ job \in [Workers -> Requests \cup {None}]
    /\ \A w \in Workers : job[w] = None <=> pc[w] \in {"pull", "poll", "stopped"}
    /\ status \in [Workers -> {0, 200, 400, 401, 500, 502, 503}]
    /\ envelope \in [Requests -> Envelopes \cup {NotSent}]
    /\ delivered \in [Requests -> 0..MaxDeliveries]
    /\ runs \in [Requests -> 0..MaxDeliveries]
    /\ answered \in [Requests -> 0..MaxDeliveries]
    /\ replay \subseteq Requests /\ keyHeld \in BOOLEAN

\* At most once: while admission is on, a signed end-to-end request is
\* decrypted and run by one worker only, however often and to whomever the
\* gateway hands it out, also when its answer was lost; with "required" no
\* other end-to-end request runs.  What admission does not look at (unsigned
\* requests, gateway-plane tasks in every mode) runs at most once per hand-out.
RunOnce ==
    \A r \in Requests :
        /\ runs[r] <= delivered[r]
        /\ envelope[r].kind = "e2e" =>
              /\ mode # "off" /\ envelope[r].sig = "good" => runs[r] <= 1
              /\ mode = "required" /\ runs[r] > 0 => envelope[r].sig = "good"

\* Each time a request is handed out it is answered at most once: an answer
\* given, and every worker still holding the request, has its own hand-out.
OneAnswerPerDelivery ==
    \A r \in Requests :
        answered[r] + Cardinality({w \in Workers : job[w] = r}) <= delivered[r]

\* A worker that holds work is busy: the pool's drain and migration and the
\* GPU recollect take the flag for it.
BusyCoversWork == \A w \in Workers : job[w] # None => busy[w]

\* Whatever fails, a worker that holds work lets go of it and pulls again
\* (or ends with its transport).
WorkerReleased == \A w \in Workers : job[w] # None ~> job[w] = None

-----------------------------------------------------------------------------
(* A statement of the repository the code does not keep *)

\* "every envelope must pass `verify_and_open`" (admit.rs, of `required`): a
\* gateway-plane task runs without.
RequiredAdmitsAll ==
    \A r \in Requests : mode = "required" /\ runs[r] > 0 => r \in replay
=============================================================================
