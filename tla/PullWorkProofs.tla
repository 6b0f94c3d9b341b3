--------------------------- MODULE PullWorkProofs ---------------------------
(***************************************************************************)
(* TLAPS proofs about PullWork, for every finite set of workers, every set *)
(* of requests and every number of hand-outs.                              *)
(***************************************************************************)
EXTENDS PullWork, FiniteSetTheorems, TLAPS

-----------------------------------------------------------------------------
(* The inductive invariant *)

\* The workers that hold r, and those of them that may still run it.
Holders(r) == {w \in Workers : job[w] = r}

BeforeRun(r) == {w \in Workers : job[w] = r /\ pc[w] \in {"handle", "whole", "open", "admit", "decrypt"}}

\* Each run of a request, and each worker that may still reach one,
\* has a hand-out of its own.
OneRunPerDelivery == \A r \in Requests : runs[r] + Cardinality(BeforeRun(r)) <= delivered[r]

\* What a worker holds, and what was run, the gateway sent.
HeldWasSent ==
    \A r \in Requests :
        runs[r] > 0 \/ (\E w \in Workers : job[w] = r) => envelope[r] # NotSent

\* Only end-to-end requests reach admission; tasks and refusals do not.
AdmittedAreE2e ==
    \A w \in Workers :
        /\ pc[w] \in {"open", "admit", "decrypt"} => envelope[job[w]].kind = "e2e"
        /\ pc[w] = "whole" => envelope[job[w]].kind # "e2e"

\* An end-to-end request that has to be verified and is past admission was well signed,
\* its nonce is spent, and either one worker is about to decrypt it or it has
\* run, once.
SpentBeforeRun ==
    \A r \in Requests :
        MustVerify(envelope[r]) /\ envelope[r].kind = "e2e" =>
            /\ runs[r] <= 1
            /\ runs[r] > 0 => r \in replay /\ envelope[r].sig = "good"
            /\ \A w \in Workers : job[w] = r /\ pc[w] = "decrypt" =>
                  /\ r \in replay /\ envelope[r].sig = "good" /\ runs[r] = 0
                  /\ \A v \in Workers : job[v] = r /\ pc[v] = "decrypt" => v = w

IInv == /\ TypeOK
        /\ OneAnswerPerDelivery
        /\ OneRunPerDelivery
        /\ HeldWasSent
        /\ AdmittedAreE2e
        /\ SpentBeforeRun
        /\ BusyCoversWork

-----------------------------------------------------------------------------
(* Lemmas *)

\* The modes from_env lets a process start with.
LEMMA Modes == AdmitModes \subseteq {"off", "signed-only", "required"}
<1>1. \A k \in BOOLEAN : /\ from_env("off", k) = "off"
                         /\ from_env("unset", k) \in {"off", "signed-only"}
                         /\ from_env("unknown", k) \in {"off", "signed-only"}
                         /\ from_env("signed-only", k) \in {"error", "signed-only"}
                         /\ from_env("required", k) \in {"error", "required"}
  BY DEF from_env
<1> QED
  BY <1>1 DEF AdmitModes

\* Taking w into, or out of, a finite set of workers counts one.
LEMMA Counting ==
  ASSUME NEW S \in SUBSET Workers, NEW w \in Workers
  PROVE  /\ IsFiniteSet(S) /\ Cardinality(S) \in Nat
         /\ w \in S => Cardinality(S) >= 1
         /\ w \notin S => Cardinality(S \cup {w}) = Cardinality(S) + 1
         /\ w \in S => Cardinality(S \ {w}) = Cardinality(S) - 1
<1>1. IsFiniteSet(S)
  BY FS_Subset, WorkAssumption
<1>2. Cardinality(S) \in Nat /\ Cardinality(S \ {w}) \in Nat
  BY <1>1, FS_CardinalityType, FS_RemoveElement
<1>3. w \notin S => Cardinality(S \cup {w}) = Cardinality(S) + 1
  BY <1>1, FS_AddElement
<1>4. w \in S => Cardinality(S \ {w}) = Cardinality(S) - 1
  BY <1>1, FS_RemoveElement
<1> QED
  BY <1>1, <1>2, <1>3, <1>4

\* Fewer workers count less.
LEMMA CountingLess ==
  ASSUME NEW S \in SUBSET Workers, NEW T \in SUBSET S
  PROVE  Cardinality(T) \in Nat /\ Cardinality(S) \in Nat /\ Cardinality(T) <= Cardinality(S)
<1>1. IsFiniteSet(S)
  BY FS_Subset, WorkAssumption
<1> QED
  BY <1>1, FS_Subset, FS_CardinalityType

\* The invariant holds when every worker is about to pull for the first time.
LEMMA InitInv == Init => IInv
<1> SUFFICES ASSUME Init PROVE IInv
  OBVIOUS
<1>1. TypeOK
  BY WorkAssumption DEF Init, TypeOK
<1>2. \A r \in Requests : Holders(r) = {} /\ BeforeRun(r) = {}
  BY WorkAssumption DEF Init, Holders, BeforeRun
<1>3. OneAnswerPerDelivery /\ OneRunPerDelivery
  BY <1>2, FS_EmptySet DEF Init, OneAnswerPerDelivery, OneRunPerDelivery, Holders
<1>4. HeldWasSent /\ AdmittedAreE2e /\ SpentBeforeRun /\ BusyCoversWork
  BY WorkAssumption DEF Init, HeldWasSent, AdmittedAreE2e, SpentBeforeRun, BusyCoversWork
<1> QED
  BY <1>1, <1>3, <1>4 DEF IInv

\* Every step keeps the types; that no counter passes its bound needs the
\* hand-out that each holder of a request has.
LEMMA StepType ==
  ASSUME IInv, [Next]_vars
  PROVE  TypeOK'
<1> USE WorkAssumption
<1>0. TypeOK
  BY DEF IInv
<1>1. \A w \in Workers, r \in Requests : job[w] = r => answered[r] < delivered[r]
  <2> TAKE w \in Workers, r \in Requests
  <2> HAVE job[w] = r
  <2>1. Holders(r) \in SUBSET Workers /\ w \in Holders(r)
    BY DEF Holders
  <2>2. Cardinality(Holders(r)) \in Nat /\ Cardinality(Holders(r)) >= 1
    BY <2>1, Counting
  <2>3. answered[r] + Cardinality(Holders(r)) <= delivered[r]
    BY DEF IInv, OneAnswerPerDelivery, Holders
  <2> QED
    BY <1>0, <2>2, <2>3 DEF TypeOK
<1>2. \A w \in Workers, r \in Requests : job[w] = r /\ pc[w] \in {"whole", "decrypt"} => runs[r] < delivered[r]
  <2> TAKE w \in Workers, r \in Requests
  <2> HAVE job[w] = r /\ pc[w] \in {"whole", "decrypt"}
  <2>1. BeforeRun(r) \in SUBSET Workers /\ w \in BeforeRun(r)
    BY DEF BeforeRun
  <2>2. Cardinality(BeforeRun(r)) \in Nat /\ Cardinality(BeforeRun(r)) >= 1
    BY <2>1, Counting
  <2>3. runs[r] + Cardinality(BeforeRun(r)) <= delivered[r]
    BY DEF IInv, OneRunPerDelivery
  <2> QED
    BY <1>0, <2>2, <2>3 DEF TypeOK
<1>3. ASSUME NEW w \in Workers, StartPull(w) \/ PullNothing(w) PROVE TypeOK'
  <2>1. PICK l \in {"poll", "stopped", "pull"} : pc' = [pc EXCEPT ![w] = l]
    BY <1>3 DEF StartPull, PullNothing, Goto
  <2>2. /\ pc[w] \in {"pull", "poll"}
        /\ UNCHANGED <<mode, up, job, busy, status, envelope, delivered, replay, keyHeld,
                       runs, answered>>
    BY <1>3 DEF StartPull, PullNothing
  <2> QED
    BY <1>0, <2>1, <2>2 DEF TypeOK
<1>11. ASSUME NEW w \in Workers, LoseTransport(w) PROVE TypeOK'
  BY <1>0, <1>11 DEF LoseTransport, TypeOK
<1>4. ASSUME NEW w \in Workers, NEW r \in Requests, NEW e \in Envelopes, PullWork(w, r, e)
      PROVE  TypeOK'
  <2>1. delivered' \in [Requests -> 0..MaxDeliveries]
    BY <1>0, <1>4 DEF PullWork, TypeOK
  <2>2. envelope' \in [Requests -> Envelopes \cup {NotSent}]
    BY <1>0, <1>4 DEF PullWork, TypeOK
  <2>3. UNCHANGED <<mode, up, status, replay, keyHeld, runs, answered>>
    BY <1>4 DEF PullWork
  <2>4. /\ pc' \in [Workers -> {"pull", "poll", "stopped", "handle", "whole", "open",
                                "admit", "decrypt", "infer", "abort", "post", "post_control"}]
        /\ job' \in [Workers -> Requests \cup {None}]
        /\ busy' \in [Workers -> BOOLEAN]
        /\ \A v \in Workers : job'[v] = None <=> pc'[v] \in {"pull", "poll", "stopped"}
    <3>1. CASE e.kind \in {"garbled", "misclassed"}
      BY <1>0, <1>4, <3>1 DEF PullWork, Goto, TypeOK
    <3>2. CASE e.kind \notin {"garbled", "misclassed"}
      <4>1. PICK l \in {"handle", "open", "whole"} : pc' = [pc EXCEPT ![w] = l]
        BY <1>4, <3>2 DEF PullWork, Goto
      <4>2. job' = [job EXCEPT ![w] = r] /\ busy' = [busy EXCEPT ![w] = TRUE]
        BY <1>4, <3>2 DEF PullWork
      <4> QED
        BY <1>0, <4>1, <4>2 DEF TypeOK
    <3> QED
      BY <3>1, <3>2
  <2> QED
    BY <1>0, <2>1, <2>2, <2>3, <2>4 DEF TypeOK
<1>5. ASSUME NEW w \in Workers, HandleControlWork(w) \/ Infer(w)
      PROVE  TypeOK'
  <2>1. PICK s \in {200, 400, 500, 502, 503}, l \in {"abort", "post", "post_control"} :
           status' = [status EXCEPT ![w] = s] /\ pc' = [pc EXCEPT ![w] = l]
    BY <1>5 DEF HandleControlWork, Infer, Answer, Goto
  <2>2. pc[w] \in {"handle", "infer"}
    BY <1>5 DEF HandleControlWork, Infer
  <2>3. UNCHANGED <<mode, up, job, busy, envelope, delivered, replay, keyHeld, runs, answered>>
    BY <1>5 DEF HandleControlWork, Infer
  <2> QED
    BY <1>0, <2>1, <2>2, <2>3 DEF TypeOK
<1>12. ASSUME NEW w \in Workers, RunWhole(w) PROVE TypeOK'
  <2>1. PICK s \in {200, 400, 502, 503} :
           status' = [status EXCEPT ![w] = s] /\ pc' = [pc EXCEPT ![w] = "post"]
    BY <1>12 DEF RunWhole, TaskAnswers, Answer, Goto
  <2>2. pc[w] = "whole" /\ job[w] \in Requests
    BY <1>0, <1>12 DEF RunWhole, TypeOK
  <2>3. UNCHANGED <<mode, up, job, busy, envelope, delivered, replay, keyHeld, answered>>
    BY <1>12 DEF RunWhole
  <2>4. runs' \in {runs, [runs EXCEPT ![job[w]] = @ + 1]}
    BY <1>12 DEF RunWhole
  <2>5. runs' \in [Requests -> 0..MaxDeliveries]
    BY <1>0, <1>2, <2>2, <2>4 DEF TypeOK
  <2>6. \A v \in Workers : job'[v] = None <=> pc'[v] \in {"pull", "poll", "stopped"}
    BY <1>0, <2>1, <2>2, <2>3 DEF TypeOK
  <2>7. status' \in [Workers -> {0, 200, 400, 401, 500, 502, 503}]
    BY <1>0, <2>1 DEF TypeOK
  <2> QED
    BY <1>0, <2>1, <2>3, <2>5, <2>6, <2>7, ZenonT(40) DEF TypeOK
<1>13. ASSUME NEW w \in Workers, OpenStream(w) \/ AbortStream(w) PROVE TypeOK'
  <2>1. PICK l \in {"admit", "post"} : pc' = [pc EXCEPT ![w] = l]
    BY <1>13 DEF OpenStream, AbortStream, Goto
  <2>2. /\ pc[w] \in {"open", "abort"}
        /\ UNCHANGED <<mode, up, job, busy, status, envelope, delivered, replay, keyHeld,
                       runs, answered>>
    BY <1>13 DEF OpenStream, AbortStream
  <2> QED
    BY <1>0, <2>1, <2>2 DEF TypeOK
<1>6. ASSUME NEW w \in Workers, Admit(w) PROVE TypeOK'
  <2>1. job[w] \in Requests
    BY <1>0, <1>6 DEF Admit, TypeOK
  <2>2. replay' \subseteq Requests
    BY <1>0, <1>6, <2>1 DEF Admit, TypeOK
  <2>3. PICK l \in {"abort", "decrypt"} : pc' = [pc EXCEPT ![w] = l]
    BY <1>6 DEF Admit, Answer, Goto
  <2>4. status' \in [Workers -> {0, 200, 400, 401, 500, 502, 503}]
    BY <1>0, <1>6 DEF Admit, Answer, TypeOK
  <2>5. /\ UNCHANGED <<mode, up, job, busy, envelope, delivered, keyHeld, runs, answered>>
        /\ pc[w] = "admit"
    BY <1>6 DEF Admit
  <2>6. \A v \in Workers : job'[v] = None <=> pc'[v] \in {"pull", "poll", "stopped"}
    BY <1>0, <2>3, <2>5 DEF TypeOK
  <2> QED
    BY <1>0, <2>2, <2>3, <2>4, <2>5, <2>6, ZenonT(40) DEF TypeOK
<1>7. ASSUME NEW w \in Workers, Decrypt(w) PROVE TypeOK'
  <2>1. job[w] \in Requests /\ pc[w] = "decrypt"
    BY <1>0, <1>7 DEF Decrypt, TypeOK
  <2>2. runs' \in [Requests -> 0..MaxDeliveries]
    BY <1>0, <1>2, <1>7, <2>1 DEF Decrypt, TypeOK
  <2>3. PICK l \in {"abort", "infer"} : pc' = [pc EXCEPT ![w] = l]
    BY <1>7 DEF Decrypt, Answer, Goto
  <2>4. status' \in [Workers -> {0, 200, 400, 401, 500, 502, 503}]
    BY <1>0, <1>7 DEF Decrypt, Answer, TypeOK
  <2>5. UNCHANGED <<mode, up, job, busy, envelope, delivered, replay, keyHeld, answered>>
    BY <1>7 DEF Decrypt
  <2>6. \A v \in Workers : job'[v] = None <=> pc'[v] \in {"pull", "poll", "stopped"}
    BY <1>0, <2>1, <2>3, <2>5 DEF TypeOK
  <2> QED
    BY <1>0, <2>1, <2>2, <2>3, <2>4, <2>5, <2>6, ZenonT(40) DEF TypeOK
<1>8. ASSUME NEW w \in Workers, PostResult(w) \/ PostFails(w) PROVE TypeOK'
  <2>1. job[w] \in Requests
    BY <1>0, <1>8 DEF PostResult, PostFails, TypeOK
  <2>2. answered' \in [Requests -> 0..MaxDeliveries]
    BY <1>0, <1>1, <1>8, <2>1 DEF PostResult, PostFails, TypeOK
  <2>3. busy' \in [Workers -> BOOLEAN]
    <3>1. CASE PostResult(w)
      BY <1>0, <3>1 DEF PostResult, TypeOK
    <3>2. CASE PostFails(w)
      BY <1>0, <3>2 DEF PostFails, TypeOK
    <3> QED
      BY <1>8, <3>1, <3>2
  <2>4. job' = [job EXCEPT ![w] = None] /\ pc' = [pc EXCEPT ![w] = "pull"]
    BY <1>8 DEF PostResult, PostFails, Release, Goto
  <2>5. UNCHANGED <<mode, up, status, envelope, delivered, replay, keyHeld, runs>>
    BY <1>8 DEF PostResult, PostFails
  <2> QED
    BY <1>0, <2>2, <2>3, <2>4, <2>5 DEF TypeOK
<1>9. CASE PruneEpoch
  BY <1>0, <1>9 DEF PruneEpoch, TypeOK
<1>10. CASE UNCHANGED vars
  BY <1>0, <1>10 DEF vars, TypeOK
<1> QED
  BY <1>3, <1>4, <1>5, <1>6, <1>7, <1>8, <1>9, <1>10, <1>11, <1>12, <1>13
     DEF Next, Step

\* A hand-out adds at most its worker to the holders of its request.
LEMMA PullCounts ==
  ASSUME TypeOK, OneAnswerPerDelivery, OneRunPerDelivery,
         NEW w \in Workers, NEW r \in Requests, NEW e \in Envelopes, PullWork(w, r, e)
  PROVE  OneAnswerPerDelivery' /\ OneRunPerDelivery'
<1> USE WorkAssumption
<1>1. /\ job[w] = None /\ UNCHANGED <<runs, answered>>
      /\ delivered' = [delivered EXCEPT ![r] = @ + 1]
  BY DEF PullWork, TypeOK
<1>2. \A q \in Requests : /\ Holders(q) \in SUBSET Workers /\ BeforeRun(q) \in SUBSET Workers
                         /\ w \notin Holders(q) /\ w \notin BeforeRun(q)
  BY <1>1 DEF Holders, BeforeRun
<1>3. \A q \in Requests \ {r} : Holders(q)' = Holders(q) /\ BeforeRun(q)' = BeforeRun(q)
  <2> TAKE q \in Requests \ {r}
  <2>1. \A v \in Workers : v # w => job'[v] = job[v] /\ pc'[v] = pc[v]
    BY DEF PullWork, Goto, TypeOK
  <2>2. job'[w] # q
    BY <1>1 DEF PullWork, TypeOK
  <2> QED
    BY <1>1, <2>1, <2>2 DEF Holders, BeforeRun
<1>4. Holders(r)' \in {Holders(r), Holders(r) \cup {w}}
  <2>1. CASE job' = job
    BY <2>1 DEF Holders
  <2>2. CASE job' = [job EXCEPT ![w] = r]
    BY <2>2 DEF Holders, TypeOK
  <2> QED
    BY <2>1, <2>2 DEF PullWork
<1>5. BeforeRun(r)' \in {BeforeRun(r), BeforeRun(r) \cup {w}}
  <2>1. CASE job' = job /\ pc' = [pc EXCEPT ![w] = "pull"]
    <3>1. \A v \in Workers : v # w => pc'[v] = pc[v]
      BY <2>1 DEF TypeOK
    <3>2. BeforeRun(r)' = BeforeRun(r)
      BY <1>1, <2>1, <3>1 DEF BeforeRun
    <3> QED
      BY <3>2
  <2>2. ASSUME NEW l \in {"handle", "whole", "open"},
               job' = [job EXCEPT ![w] = r], pc' = [pc EXCEPT ![w] = l]
        PROVE  BeforeRun(r)' = BeforeRun(r) \cup {w}
    <3>1. \A v \in Workers : v # w => pc'[v] = pc[v] /\ job'[v] = job[v]
      BY <2>2 DEF TypeOK
    <3>2. pc'[w] = l /\ job'[w] = r
      BY <2>2 DEF TypeOK
    <3> QED
      BY <3>1, <3>2 DEF BeforeRun
  <2> QED
    BY <2>1, <2>2 DEF PullWork, Goto
<1>6. \A q \in Requests : answered'[q] + Cardinality(Holders(q)') <= delivered'[q]
  <2> TAKE q \in Requests
  <2>1. answered[q] + Cardinality(Holders(q)) <= delivered[q]
    BY DEF OneAnswerPerDelivery, Holders
  <2>2. /\ Cardinality(Holders(q)) \in Nat
        /\ Cardinality(Holders(q) \cup {w}) = Cardinality(Holders(q)) + 1
    BY <1>2, Counting
  <2>3. answered[q] \in Nat /\ delivered[q] \in Nat
    BY DEF TypeOK
  <2>4. CASE q # r
    BY <1>1, <1>3, <2>1, <2>4 DEF TypeOK
  <2>5. CASE q = r
    <3>1. delivered'[q] = delivered[q] + 1 /\ answered'[q] = answered[q]
      BY <1>1, <2>5 DEF TypeOK
    <3>2. Cardinality(Holders(q)') \in {Cardinality(Holders(q)), Cardinality(Holders(q)) + 1}
      BY <1>4, <2>2, <2>5
    <3> QED
      BY <2>1, <2>2, <2>3, <3>1, <3>2
  <2> QED
    BY <2>4, <2>5
<1>7. \A q \in Requests : runs'[q] + Cardinality(BeforeRun(q)') <= delivered'[q]
  <2> TAKE q \in Requests
  <2>1. runs[q] + Cardinality(BeforeRun(q)) <= delivered[q]
    BY DEF OneRunPerDelivery
  <2>2. /\ Cardinality(BeforeRun(q)) \in Nat
        /\ Cardinality(BeforeRun(q) \cup {w}) = Cardinality(BeforeRun(q)) + 1
    BY <1>2, Counting
  <2>3. runs[q] \in Nat /\ delivered[q] \in Nat
    BY DEF TypeOK
  <2>4. CASE q # r
    BY <1>1, <1>3, <2>1, <2>4 DEF TypeOK
  <2>5. CASE q = r
    <3>1. delivered'[q] = delivered[q] + 1 /\ runs'[q] = runs[q]
      BY <1>1, <2>5 DEF TypeOK
    <3>2. Cardinality(BeforeRun(q)') \in {Cardinality(BeforeRun(q)), Cardinality(BeforeRun(q)) + 1}
      BY <1>5, <2>2, <2>5
    <3> QED
      BY <2>1, <2>2, <2>3, <3>1, <3>2
  <2> QED
    BY <2>4, <2>5
<1> QED
  BY <1>6, <1>7 DEF OneAnswerPerDelivery, OneRunPerDelivery, Holders

\* Nothing else adds a holder: an answer or a run takes its worker out.
LEMMA OtherCounts ==
  ASSUME TypeOK, OneAnswerPerDelivery, OneRunPerDelivery, NEW w \in Workers,
         Step(w) \/ PullNothing(w) \/ LoseTransport(w)
  PROVE  OneAnswerPerDelivery' /\ OneRunPerDelivery'
<1> USE WorkAssumption
<1>1. delivered' = delivered
  BY DEF Step, PullNothing, LoseTransport, StartPull, HandleControlWork,
         RunWhole, OpenStream, Admit, Decrypt, Infer, AbortStream, PostResult, PostFails
<1>2. \A q \in Requests : Holders(q) \in SUBSET Workers /\ BeforeRun(q) \in SUBSET Workers
  BY DEF Holders, BeforeRun
<1>3. \A q \in Requests :
         /\ Holders(q)' \subseteq Holders(q)
         /\ \/ answered'[q] = answered[q]
            \/ /\ answered'[q] = answered[q] + 1
               /\ w \in Holders(q) /\ w \notin Holders(q)'
  <2>1. CASE PostResult(w)
    <3>1. job[w] \in Requests /\ job'[w] = None /\ \A v \in Workers : v # w => job'[v] = job[v]
      BY <2>1 DEF PostResult, Release, TypeOK
    <3>2. answered' = [answered EXCEPT ![job[w]] = @ + 1]
      BY <2>1 DEF PostResult
    <3> QED
      BY <3>1, <3>2 DEF Holders, TypeOK
  <2>2. CASE PostFails(w)
    <3>1. job'[w] = None /\ \A v \in Workers : v # w => job'[v] = job[v]
      BY <2>2 DEF PostFails, Release, TypeOK
    <3>2. answered' = answered
      BY <2>2 DEF PostFails
    <3> QED
      BY <3>1, <3>2 DEF Holders
  <2>3. CASE job' = job /\ answered' = answered
    BY <2>3 DEF Holders
  <2> QED
    BY <2>1, <2>2, <2>3 DEF Step, PullNothing, LoseTransport, StartPull,
       HandleControlWork, RunWhole, OpenStream, Admit, Decrypt, Infer, AbortStream
<1>4. \A q \in Requests :
         /\ BeforeRun(q)' \subseteq BeforeRun(q)
         /\ \/ runs'[q] = runs[q]
            \/ /\ runs'[q] = runs[q] + 1
               /\ w \in BeforeRun(q) /\ w \notin BeforeRun(q)'
  <2>1. CASE Decrypt(w)
    <3>1. /\ job[w] \in Requests /\ pc[w] = "decrypt" /\ job' = job
          /\ pc'[w] \in {"infer", "abort"} /\ \A v \in Workers : v # w => pc'[v] = pc[v]
      BY <2>1 DEF Decrypt, Answer, Goto, TypeOK
    <3>2. runs' \in {runs, [runs EXCEPT ![job[w]] = @ + 1]}
      BY <2>1 DEF Decrypt
    <3> QED
      BY <3>1, <3>2 DEF BeforeRun, TypeOK
  <2>2. CASE PostResult(w) \/ PostFails(w)
    <3>1. /\ runs' = runs /\ job'[w] = None
          /\ \A v \in Workers : v # w => pc'[v] = pc[v] /\ job'[v] = job[v]
      BY <2>2 DEF PostResult, PostFails, Release, Goto, TypeOK
    <3> QED
      BY <3>1 DEF BeforeRun
  <2>6. CASE RunWhole(w)
    <3>1. /\ job[w] \in Requests /\ pc[w] = "whole" /\ job' = job
          /\ pc'[w] = "post" /\ \A v \in Workers : v # w => pc'[v] = pc[v]
      BY <2>6 DEF RunWhole, Answer, Goto, TypeOK
    <3>2. runs' \in {runs, [runs EXCEPT ![job[w]] = @ + 1]}
      BY <2>6 DEF RunWhole
    <3> QED
      BY <3>1, <3>2 DEF BeforeRun, TypeOK
  <2>3. CASE OpenStream(w) \/ Admit(w) \/ AbortStream(w)
    <3>1. /\ pc[w] \in {"open", "admit"} \/ pc'[w] = "post"
          /\ job' = job /\ runs' = runs
          /\ \A v \in Workers : v # w => pc'[v] = pc[v]
      BY <2>3 DEF OpenStream, Admit, AbortStream, Answer, Goto, TypeOK
    <3> QED
      BY <3>1 DEF BeforeRun
  <2>4. CASE StartPull(w) \/ HandleControlWork(w) \/ Infer(w) \/ PullNothing(w)
    <3>1. job' = job /\ runs' = runs
      BY <2>4 DEF StartPull, HandleControlWork, Infer, PullNothing
    <3>2. pc'[w] \in {"poll", "stopped", "abort", "post", "post_control", "pull"}
      BY <2>4 DEF StartPull, HandleControlWork, Infer, PullNothing, Answer, Goto, TypeOK
    <3>3. \A v \in Workers : v # w => pc'[v] = pc[v]
      BY <2>4 DEF StartPull, HandleControlWork, Infer, PullNothing, Answer, Goto, TypeOK
    <3> QED
      BY <3>1, <3>2, <3>3 DEF BeforeRun
  <2>5. CASE UNCHANGED <<pc, job, runs>>
    BY <2>5 DEF BeforeRun
  <2> QED
    BY <2>1, <2>2, <2>3, <2>4, <2>5, <2>6 DEF Step, LoseTransport
<1>5. \A q \in Requests : answered'[q] + Cardinality(Holders(q)') <= delivered'[q]
  <2> TAKE q \in Requests
  <2>1. answered[q] + Cardinality(Holders(q)) <= delivered[q]
    BY DEF OneAnswerPerDelivery, Holders
  <2>2. answered[q] \in Nat /\ delivered[q] \in Nat
    BY DEF TypeOK
  <2>3. CASE answered'[q] = answered[q]
    <3>1. /\ Cardinality(Holders(q)') \in Nat /\ Cardinality(Holders(q)) \in Nat
          /\ Cardinality(Holders(q)') <= Cardinality(Holders(q))
      BY <1>2, <1>3, CountingLess
    <3> QED
      BY <1>1, <2>1, <2>2, <2>3, <3>1
  <2>4. CASE answered'[q] = answered[q] + 1 /\ w \in Holders(q) /\ w \notin Holders(q)'
    <3>1. Cardinality(Holders(q) \ {w}) = Cardinality(Holders(q)) - 1
          /\ Cardinality(Holders(q)) \in Nat
      BY <1>2, <2>4, Counting
    <3>2. Holders(q) \ {w} \in SUBSET Workers /\ Holders(q)' \in SUBSET (Holders(q) \ {w})
      BY <1>2, <1>3, <2>4
    <3>3. Cardinality(Holders(q)') \in Nat
          /\ Cardinality(Holders(q)') <= Cardinality(Holders(q) \ {w})
      BY <3>2, CountingLess
    <3> QED
      BY <1>1, <2>1, <2>2, <2>4, <3>1, <3>3
  <2> QED
    BY <1>3, <2>3, <2>4
<1>6. \A q \in Requests : runs'[q] + Cardinality(BeforeRun(q)') <= delivered'[q]
  <2> TAKE q \in Requests
  <2>1. runs[q] + Cardinality(BeforeRun(q)) <= delivered[q]
    BY DEF OneRunPerDelivery
  <2>2. runs[q] \in Nat /\ delivered[q] \in Nat
    BY DEF TypeOK
  <2>3. CASE runs'[q] = runs[q]
    <3>1. /\ Cardinality(BeforeRun(q)') \in Nat /\ Cardinality(BeforeRun(q)) \in Nat
          /\ Cardinality(BeforeRun(q)') <= Cardinality(BeforeRun(q))
      BY <1>2, <1>4, CountingLess
    <3> QED
      BY <1>1, <2>1, <2>2, <2>3, <3>1
  <2>4. CASE runs'[q] = runs[q] + 1 /\ w \in BeforeRun(q) /\ w \notin BeforeRun(q)'
    <3>1. Cardinality(BeforeRun(q) \ {w}) = Cardinality(BeforeRun(q)) - 1
          /\ Cardinality(BeforeRun(q)) \in Nat
      BY <1>2, <2>4, Counting
    <3>2. BeforeRun(q) \ {w} \in SUBSET Workers /\ BeforeRun(q)' \in SUBSET (BeforeRun(q) \ {w})
      BY <1>2, <1>4, <2>4
    <3>3. Cardinality(BeforeRun(q)') \in Nat
          /\ Cardinality(BeforeRun(q)') <= Cardinality(BeforeRun(q) \ {w})
      BY <3>2, CountingLess
    <3> QED
      BY <1>1, <2>1, <2>2, <2>4, <3>1, <3>3
  <2> QED
    BY <1>4, <2>3, <2>4
<1> QED
  BY <1>5, <1>6 DEF OneAnswerPerDelivery, OneRunPerDelivery, Holders

\* Who holds a request was sent it, and no envelope changes once it is sent.
LEMMA StepSent ==
  ASSUME IInv, [Next]_vars
  PROVE  /\ HeldWasSent'
         /\ \A r \in Requests : envelope[r] # NotSent => envelope'[r] = envelope[r]
<1> USE WorkAssumption
<1>0. TypeOK /\ HeldWasSent
  BY DEF IInv
<1>1. \A e \in Envelopes : e # NotSent
  BY DEF Envelopes, Kinds, NotSent
<1>2. ASSUME NEW w \in Workers, NEW r \in Requests, NEW e \in Envelopes, PullWork(w, r, e)
      PROVE  /\ HeldWasSent'
             /\ \A q \in Requests : envelope[q] # NotSent => envelope'[q] = envelope[q]
  <2>1. /\ envelope' = [envelope EXCEPT ![r] = e] /\ envelope[r] \in {NotSent, e}
        /\ runs' = runs /\ job' \in {job, [job EXCEPT ![w] = r]}
    BY <1>2 DEF PullWork
  <2>2. \A q \in Requests : q # r => envelope'[q] = envelope[q]
    BY <1>0, <2>1 DEF TypeOK
  <2>3. envelope'[r] = e
    BY <1>0, <2>1 DEF TypeOK
  <2>4. \A q \in Requests, v \in Workers : q # r /\ job'[v] = q => job[v] = q
    BY <1>0, <2>1 DEF TypeOK
  <2> QED
    BY <1>0, <1>1, <2>1, <2>2, <2>3, <2>4 DEF HeldWasSent
<1>3. ASSUME NEW w \in Workers, Decrypt(w) \/ RunWhole(w)
      PROVE  HeldWasSent' /\ envelope' = envelope
  <2>1. /\ job[w] \in Requests /\ job' = job /\ envelope' = envelope
        /\ runs' \in {runs, [runs EXCEPT ![job[w]] = @ + 1]}
    BY <1>0, <1>3 DEF Decrypt, RunWhole, TypeOK
  <2> QED
    BY <1>0, <2>1 DEF HeldWasSent, TypeOK
<1>4. CASE envelope' = envelope /\ runs' = runs /\ job' = job
  BY <1>0, <1>4 DEF HeldWasSent
<1>5. ASSUME NEW w \in Workers, PostResult(w) \/ PostFails(w)
      PROVE  HeldWasSent' /\ envelope' = envelope
  <2>1. envelope' = envelope /\ runs' = runs /\ job' = [job EXCEPT ![w] = None]
    BY <1>5 DEF PostResult, PostFails, Release
  <2> QED
    BY <1>0, <2>1 DEF HeldWasSent, TypeOK
<1> QED
  BY <1>2, <1>3, <1>4, <1>5 DEF Next, Step, vars, PullNothing, LoseTransport, PruneEpoch,
     StartPull, HandleControlWork, OpenStream, Admit, Infer, AbortStream

\* pull_once sends only end-to-end requests to admission.
LEMMA StepE2e ==
  ASSUME IInv, [Next]_vars
  PROVE  AdmittedAreE2e'
<1> USE WorkAssumption
<1>0. TypeOK /\ HeldWasSent /\ AdmittedAreE2e
  BY DEF IInv
<1>1. \A v \in Workers : job[v] # None => job[v] \in Requests /\ envelope'[job[v]] = envelope[job[v]]
  BY <1>0, StepSent DEF HeldWasSent, TypeOK
<1>2. ASSUME NEW w \in Workers, NEW r \in Requests, NEW e \in Envelopes, PullWork(w, r, e)
      PROVE  AdmittedAreE2e'
  <2>1. \A v \in Workers : v # w => pc'[v] = pc[v] /\ job'[v] = job[v]
    BY <1>0, <1>2 DEF PullWork, Goto, TypeOK
  <2>2. \A v \in Workers : pc[v] \in {"open", "admit", "decrypt", "whole"} => job[v] # None
    BY <1>0 DEF TypeOK
  <2>3. envelope'[r] = e
    BY <1>0, <1>2 DEF PullWork, TypeOK
  <2>4. CASE e.kind \in {"garbled", "misclassed"}
    <3>1. pc'[w] = "pull"
      BY <1>0, <1>2, <2>4 DEF PullWork, Goto, TypeOK
    <3> QED
      BY <1>0, <1>1, <2>1, <2>2, <3>1 DEF AdmittedAreE2e
  <2>5. CASE e.kind \notin {"garbled", "misclassed"}
    <3>1. /\ job'[w] = r
          /\ pc'[w] = IF e.kind \in {"challenge", "ops_control"} THEN "handle"
                      ELSE IF Streams(e) THEN "open" ELSE "whole"
      BY <1>0, <1>2, <2>5 DEF PullWork, Goto, TypeOK
    <3>2. /\ pc'[w] \notin {"admit", "decrypt"}
          /\ pc'[w] = "open" => e.kind = "e2e"
          /\ pc'[w] = "whole" => e.kind # "e2e"
      BY <3>1 DEF Streams, is_gateway_plane_task_envelope, validate_ope_inference_envelope
    <3> QED
      BY <1>0, <1>1, <2>1, <2>2, <2>3, <3>1, <3>2 DEF AdmittedAreE2e
  <2> QED
    BY <2>4, <2>5
<1>3. ASSUME NEW w \in Workers, OpenStream(w) \/ Admit(w)
      PROVE  AdmittedAreE2e'
  <2>1. /\ job' = job /\ envelope' = envelope /\ pc[w] \in {"open", "admit"}
        /\ pc'[w] # "whole" /\ \A v \in Workers : v # w => pc'[v] = pc[v]
    BY <1>0, <1>3 DEF OpenStream, Admit, Answer, Goto, TypeOK
  <2> QED
    BY <1>0, <2>1 DEF AdmittedAreE2e
<1>4. ASSUME NEW w \in Workers,
             \/ StartPull(w) \/ PullNothing(w) \/ HandleControlWork(w) \/ RunWhole(w)
             \/ Decrypt(w) \/ Infer(w) \/ AbortStream(w) \/ PostResult(w) \/ PostFails(w)
      PROVE  AdmittedAreE2e'
  <2>1. envelope' = envelope
    BY <1>4 DEF StartPull, PullNothing, HandleControlWork, RunWhole, Decrypt, Infer,
       AbortStream, PostResult, PostFails
  <2>2. /\ pc'[w] \notin {"open", "admit", "decrypt", "whole"}
        /\ \A v \in Workers : v # w => pc'[v] = pc[v]
    BY <1>0, <1>4 DEF StartPull, PullNothing, HandleControlWork, RunWhole, Decrypt, Infer,
       AbortStream, PostResult, PostFails, Answer, Goto, TypeOK
  <2>3. \A v \in Workers : v # w => job'[v] = job[v]
    BY <1>0, <1>4 DEF StartPull, PullNothing, HandleControlWork, RunWhole, Decrypt, Infer,
       AbortStream, PostResult, PostFails, Release, TypeOK
  <2> QED
    BY <1>0, <2>1, <2>2, <2>3 DEF AdmittedAreE2e
<1>5. CASE UNCHANGED <<pc, job, envelope>>
  BY <1>0, <1>5 DEF AdmittedAreE2e
<1> QED
  BY <1>2, <1>3, <1>4, <1>5 DEF Next, Step, vars, LoseTransport, PruneEpoch

\* Admission spends a nonce before its request runs, and lets no second
\* worker through.
LEMMA StepSpent ==
  ASSUME IInv, [Next]_vars
  PROVE  SpentBeforeRun'
<1> USE WorkAssumption
<1>0. TypeOK /\ HeldWasSent /\ AdmittedAreE2e /\ SpentBeforeRun
  BY DEF IInv
<1>1. ASSUME NEW w \in Workers, NEW r \in Requests, NEW e \in Envelopes, PullWork(w, r, e)
      PROVE  SpentBeforeRun'
  <2>1. /\ envelope' = [envelope EXCEPT ![r] = e] /\ envelope[r] \in {NotSent, e}
        /\ UNCHANGED <<mode, replay, runs>>
    BY <1>1 DEF PullWork
  <2>2. \A v \in Workers : pc'[v] = "decrypt" => pc[v] = "decrypt" /\ job'[v] = job[v]
    BY <1>0, <1>1 DEF PullWork, Goto, TypeOK
  <2>3. \A q \in Requests : envelope[q] # NotSent => envelope'[q] = envelope[q]
    BY StepSent
  <2>4. \A q \in Requests : envelope[q] = NotSent => ~(runs[q] > 0) /\ \A v \in Workers : job[v] # q
    BY <1>0 DEF HeldWasSent
  <2>5. \A q \in Requests : runs[q] \in Nat
    BY <1>0 DEF TypeOK
  <2> QED
    BY <1>0, <2>1, <2>2, <2>3, <2>4, <2>5 DEF SpentBeforeRun, MustVerify
<1>2. ASSUME NEW w \in Workers, Admit(w) PROVE SpentBeforeRun'
  <2> DEFINE r == job[w]
  <2>1. /\ r \in Requests /\ UNCHANGED <<mode, job, envelope, runs>> /\ pc[w] = "admit"
        /\ replay \subseteq replay'
    BY <1>0, <1>2 DEF Admit, TypeOK
  <2>2. \A v \in Workers : v # w => pc'[v] = pc[v]
    BY <1>0, <1>2 DEF Admit, Answer, Goto, TypeOK
  <2>3. CASE pc'[w] # "decrypt"
    BY <1>0, <2>1, <2>2, <2>3 DEF SpentBeforeRun, MustVerify
  <2>4. CASE pc'[w] = "decrypt" /\ ~MustVerify(envelope[r])
    BY <1>0, <2>1, <2>2, <2>4 DEF SpentBeforeRun, MustVerify
  <2>5. CASE pc'[w] = "decrypt" /\ MustVerify(envelope[r])
    <3>1. VerifyAndOpen(envelope[r], r) /\ r \in replay'
      BY <1>0, <1>2, <2>5 DEF Admit, Answer, Goto, TypeOK
    <3>2. envelope[r].sig = "good" /\ r \notin replay
      BY <3>1 DEF VerifyAndOpen
    <3>3. runs[r] = 0 /\ \A v \in Workers : ~(job[v] = r /\ pc[v] = "decrypt")
      BY <1>0, <2>1, <2>5, <3>2 DEF SpentBeforeRun, AdmittedAreE2e, TypeOK
    <3> QED
      BY <1>0, <2>1, <2>2, <3>1, <3>2, <3>3 DEF SpentBeforeRun, MustVerify
  <2> QED
    BY <2>3, <2>4, <2>5
<1>3. ASSUME NEW w \in Workers, Decrypt(w) PROVE SpentBeforeRun'
  <2> DEFINE r == job[w]
  <2>1. /\ r \in Requests /\ UNCHANGED <<mode, job, envelope, replay>> /\ pc[w] = "decrypt"
        /\ runs' \in {runs, [runs EXCEPT ![r] = @ + 1]}
    BY <1>0, <1>3 DEF Decrypt, TypeOK
  <2>2. pc'[w] # "decrypt" /\ \A v \in Workers : v # w => pc'[v] = pc[v]
    BY <1>0, <1>3 DEF Decrypt, Answer, Goto, TypeOK
  <2>3. \A q \in Requests : q # r => runs'[q] = runs[q]
    BY <1>0, <2>1 DEF TypeOK
  <2>4. runs'[r] \in {runs[r], runs[r] + 1} /\ runs[r] \in Nat
    BY <1>0, <2>1 DEF TypeOK
  <2>5. MustVerify(envelope[r]) => /\ r \in replay /\ envelope[r].sig = "good" /\ runs[r] = 0
                                   /\ \A v \in Workers : job[v] = r /\ pc[v] = "decrypt" => v = w
    BY <1>0, <2>1 DEF SpentBeforeRun, AdmittedAreE2e
  <2> QED
    BY <1>0, <2>1, <2>2, <2>3, <2>4, <2>5 DEF SpentBeforeRun, MustVerify
<1>6. ASSUME NEW w \in Workers, RunWhole(w) PROVE SpentBeforeRun'
  <2> DEFINE r == job[w]
  <2>1. /\ r \in Requests /\ UNCHANGED <<mode, job, envelope, replay>> /\ pc[w] = "whole"
        /\ runs' \in {runs, [runs EXCEPT ![r] = @ + 1]}
    BY <1>0, <1>6 DEF RunWhole, TypeOK
  <2>2. pc'[w] # "decrypt" /\ \A v \in Workers : v # w => pc'[v] = pc[v]
    BY <1>0, <1>6 DEF RunWhole, Answer, Goto, TypeOK
  <2>3. \A q \in Requests : q # r => runs'[q] = runs[q]
    BY <1>0, <2>1 DEF TypeOK
  <2>4. envelope[r].kind # "e2e"
    BY <1>0, <2>1 DEF AdmittedAreE2e
  <2> QED
    BY <1>0, <2>1, <2>2, <2>3, <2>4 DEF SpentBeforeRun, MustVerify
<1>4. ASSUME NEW w \in Workers,
             \/ StartPull(w) \/ PullNothing(w) \/ HandleControlWork(w) \/ OpenStream(w)
             \/ Infer(w) \/ AbortStream(w) \/ PostResult(w) \/ PostFails(w)
      PROVE  SpentBeforeRun'
  <2>1. UNCHANGED <<mode, envelope, replay, runs>>
    BY <1>4 DEF StartPull, PullNothing, HandleControlWork, OpenStream, Infer, AbortStream,
       PostResult, PostFails
  <2>2. pc'[w] # "decrypt" /\ \A v \in Workers : v # w => pc'[v] = pc[v]
    BY <1>0, <1>4 DEF StartPull, PullNothing, HandleControlWork, OpenStream, Infer, AbortStream,
       PostResult,
       PostFails, Answer, Goto, TypeOK
  <2>3. \A v \in Workers : v # w => job'[v] = job[v]
    BY <1>0, <1>4 DEF StartPull, PullNothing, HandleControlWork, OpenStream, Infer, AbortStream,
       PostResult,
       PostFails, Release, TypeOK
  <2> QED
    BY <1>0, <2>1, <2>2, <2>3 DEF SpentBeforeRun, MustVerify
<1>5. CASE UNCHANGED <<mode, pc, job, envelope, replay, runs>>
  BY <1>0, <1>5 DEF SpentBeforeRun, MustVerify
<1> QED
  BY <1>1, <1>2, <1>3, <1>4, <1>5, <1>6 DEF Next, Step, vars, LoseTransport, PruneEpoch

\* Every step keeps the invariant.
LEMMA StepInv == IInv /\ [Next]_vars => IInv'
<1> SUFFICES ASSUME IInv, [Next]_vars PROVE IInv'
  OBVIOUS
<1>0. TypeOK /\ OneAnswerPerDelivery /\ OneRunPerDelivery /\ BusyCoversWork
  BY DEF IInv
<1>1. TypeOK'
  BY StepType
<1>2. OneAnswerPerDelivery' /\ OneRunPerDelivery'
  <2>1. CASE UNCHANGED <<pc, job, delivered, runs, answered>>
    BY <1>0, <2>1 DEF OneAnswerPerDelivery, OneRunPerDelivery, BeforeRun
  <2> QED
    BY <1>0, <2>1, PullCounts, OtherCounts DEF Next, vars, PruneEpoch
<1>3. BusyCoversWork'
  <2>1. ASSUME NEW w \in Workers, PostResult(w) \/ PostFails(w) PROVE BusyCoversWork'
    <3>1. job'[w] = None /\ \A v \in Workers : v # w => job'[v] = job[v] /\ busy'[v] = busy[v]
      BY <1>0, <2>1 DEF PostResult, PostFails, Release, TypeOK
    <3> QED
      BY <1>0, <3>1 DEF BusyCoversWork
  <2>2. ASSUME NEW w \in Workers, NEW r \in Requests, NEW e \in Envelopes, PullWork(w, r, e)
        PROVE  BusyCoversWork'
    BY <1>0, <2>2 DEF PullWork, BusyCoversWork, TypeOK
  <2>3. CASE UNCHANGED <<job, busy>>
    BY <1>0, <2>3 DEF BusyCoversWork
  <2> QED
    BY <2>1, <2>2, <2>3 DEF Next, Step, vars, PullNothing, LoseTransport, PruneEpoch, StartPull,
       HandleControlWork, RunWhole, OpenStream, Admit, Decrypt, Infer, AbortStream
<1> QED
  BY <1>1, <1>2, <1>3, StepSent, StepE2e, StepSpent DEF IInv

\* The invariant holds in every state of every behaviour.
LEMMA Invariance == Spec => []IInv
<1> QED
  BY InitInv, StepInv, PTL DEF Spec

-----------------------------------------------------------------------------
(* The theorems *)

\* The state of workers, envelopes and counters is well-formed: a worker
\* holds a request exactly from pull_once's hand-out to its post, and no
\* request is run or answered more often than it is handed out.
THEOREM TypeCorrect == Spec => []TypeOK
<1>1. IInv => TypeOK
  BY DEF IInv
<1> QED
  BY <1>1, Invariance, PTL

\* While admission is on, a signed end-to-end request runs once, whatever the
\* gateway hands out again and whoever pulls it; with "required" no unsigned
\* one runs; what admission does not look at runs at most once per hand-out.
THEOREM RunsOnce == Spec => []RunOnce
<1>1. IInv => RunOnce
  <2> SUFFICES ASSUME IInv, NEW r \in Requests
               PROVE  /\ runs[r] <= delivered[r]
                      /\ envelope[r].kind = "e2e" =>
                           /\ mode # "off" /\ envelope[r].sig = "good" => runs[r] <= 1
                           /\ mode = "required" /\ runs[r] > 0 => envelope[r].sig = "good"
    BY DEF RunOnce
  <2>1. mode \in {"off", "signed-only", "required"}
    BY Modes DEF IInv, TypeOK
  <2>2. runs[r] <= delivered[r]
    <3>1. BeforeRun(r) \in SUBSET Workers /\ {} \in SUBSET BeforeRun(r)
      BY DEF BeforeRun
    <3>2. Cardinality(BeforeRun(r)) \in Nat
      BY <3>1, CountingLess
    <3>3. runs[r] + Cardinality(BeforeRun(r)) <= delivered[r]
      BY DEF IInv, OneRunPerDelivery
    <3>4. runs[r] \in Nat /\ delivered[r] \in Nat
      BY DEF IInv, TypeOK
    <3> QED
      BY <3>2, <3>3, <3>4
  <2> QED
    BY <2>1, <2>2 DEF IInv, SpentBeforeRun, MustVerify
<1> QED
  BY <1>1, Invariance, PTL

\* Every answer the gateway receives, and every worker still holding the
\* request, has a hand-out of its own: no post is repeated.
THEOREM AnswersOnce == Spec => []OneAnswerPerDelivery
<1>1. IInv => OneAnswerPerDelivery
  BY DEF IInv
<1> QED
  BY <1>1, Invariance, PTL

\* The busy flag the pool reads covers every worker that holds work.
THEOREM BusyIsHonest == Spec => []BusyCoversWork
<1>1. IInv => BusyCoversWork
  BY DEF IInv
<1> QED
  BY <1>1, Invariance, PTL
=============================================================================
