------------------------- MODULE PlaneSessionProofs -------------------------
(***************************************************************************)
(* TLAPS proofs about PlaneSession, for every number of dials and every    *)
(* set of defects.                                                         *)
(***************************************************************************)
EXTENDS PlaneSession, TLAPS

-----------------------------------------------------------------------------
(* The inductive invariant *)

Labels == {"off", "queued", "headers", "judge", "ok", "failed", "loop", "gone",
           "open", "streaming", "posting", "close", "done"}

Waiting == {"queued", "headers", "open"}

\* The callers in a mutex's queue.
Standing(q) == {q[i] : i \in DOMAIN q}

\* No caller stands in a queue twice.
Distinct(q) == \A i, j \in DOMAIN q : q[i] = q[j] => i = j

\* The scalar part of TypeOK.
CellType ==
    /\ config \in [verify : BOOLEAN, backend : Backends \cup {{}}]
    /\ session \in Dials \cup {NoDial}
    /\ nonce \in [Dials -> Dials \cup {NoDial}]
    /\ leaf \in [Dials -> {"none", "unseen", "gateway", "proxy"}]
    /\ up \in [Dials -> BOOLEAN] /\ closed \in [Dials -> BOOLEAN] /\ deadline \in [Dials -> BOOLEAN]

\* The mutex of each transport and where its callers are.
MutexType == pc \in [Dials -> [Callers -> Labels]] /\ queue \in [Dials -> Seq(Callers)]

MutexOK ==
    \A d \in Dials :
        /\ Distinct(queue[d])
        /\ \A c \in Callers :
              /\ pc[d][c] \in Waiting <=> c \in Standing(queue[d])
              /\ pc[d][c] = "headers" => HasLock(d, c)

\* A dial's nonce is its own, and the gateway's quotes bind the nonce of the
\* dial they were made for.
GatewayQuotes == {Quote(k, e, e, "gateway", x) : k \in Kinds, e \in Dials, x \in Defects \cup {"none"}}

QuotesBind ==
    /\ \A d \in Dials : nonce[d] \in {d, NoDial}
    /\ resp \in [Dials -> {Response(s, e, q) : s \in {0, 200, 503}, e \in Dials \cup {NoDial},
                                               q \in GatewayQuotes \cup {NoQuote}}]

\* An answer is on its way only while its worker waits for it.
AnswerOfWorker ==
    \A d \in Dials : pc[d]["result"] # "off" => pc[d]["worker"] = "posting"

Dialling(d) == pc[d]["dialer"] \notin {"off", "ok", "failed"}

\* Dials follow one another, and while one is under way the map is empty.
DialsFollow ==
    /\ \A d, e \in Dials : e < d /\ pc[d]["dialer"] # "off" => pc[e]["dialer"] \in {"ok", "failed"}
    /\ \A d \in Dials : Dialling(d) => session = NoDial

\* Only an accepted transport is in the map, and no disconnect of it has begun.
MapHoldsAccepted ==
    \A d \in Dials :
        /\ session = d => pc[d]["dialer"] = "ok" /\ pc[d]["closer"] = "off"
        /\ pc[d]["dialer"] # "ok" => pc[d]["closer"] = "off"

IInv == /\ CellType
        /\ MutexType
        /\ MutexOK
        /\ AnswerOfWorker
        /\ QuotesBind
        /\ DialsFollow
        /\ MapHoldsAccepted
        /\ NoneLeaked

-----------------------------------------------------------------------------
(* Lemmas about the mutex *)

\* The dials are positive numbers, so none of them is NoDial.
LEMMA DialsArePositive == Dials \subseteq Nat /\ NoDial \notin Dials
  BY MaxDialsAssumption DEF Dials, NoDial

\* A caller that joins stands last; whoever had the lock keeps it.
LEMMA Join ==
  ASSUME NEW q \in Seq(Callers), Distinct(q), NEW c \in Callers, c \notin Standing(q)
  PROVE  /\ Append(q, c) \in Seq(Callers) /\ Distinct(Append(q, c))
         /\ Standing(Append(q, c)) = Standing(q) \cup {c}
         /\ q # <<>> => Append(q, c) # <<>> /\ Head(Append(q, c)) = Head(q)
<1> DEFINE p == Append(q, c)
<1>1. /\ p \in Seq(Callers) /\ Len(p) = Len(q) + 1 /\ Len(q) \in Nat
      /\ DOMAIN p = 1..Len(q) + 1 /\ DOMAIN q = 1..Len(q)
      /\ \A i \in 1..Len(q) : p[i] = q[i]
      /\ p[Len(q) + 1] = c
  OBVIOUS
<1> HIDE DEF p
<1>2. Distinct(p)
  BY <1>1 DEF Distinct, Standing
<1>3. Standing(p) = Standing(q) \cup {c}
  <2>1. \A i \in DOMAIN p : p[i] \in Standing(q) \cup {c}
    BY <1>1 DEF Standing
  <2>2. \A i \in DOMAIN q : q[i] \in Standing(p)
    BY <1>1 DEF Standing
  <2>3. c \in Standing(p)
    BY <1>1 DEF Standing
  <2> QED
    BY <2>1, <2>2, <2>3 DEF Standing
<1>4. q # <<>> => p # <<>> /\ Head(p) = Head(q)
  BY <1>1
<1> QED
  BY <1>1, <1>2, <1>3, <1>4 DEF p

\* The caller with the lock leaves, and it was standing there only once.
LEMMA Leave ==
  ASSUME NEW q \in Seq(Callers), Distinct(q), q # <<>>
  PROVE  /\ Tail(q) \in Seq(Callers) /\ Distinct(Tail(q))
         /\ Standing(Tail(q)) = Standing(q) \ {Head(q)} /\ Head(q) \in Standing(q)
<1> DEFINE p == Tail(q)
<1>1. /\ p \in Seq(Callers) /\ Len(p) = Len(q) - 1 /\ Len(q) \in Nat /\ Len(q) > 0
      /\ DOMAIN p = 1..Len(q) - 1 /\ DOMAIN q = 1..Len(q)
      /\ \A i \in 1..Len(q) - 1 : p[i] = q[i + 1]
      /\ Head(q) = q[1]
  OBVIOUS
<1> HIDE DEF p
<1>2. Distinct(p)
  BY <1>1, SMTT(40) DEF Distinct
<1>3. Standing(p) = Standing(q) \ {Head(q)}
  <2>1. \A i \in DOMAIN p : p[i] \in Standing(q) \ {Head(q)}
    BY <1>1 DEF Standing, Distinct
  <2>2. ASSUME NEW i \in DOMAIN q, q[i] # Head(q) PROVE q[i] \in Standing(p)
    <3>1. i - 1 \in DOMAIN p /\ p[i - 1] = q[i]
      BY <1>1, <2>2
    <3> QED
      BY <3>1 DEF Standing
  <2> QED
    BY <2>1, <2>2 DEF Standing
<1>4. Head(q) \in Standing(q)
  BY <1>1 DEF Standing
<1> QED
  BY <1>1, <1>2, <1>3, <1>4 DEF p

\* One caller of one transport goes from where it is to b.
LEMMA Moves ==
  ASSUME MutexType, NEW d \in Dials, NEW c \in Callers, NEW b \in Labels, Goto(d, c, b)
  PROVE  /\ pc' \in [Dials -> [Callers -> Labels]]
         /\ pc'[d][c] = b
         /\ \A e \in Dials, x \in Callers : e # d \/ x # c => pc'[e][x] = pc[e][x]
  BY DEF MutexType, Goto

\* The five things a caller does at the mutex keep it well-formed: pass by it,
\* send with the lock, join the queue, give the lock back, or give it back
\* and join again.
LEMMA MutexStep ==
  ASSUME MutexType, MutexOK, NEW d \in Dials, NEW c \in Callers, NEW b \in Labels, Goto(d, c, b),
         \/ queue' = queue /\ pc[d][c] \notin Waiting /\ b \notin Waiting
         \/ queue' = queue /\ pc[d][c] = "queued" /\ HasLock(d, c) /\ b = "headers"
         \/ Enqueue(d, c) /\ pc[d][c] \notin Waiting /\ b = "queued"
         \/ Release(d) /\ HasLock(d, c) /\ b \notin Waiting
         \/ /\ queue' = [queue EXCEPT ![d] = Append(Tail(@), c)]
            /\ HasLock(d, c) /\ b \in {"queued", "open"}
  PROVE  MutexType' /\ MutexOK'
<1> DEFINE q == queue[d]
           p == queue'[d]
<1>0. /\ q \in Seq(Callers) /\ Distinct(q) /\ queue \in [Dials -> Seq(Callers)]
      /\ \A x \in Callers : /\ pc[d][x] \in Waiting <=> x \in Standing(q)
                            /\ pc[d][x] = "headers" => q # <<>> /\ Head(q) = x
  BY DEF MutexType, MutexOK, HasLock
<1>1. /\ pc' \in [Dials -> [Callers -> Labels]] /\ pc'[d][c] = b
      /\ \A e \in Dials, x \in Callers : e # d \/ x # c => pc'[e][x] = pc[e][x]
  BY Moves
<1>2. SUFFICES /\ p \in Seq(Callers) /\ Distinct(p) /\ queue' = [queue EXCEPT ![d] = p]
               /\ \A x \in Callers : /\ pc'[d][x] \in Waiting <=> x \in Standing(p)
                                     /\ pc'[d][x] = "headers" => p # <<>> /\ Head(p) = x
  <2>1. queue' \in [Dials -> Seq(Callers)] /\ \A e \in Dials : e # d => queue'[e] = queue[e]
    BY <1>0, <1>2
  <2>2. MutexType'
    BY <1>1, <2>1 DEF MutexType
  <2>3. ASSUME NEW e \in Dials
        PROVE  /\ Distinct(queue'[e])
               /\ \A x \in Callers : /\ pc'[e][x] \in Waiting <=> x \in Standing(queue'[e])
                                     /\ pc'[e][x] = "headers" => queue'[e] # <<>> /\ Head(queue'[e]) = x
    <3>1. CASE e = d
      BY <1>2, <3>1
    <3>2. CASE e # d
      <4>1. \A x \in Callers : pc'[e][x] = pc[e][x]
        BY <1>1, <3>2
      <4>2. queue'[e] = queue[e]
        BY <2>1, <3>2
      <4> QED
        BY <4>1, <4>2 DEF MutexOK, HasLock
    <3> QED
      BY <3>1, <3>2
  <2> QED
    BY <2>2, <2>3 DEF MutexOK, HasLock
<1>3. CASE /\ queue' = queue
           /\ \/ pc[d][c] \notin Waiting /\ b \notin Waiting
              \/ pc[d][c] = "queued" /\ HasLock(d, c) /\ b = "headers"
  <2>1. p = q /\ queue' = [queue EXCEPT ![d] = p]
    BY <1>0, <1>3
  <2>2. /\ c \in Standing(q) <=> b \in Waiting
        /\ b = "headers" => q # <<>> /\ Head(q) = c
    BY <1>0, <1>3 DEF Waiting, HasLock
  <2> QED
    BY <1>0, <1>1, <2>1, <2>2
<1>4. CASE Enqueue(d, c) /\ pc[d][c] \notin Waiting /\ b = "queued"
  <2>1. p = Append(q, c) /\ queue' = [queue EXCEPT ![d] = p]
    BY <1>0, <1>4 DEF Enqueue
  <2>2. c \notin Standing(q)
    BY <1>0, <1>4
  <2>3. /\ p \in Seq(Callers) /\ Distinct(p) /\ Standing(p) = Standing(q) \cup {c}
        /\ q # <<>> => p # <<>> /\ Head(p) = Head(q)
    BY <1>0, <2>1, <2>2, Join
  <2> QED
    BY <1>0, <1>1, <1>4, <2>1, <2>3 DEF Waiting
<1>5. CASE Release(d) /\ HasLock(d, c) /\ b \notin Waiting
  <2>1. p = Tail(q) /\ queue' = [queue EXCEPT ![d] = p] /\ q # <<>> /\ Head(q) = c
    BY <1>0, <1>5 DEF Release, HasLock
  <2>2. p \in Seq(Callers) /\ Distinct(p) /\ Standing(p) = Standing(q) \ {c}
    BY <1>0, <2>1, Leave
  <2> QED
    BY <1>0, <1>1, <1>5, <2>1, <2>2 DEF Waiting
<1>6. CASE /\ queue' = [queue EXCEPT ![d] = Append(Tail(@), c)]
           /\ HasLock(d, c) /\ b \in {"queued", "open"}
  <2>1. p = Append(Tail(q), c) /\ queue' = [queue EXCEPT ![d] = p] /\ q # <<>> /\ Head(q) = c
    BY <1>0, <1>6 DEF HasLock
  <2>2. /\ Tail(q) \in Seq(Callers) /\ Distinct(Tail(q)) /\ Standing(Tail(q)) = Standing(q) \ {c}
        /\ c \in Standing(q)
    BY <1>0, <2>1, Leave
  <2>3. p \in Seq(Callers) /\ Distinct(p) /\ Standing(p) = Standing(q)
    <3>1. c \notin Standing(Tail(q))
      BY <2>2
    <3>2. /\ Append(Tail(q), c) \in Seq(Callers) /\ Distinct(Append(Tail(q), c))
          /\ Standing(Append(Tail(q), c)) = Standing(Tail(q)) \cup {c}
      BY <2>2, <3>1, Join
    <3> QED
      BY <2>1, <2>2, <3>2
  <2> QED
    BY <1>0, <1>1, <1>6, <2>1, <2>2, <2>3 DEF Waiting
<1> QED
  BY <1>3, <1>4, <1>5, <1>6

\* A worker hands its answer over to the result post: it has not got the
\* lock, or gives it back for that.
HandsOver(d) ==
    /\ pc' = [pc EXCEPT ![d]["worker"] = "posting", ![d]["result"] = "queued"]
    /\ \/ Enqueue(d, "result") /\ pc[d]["worker"] \notin Waiting
       \/ queue' = [queue EXCEPT ![d] = Append(Tail(@), "result")] /\ HasLock(d, "worker")

\* Handing over keeps the mutex well-formed too.
LEMMA HandOver ==
  ASSUME MutexType, MutexOK, NEW d \in Dials, HandsOver(d), pc[d]["result"] = "off"
  PROVE  /\ MutexType' /\ MutexOK'
         /\ pc'[d]["worker"] = "posting" /\ pc'[d]["result"] = "queued"
         /\ \A e \in Dials, x \in Callers : e # d \/ x \notin {"worker", "result"} => pc'[e][x] = pc[e][x]
<1> DEFINE q == queue[d]
           p == queue'[d]
<1>0. /\ q \in Seq(Callers) /\ Distinct(q) /\ queue \in [Dials -> Seq(Callers)]
      /\ \A x \in Callers : /\ pc[d][x] \in Waiting <=> x \in Standing(q)
                            /\ pc[d][x] = "headers" => q # <<>> /\ Head(q) = x
      /\ "worker" \in Callers /\ "result" \in Callers
  BY DEF MutexType, MutexOK, HasLock, Callers
<1>1. /\ pc' \in [Dials -> [Callers -> Labels]]
      /\ pc'[d]["worker"] = "posting" /\ pc'[d]["result"] = "queued"
      /\ \A e \in Dials, x \in Callers : e # d \/ x \notin {"worker", "result"} => pc'[e][x] = pc[e][x]
  BY <1>0 DEF HandsOver, MutexType, Labels
<1>2. /\ p \in Seq(Callers) /\ Distinct(p) /\ queue' = [queue EXCEPT ![d] = p]
      /\ Standing(p) = (Standing(q) \ {"worker"}) \cup {"result"}
      /\ \A x \in Callers : pc'[d][x] = "headers" => p # <<>> /\ Head(p) = x
  <2>0. "result" \notin Standing(q)
    BY <1>0 DEF Waiting
  <2>1. CASE Enqueue(d, "result") /\ pc[d]["worker"] \notin Waiting
    <3>1. p = Append(q, "result") /\ queue' = [queue EXCEPT ![d] = p]
      BY <1>0, <2>1 DEF Enqueue
    <3>2. /\ p \in Seq(Callers) /\ Distinct(p) /\ Standing(p) = Standing(q) \cup {"result"}
          /\ q # <<>> => p # <<>> /\ Head(p) = Head(q)
      BY <1>0, <2>0, <3>1, Join
    <3>3. "worker" \notin Standing(q)
      BY <1>0, <2>1
    <3>4. \A x \in Callers : pc'[d][x] = "headers" => pc[d][x] = "headers"
      BY <1>1
    <3> QED
      BY <1>0, <3>1, <3>2, <3>3, <3>4
  <2>2. CASE queue' = [queue EXCEPT ![d] = Append(Tail(@), "result")] /\ HasLock(d, "worker")
    <3>1. /\ p = Append(Tail(q), "result") /\ queue' = [queue EXCEPT ![d] = p]
          /\ q # <<>> /\ Head(q) = "worker"
      BY <1>0, <2>2 DEF HasLock
    <3>2. Tail(q) \in Seq(Callers) /\ Distinct(Tail(q)) /\ Standing(Tail(q)) = Standing(q) \ {"worker"}
      BY <1>0, <3>1, Leave
    <3>3. "result" \notin Standing(Tail(q))
      BY <2>0, <3>2
    <3>4. /\ Append(Tail(q), "result") \in Seq(Callers) /\ Distinct(Append(Tail(q), "result"))
          /\ Standing(Append(Tail(q), "result")) = Standing(Tail(q)) \cup {"result"}
      BY <1>0, <3>2, <3>3, Join
    <3>5. \A x \in Callers : pc'[d][x] # "headers"
      BY <1>0, <1>1, <3>1
    <3> QED
      BY <3>1, <3>2, <3>4, <3>5
  <2> QED
    BY <2>1, <2>2 DEF HandsOver
<1>3. queue' \in [Dials -> Seq(Callers)] /\ \A e \in Dials : e # d => queue'[e] = queue[e]
  BY <1>0, <1>2
<1>4. MutexType'
  BY <1>1, <1>3 DEF MutexType
<1>5. ASSUME NEW e \in Dials
      PROVE  /\ Distinct(queue'[e])
             /\ \A x \in Callers : /\ pc'[e][x] \in Waiting <=> x \in Standing(queue'[e])
                                   /\ pc'[e][x] = "headers" => queue'[e] # <<>> /\ Head(queue'[e]) = x
  <2>1. CASE e = d
    <3>1. \A x \in Callers : pc'[d][x] \in Waiting <=> x \in Standing(p)
      BY <1>0, <1>1, <1>2 DEF Waiting
    <3> QED
      BY <1>2, <2>1, <3>1
  <2>2. CASE e # d
    <3>1. (\A x \in Callers : pc'[e][x] = pc[e][x]) /\ queue'[e] = queue[e]
      BY <1>1, <1>3, <2>2
    <3> QED
      BY <3>1 DEF MutexOK, HasLock
  <2> QED
    BY <2>1, <2>2
<1> QED
  BY <1>1, <1>4, <1>5 DEF MutexOK, HasLock

\* The two steps that do it.
LEMMA HandingOver ==
  ASSUME IInv, NEW d \in Dials, PollSmallWork(d) \/ AbortAndPost(d)
  PROVE  HandsOver(d) /\ pc[d]["result"] = "off" /\ pc[d]["worker"] # "off"
<1>0. MutexOK /\ AnswerOfWorker
  BY DEF IInv
<1>1. pc[d]["worker"] \in {"headers", "streaming"}
  BY DEF PollSmallWork, Answered, AbortAndPost
<1>2. pc[d]["result"] = "off"
  BY <1>0, <1>1 DEF AnswerOfWorker
<1>3. pc[d]["worker"] = "headers" => HasLock(d, "worker")
  BY <1>0 DEF MutexOK, Callers
<1> QED
  BY <1>1, <1>2, <1>3 DEF PollSmallWork, Answered, AbortAndPost, HandsOver, Waiting

\* Every step keeps every mutex well-formed.
LEMMA StepMutex ==
  ASSUME IInv, [Next]_vars
  PROVE  MutexType' /\ MutexOK'
<1> DEFINE M == MutexType /\ MutexOK
<1>0. M /\ MapHoldsAccepted
  BY DEF IInv
<1>1. "dialer" \in Callers /\ "worker" \in Callers /\ "result" \in Callers /\ "poster" \in Callers /\ "closer" \in Callers
  BY DEF Callers
<1>2. \A c \in Callers : AfterError(c) \in {"failed", "loop", "off", "close"}
  BY DEF AfterError, Callers
<1>3. \A d \in Dials, c \in Callers : pc[d][c] = "headers" => HasLock(d, c)
  BY <1>0 DEF MutexOK
<1> USE DEF Labels, Waiting
<1>4. ASSUME NEW d \in Dials, NEW c \in Callers, SendRequest(d, c) PROVE M'
  <2>1. CASE up[d]
    BY <1>0, <1>4, <2>1, MutexStep DEF SendRequest
  <2>2. CASE ~up[d]
    <3>1. Goto(d, c, AfterError(c)) /\ Release(d) /\ HasLock(d, c)
      BY <1>4, <2>2 DEF SendRequest
    <3>2. AfterError(c) \in Labels /\ AfterError(c) \notin Waiting
      BY <1>2
    <3> QED
      BY <1>0, <3>1, <3>2, MutexStep
  <2> QED
    BY <2>1, <2>2
<1>5. ASSUME NEW d \in Dials, NEW c \in Callers, RequestFails(d, c) PROVE M'
  <2>1. Goto(d, c, AfterError(c)) /\ Release(d) /\ HasLock(d, c)
    BY <1>3, <1>5 DEF RequestFails
  <2>2. AfterError(c) \in Labels /\ AfterError(c) \notin Waiting
    BY <1>2
  <2> QED
    BY <1>0, <2>1, <2>2, MutexStep
<1>6. ASSUME NEW d \in Dials, ConnectAnswered(d) PROVE M'
  <2>1. Goto(d, "dialer", "judge") /\ Release(d) /\ HasLock(d, "dialer")
    BY <1>1, <1>3, <1>6 DEF ConnectAnswered, Answered
  <2> QED
    BY <1>0, <1>1, <2>1, MutexStep
<1>7. ASSUME NEW d \in Dials, ConnectAccepted(d) \/ ConnectRefused(d) \/ ConnectGarbled(d) PROVE M'
  <2>1. PICK b \in {"ok", "failed"} : Goto(d, "dialer", b)
    BY <1>7 DEF ConnectAccepted, ConnectRefused, ConnectGarbled
  <2>2. pc[d]["dialer"] = "judge" /\ queue' = queue
    BY <1>7 DEF ConnectAccepted, ConnectRefused, ConnectGarbled
  <2> QED
    BY <1>0, <1>1, <2>1, <2>2, MutexStep
<1>8. ASSUME NEW d \in Dials, WorkerLoop(d) PROVE M'
  <2>1. pc[d]["worker"] = "loop"
    BY <1>8 DEF WorkerLoop
  <2>2. CASE is_closed(d)
    BY <1>0, <1>1, <1>8, <2>1, <2>2, MutexStep DEF WorkerLoop
  <2>3. CASE ~is_closed(d)
    BY <1>0, <1>1, <1>8, <2>1, <2>3, MutexStep DEF WorkerLoop
  <2> QED
    BY <2>2, <2>3
<1>9. ASSUME NEW d \in Dials, PollIdle(d) PROVE M'
  <2>1. Goto(d, "worker", "loop") /\ Release(d) /\ HasLock(d, "worker")
    BY <1>1, <1>3, <1>9 DEF PollIdle, Answered
  <2> QED
    BY <1>0, <1>1, <2>1, MutexStep
<1>10. ASSUME NEW d \in Dials, PollWork(d) PROVE M'
  <2>1. /\ Goto(d, "worker", "open") /\ HasLock(d, "worker")
        /\ queue' = [queue EXCEPT ![d] = Append(Tail(@), "worker")]
    BY <1>1, <1>3, <1>10 DEF PollWork, Answered
  <2> QED
    BY <1>0, <1>1, <2>1, MutexStep
<1>11. ASSUME NEW d \in Dials, OpenStreamingPost(d) PROVE M'
  BY <1>0, <1>1, <1>11, MutexStep DEF OpenStreamingPost
<1>12. ASSUME NEW d \in Dials, StreamEnds(d) \/ PostIsOver(d) PROVE M'
  BY <1>0, <1>1, <1>12, MutexStep DEF StreamEnds, PostIsOver
<1>13. ASSUME NEW d \in Dials, PostDone(d) \/ PostedWhole(d) PROVE M'
  <2>1. \E c \in {"poster", "result"} : Goto(d, c, "off") /\ Release(d) /\ HasLock(d, c)
    BY <1>1, <1>3, <1>13 DEF PostDone, PostedWhole, Answered
  <2> QED
    BY <1>0, <1>1, <2>1, MutexStep
<1>14. ASSUME NEW d \in Dials, DisconnectJudged(d) PROVE M'
  <2>1. HasLock(d, "closer")
    BY <1>1, <1>3, <1>14 DEF DisconnectJudged, Answered
  <2>2. \/ Goto(d, "closer", "close") /\ Release(d)
        \/ /\ Goto(d, "closer", "queued")
           /\ queue' = [queue EXCEPT ![d] = Append(Tail(@), "closer")]
    BY <1>14 DEF DisconnectJudged
  <2> QED
    BY <1>0, <1>1, <2>1, <2>2, MutexStep
<1>15. ASSUME NEW d \in Dials, DisconnectCloses(d) PROVE M'
  BY <1>0, <1>1, <1>15, MutexStep DEF DisconnectCloses
<1>16. ASSUME NEW d \in Dials, Dial(d) PROVE M'
  BY <1>0, <1>1, <1>16, MutexStep DEF Dial, MayDial
<1>17. ASSUME NEW d \in Dials, DialFails(d) PROVE M'
  BY <1>0, <1>1, <1>17, MutexStep DEF DialFails, MayDial
<1>18. ASSUME NEW d \in Dials, StartWorker(d) PROVE M'
  BY <1>0, <1>1, <1>18, MutexStep DEF StartWorker
<1>19. ASSUME NEW d \in Dials, StartPost(d) PROVE M'
  BY <1>0, <1>1, <1>19, MutexStep DEF StartPost
<1>20. ASSUME NEW d \in Dials, StartDisconnect(d) PROVE M'
  <2>1. pc[d]["closer"] = "off"
    BY <1>0, <1>20 DEF StartDisconnect, MapHoldsAccepted
  <2> QED
    BY <1>0, <1>1, <1>20, <2>1, MutexStep DEF StartDisconnect
<1>21. CASE UNCHANGED <<pc, queue>>
  BY <1>0, <1>21 DEF MutexType, MutexOK, HasLock
<1>22. ASSUME NEW d \in Dials, Step(d) PROVE M'
  <2>0. CASE PollSmallWork(d) \/ AbortAndPost(d)
    BY <1>0, <2>0, HandOver, HandingOver
  <2>1. CASE DeadlinePasses(d) \/ LastOwnerDrops(d) \/ WatcherFlags(d)
    BY <1>21, <2>1 DEF DeadlinePasses, LastOwnerDrops, WatcherFlags
  <2> QED
    BY <1>4, <1>5, <1>6, <1>7, <1>8, <1>9, <1>10, <1>11, <1>12, <1>13, <1>14, <1>15, <1>22, <2>0,
       <2>1 DEF Step
<1>23. ASSUME NEW d \in Dials, ConnLost(d) PROVE M'
  BY <1>21, <1>23 DEF ConnLost
<1>24. CASE ForceCloseAll \/ UNCHANGED vars
  BY <1>21, <1>24 DEF ForceCloseAll, vars
<1> QED
  BY <1>16, <1>17, <1>18, <1>19, <1>20, <1>22, <1>23, <1>24 DEF Next

-----------------------------------------------------------------------------
(* Dials, the map and the disconnect *)

\* What a step does to the dialers, the closers and the map: it begins a
\* dial, takes one further, begins or continues a disconnect, or leaves all
\* of them alone (the map may be emptied).
OthersKeep(d, c) ==
    \A e \in Dials, x \in {"dialer", "closer"} : e # d \/ x # c => pc'[e][x] = pc[e][x]

BeginsDial(d) ==
    /\ MayDial(d) /\ pc'[d]["dialer"] \in {"queued", "failed"}
    /\ session' = NoDial /\ OthersKeep(d, "dialer")

GoesOnDialling(d) ==
    /\ Dialling(d) /\ pc'[d]["dialer"] # "off"
    /\ session' = IF pc'[d]["dialer"] = "ok" THEN d ELSE session
    /\ OthersKeep(d, "dialer")

Disconnects(d) ==
    /\ \/ session = d /\ session' = NoDial
       \/ pc[d]["closer"] # "off" /\ pc'[d]["closer"] # "off" /\ session' = session
    /\ OthersKeep(d, "closer")

LeavesDials ==
    /\ \A e \in Dials, x \in {"dialer", "closer"} : pc'[e][x] = pc[e][x]
    /\ session' \in {session, NoDial}

\* Every step does one of these.
LEMMA DialSteps ==
  ASSUME IInv, [Next]_vars
  PROVE  \/ LeavesDials
         \/ \E d \in Dials : BeginsDial(d) \/ GoesOnDialling(d) \/ Disconnects(d)
<1> DEFINE P == \/ LeavesDials
                \/ \E d \in Dials : BeginsDial(d) \/ GoesOnDialling(d) \/ Disconnects(d)
<1>0. MutexType
  BY DEF IInv
<1>1. "dialer" \in Callers /\ "worker" \in Callers /\ "result" \in Callers /\ "poster" \in Callers /\ "closer" \in Callers
  BY DEF Callers
<1>2. \A c \in Callers : AfterError(c) \in Labels
  BY DEF AfterError, Callers, Labels
<1>3. ASSUME NEW d \in Dials, NEW c \in {"worker", "result", "poster"}, NEW b \in Labels, Goto(d, c, b),
             session' = session
      PROVE  P
  BY <1>0, <1>1, <1>3, Moves DEF LeavesDials
<1>4. ASSUME NEW d \in Dials, NEW b \in Labels \ {"off"}, Goto(d, "dialer", b),
             Dialling(d), session' = IF b = "ok" THEN d ELSE session
      PROVE  P
  BY <1>0, <1>1, <1>4, Moves DEF GoesOnDialling, OthersKeep
<1>5. ASSUME NEW d \in Dials, NEW b \in Labels \ {"off"}, Goto(d, "closer", b),
             pc[d]["closer"] # "off", session' = session
      PROVE  P
  BY <1>0, <1>1, <1>5, Moves DEF Disconnects, OthersKeep
<1>6. ASSUME NEW d \in Dials, NEW c \in Callers, SendRequest(d, c) \/ RequestFails(d, c) PROVE P
  <2>1. /\ pc[d][c] \in {"queued", "headers"} /\ session' = session
        /\ \E b \in {"headers", AfterError(c)} : Goto(d, c, b)
    BY <1>6 DEF SendRequest, RequestFails
  <2>2. CASE c = "dialer"
    <3>1. \E b \in {"headers", "failed"} : Goto(d, "dialer", b)
      BY <2>1, <2>2 DEF AfterError
    <3> QED
      BY <1>4, <2>1, <2>2, <3>1 DEF Dialling, Labels
  <2>3. CASE c = "closer"
    <3>1. \E b \in {"headers", "close"} : Goto(d, "closer", b)
      BY <2>1, <2>3 DEF AfterError
    <3> QED
      BY <1>5, <2>1, <2>3, <3>1 DEF Labels
  <2>4. CASE c \in {"worker", "result", "poster"}
    BY <1>2, <1>3, <2>1, <2>4 DEF Labels, Callers
  <2> QED
    BY <2>2, <2>3, <2>4 DEF Callers
<1>7. ASSUME NEW d \in Dials,
             ConnectAnswered(d) \/ ConnectAccepted(d) \/ ConnectRefused(d) \/ ConnectGarbled(d)
      PROVE  P
  <2>1. Dialling(d)
    BY <1>7 DEF ConnectAnswered, Answered, ConnectAccepted, ConnectRefused, ConnectGarbled, Dialling
  <2>2. \E b \in {"judge", "ok", "failed"} :
           Goto(d, "dialer", b) /\ session' = IF b = "ok" THEN d ELSE session
    BY <1>7 DEF ConnectAnswered, ConnectAccepted, ConnectRefused, ConnectGarbled
  <2> QED
    BY <1>4, <2>1, <2>2 DEF Labels
<1>8. ASSUME NEW d \in Dials,
             \/ WorkerLoop(d) \/ PollIdle(d) \/ PollWork(d) \/ OpenStreamingPost(d) \/ StreamEnds(d)
             \/ PostDone(d) \/ StartWorker(d) \/ StartPost(d) \/ PostedWhole(d) \/ PostIsOver(d)
      PROVE  P
  <2>1. \E c \in {"worker", "result", "poster"}, b \in {"gone", "queued", "loop", "open", "streaming", "off"} :
           Goto(d, c, b)
    BY <1>8 DEF WorkerLoop, PollIdle, PollWork, OpenStreamingPost, StreamEnds, PostDone, StartWorker,
       StartPost, PostedWhole, PostIsOver
  <2>2. session' = session
    BY <1>8 DEF WorkerLoop, PollIdle, PollWork, OpenStreamingPost, StreamEnds, PostDone, StartWorker,
       StartPost, PostedWhole, PostIsOver
  <2> QED
    BY <1>3, <2>1, <2>2 DEF Labels
<1>9. ASSUME NEW d \in Dials, DisconnectJudged(d) \/ DisconnectCloses(d) PROVE P
  <2>1. pc[d]["closer"] # "off" /\ session' = session
    BY <1>9 DEF DisconnectJudged, Answered, DisconnectCloses
  <2>2. \E b \in {"close", "queued", "done"} : Goto(d, "closer", b)
    BY <1>9 DEF DisconnectJudged, DisconnectCloses
  <2> QED
    BY <1>5, <2>1, <2>2 DEF Labels
<1>10. ASSUME NEW d \in Dials, StartDisconnect(d) PROVE P
  <2>1. session = d /\ session' = NoDial /\ Goto(d, "closer", "queued")
    BY <1>10 DEF StartDisconnect
  <2>2. OthersKeep(d, "closer")
    BY <1>0, <1>1, <2>1, Moves DEF OthersKeep, Labels
  <2> QED
    BY <2>1, <2>2 DEF Disconnects
<1>11. ASSUME NEW d \in Dials, Dial(d) \/ DialFails(d) PROVE P
  <2>1. /\ MayDial(d) /\ session' = NoDial
        /\ \E b \in {"queued", "failed"} : Goto(d, "dialer", b)
    BY <1>11 DEF Dial, DialFails
  <2>2. pc'[d]["dialer"] \in {"queued", "failed"} /\ OthersKeep(d, "dialer")
    BY <1>0, <1>1, <2>1, Moves DEF OthersKeep, Labels
  <2> QED
    BY <2>1, <2>2 DEF BeginsDial
<1>12. CASE pc' = pc /\ session' \in {session, NoDial}
  BY <1>12 DEF LeavesDials
<1>13. ASSUME NEW d \in Dials,
              DeadlinePasses(d) \/ LastOwnerDrops(d) \/ WatcherFlags(d) \/ ConnLost(d)
       PROVE  P
  BY <1>12, <1>13 DEF DeadlinePasses, LastOwnerDrops, WatcherFlags, ConnLost
<1>14. CASE ForceCloseAll \/ UNCHANGED vars
  BY <1>12, <1>14 DEF ForceCloseAll, vars
<1>15. ASSUME NEW d \in Dials, PollSmallWork(d) \/ AbortAndPost(d) PROVE P
  <2>1. session' = session
    BY <1>15 DEF PollSmallWork, AbortAndPost
  <2>2. \A e \in Dials, x \in {"dialer", "closer"} : pc'[e][x] = pc[e][x]
    BY <1>1, <1>15, HandOver, HandingOver DEF IInv
  <2> QED
    BY <2>1, <2>2 DEF LeavesDials
<1> QED
  BY <1>6, <1>7, <1>8, <1>9, <1>10, <1>11, <1>13, <1>14, <1>15 DEF Next, Step

\* An answer goes on being its worker's.
LEMMA StepAnswer ==
  ASSUME IInv, [Next]_vars
  PROVE  AnswerOfWorker'
<1>0. AnswerOfWorker /\ MutexType
  BY DEF IInv
<1>1. "worker" \in Callers /\ "result" \in Callers
  BY DEF Callers
<1>2. ASSUME NEW d \in Dials, NEW c \in Callers, NEW b \in Labels, Goto(d, c, b),
             c = "worker" => pc[d]["result"] = "off", c = "result" => pc[d]["result"] # "off"
      PROVE  AnswerOfWorker'
  BY <1>0, <1>1, <1>2, Moves DEF AnswerOfWorker
<1>3. ASSUME NEW d \in Dials, pc[d]["worker"] # "posting" PROVE pc[d]["result"] = "off"
  BY <1>0, <1>3 DEF AnswerOfWorker
<1>4. ASSUME NEW d \in Dials, NEW c \in Callers, SendRequest(d, c) \/ RequestFails(d, c)
      PROVE  AnswerOfWorker'
  <2>1. pc[d][c] \in {"queued", "headers"} /\ \E b \in {"headers", AfterError(c)} : Goto(d, c, b)
    BY <1>4 DEF SendRequest, RequestFails
  <2>2. AfterError(c) \in Labels /\ "headers" \in Labels
    BY DEF AfterError, Callers, Labels
  <2> QED
    BY <1>2, <1>3, <2>1, <2>2
<1>5. ASSUME NEW d \in Dials,
             \/ WorkerLoop(d) \/ PollIdle(d) \/ PollWork(d) \/ OpenStreamingPost(d) \/ StreamEnds(d)
             \/ StartWorker(d) \/ PostIsOver(d)
      PROVE  AnswerOfWorker'
  <2>1. pc[d]["worker"] # "posting" \/ pc[d]["result"] = "off"
    BY <1>5 DEF WorkerLoop, PollIdle, PollWork, OpenStreamingPost, StreamEnds, StartWorker, PostIsOver,
       Answered
  <2>2. \E b \in {"gone", "queued", "loop", "open", "streaming"} : Goto(d, "worker", b)
    BY <1>5 DEF WorkerLoop, PollIdle, PollWork, OpenStreamingPost, StreamEnds, StartWorker, PostIsOver
  <2> QED
    BY <1>1, <1>2, <1>3, <2>1, <2>2 DEF Labels
<1>6. ASSUME NEW d \in Dials, PostedWhole(d) PROVE AnswerOfWorker'
  BY <1>1, <1>2, <1>6 DEF PostedWhole, Answered, Labels
<1>7. ASSUME NEW d \in Dials, PollSmallWork(d) \/ AbortAndPost(d) PROVE AnswerOfWorker'
  <2>1. /\ pc'[d]["worker"] = "posting"
        /\ \A e \in Dials : e # d => pc'[e]["worker"] = pc[e]["worker"] /\ pc'[e]["result"] = pc[e]["result"]
    BY <1>1, <1>7, HandOver, HandingOver DEF IInv
  <2> QED
    BY <1>0, <2>1 DEF AnswerOfWorker
<1>8. ASSUME NEW d \in Dials, NEW c \in {"dialer", "poster", "closer"}, NEW b \in Labels, Goto(d, c, b)
      PROVE  AnswerOfWorker'
  BY <1>2, <1>8 DEF Callers
<1>9. ASSUME NEW d \in Dials,
             \/ ConnectAnswered(d) \/ ConnectAccepted(d) \/ ConnectRefused(d) \/ ConnectGarbled(d)
             \/ PostDone(d) \/ StartPost(d) \/ DisconnectJudged(d) \/ DisconnectCloses(d)
             \/ StartDisconnect(d) \/ Dial(d) \/ DialFails(d)
      PROVE  AnswerOfWorker'
  <2>1. \E c \in {"dialer", "poster", "closer"}, b \in {"judge", "ok", "failed", "off", "queued", "close", "done"} :
           Goto(d, c, b)
    BY <1>9 DEF ConnectAnswered, ConnectAccepted, ConnectRefused, ConnectGarbled, PostDone, StartPost,
       DisconnectJudged, DisconnectCloses, StartDisconnect, Dial, DialFails
  <2> QED
    BY <1>8, <2>1 DEF Labels
<1>10. CASE pc' = pc
  BY <1>0, <1>10 DEF AnswerOfWorker
<1>11. ASSUME NEW d \in Dials,
              DeadlinePasses(d) \/ LastOwnerDrops(d) \/ WatcherFlags(d) \/ ConnLost(d)
       PROVE  AnswerOfWorker'
  BY <1>10, <1>11 DEF DeadlinePasses, LastOwnerDrops, WatcherFlags, ConnLost
<1>12. CASE ForceCloseAll \/ UNCHANGED vars
  BY <1>10, <1>12 DEF ForceCloseAll, vars
<1> QED
  BY <1>4, <1>5, <1>6, <1>7, <1>9, <1>11, <1>12 DEF Next, Step

\* Dials go on following one another, and the map holds an accepted one.
LEMMA StepOrder ==
  ASSUME IInv, [Next]_vars
  PROVE  DialsFollow' /\ MapHoldsAccepted'
<1>0. DialsFollow /\ MapHoldsAccepted
  BY DEF IInv
<1> USE DialsArePositive
<1>1. CASE LeavesDials
  BY <1>0, <1>1 DEF LeavesDials, DialsFollow, MapHoldsAccepted, Dialling
<1>2. ASSUME NEW d \in Dials, BeginsDial(d) PROVE DialsFollow' /\ MapHoldsAccepted'
  <2>1. DialsFollow'
    BY <1>0, <1>2 DEF BeginsDial, MayDial, OthersKeep, DialsFollow, Dialling
  <2>2. MapHoldsAccepted'
    BY <1>0, <1>2 DEF BeginsDial, MayDial, OthersKeep, MapHoldsAccepted
  <2> QED
    BY <2>1, <2>2
<1>3. ASSUME NEW d \in Dials, GoesOnDialling(d) PROVE DialsFollow' /\ MapHoldsAccepted'
  <2>1. session = NoDial /\ \A e \in Dials : e # d => ~Dialling(e) /\ (d < e => pc[e]["dialer"] = "off")
    <3>1. session = NoDial /\ Dialling(d)
      BY <1>0, <1>3 DEF GoesOnDialling, DialsFollow
    <3>2. ASSUME NEW e \in Dials, e < d PROVE ~Dialling(e)
      BY <1>0, <3>1, <3>2 DEF DialsFollow, Dialling
    <3>3. ASSUME NEW e \in Dials, d < e PROVE pc[e]["dialer"] = "off"
      BY <1>0, <3>1, <3>3 DEF DialsFollow, Dialling
    <3>4. \A e \in Dials : e # d => e < d \/ d < e
      OBVIOUS
    <3>5. \A e \in Dials : e < d => ~(d < e)
      OBVIOUS
    <3> QED
      BY <3>1, <3>2, <3>3, <3>4, <3>5 DEF Dialling
  <2>2. DialsFollow'
    BY <1>0, <1>3, <2>1 DEF GoesOnDialling, OthersKeep, DialsFollow, Dialling
  <2>3. MapHoldsAccepted'
    BY <1>0, <1>3, <2>1 DEF GoesOnDialling, OthersKeep, MapHoldsAccepted, Dialling
  <2> QED
    BY <2>2, <2>3
<1>4. ASSUME NEW d \in Dials, Disconnects(d) PROVE DialsFollow' /\ MapHoldsAccepted'
  <2>1. pc[d]["dialer"] = "ok" /\ session' # d
    BY <1>0, <1>4 DEF Disconnects, MapHoldsAccepted
  <2>2. DialsFollow'
    BY <1>0, <1>4 DEF Disconnects, OthersKeep, DialsFollow, Dialling
  <2>3. MapHoldsAccepted'
    BY <1>0, <1>4, <2>1 DEF Disconnects, OthersKeep, MapHoldsAccepted
  <2> QED
    BY <2>2, <2>3
<1> QED
  BY <1>1, <1>2, <1>3, <1>4, DialSteps

\* Connections are only made by a dial, and a closed flag is never cleared.
LEMMA StepCells ==
  ASSUME IInv, [Next]_vars
  PROVE  /\ CellType'
         /\ \A d \in Dials : closed[d] => closed'[d]
         /\ \A d \in Dials : up'[d] => up[d] \/ Dial(d)
         /\ config' = config
<1> DEFINE P == /\ CellType'
                /\ \A d \in Dials : closed[d] => closed'[d]
                /\ \A d \in Dials : up'[d] => up[d] \/ Dial(d)
                /\ config' = config
<1>0. CellType
  BY DEF IInv
<1> USE DialsArePositive
<1>1. ASSUME NEW d \in Dials, \E c \in Callers : SendRequest(d, c) \/ RequestFails(d, c) PROVE P
  <2>1. /\ UNCHANGED <<config, session, nonce, leaf, up, deadline>>
        /\ closed' \in {closed, [closed EXCEPT ![d] = TRUE]}
    BY <1>1 DEF SendRequest, RequestFails, shared, mark_closed
  <2> QED
    BY <1>0, <2>1 DEF CellType
<1>2. ASSUME NEW d \in Dials,
             ConnectAnswered(d) \/ ConnectAccepted(d) \/ ConnectRefused(d) \/ ConnectGarbled(d)
      PROVE  P
  <2>1. /\ UNCHANGED <<config, nonce, leaf, up, deadline>> /\ session' \in {session, d}
        /\ closed' \in {closed, [closed EXCEPT ![d] = TRUE]}
    BY <1>2 DEF ConnectAnswered, ConnectAccepted, ConnectRefused, ConnectGarbled, mark_closed
  <2> QED
    BY <1>0, <2>1 DEF CellType
<1>3. ASSUME NEW d \in Dials,
             \/ WorkerLoop(d) \/ PollIdle(d) \/ PollWork(d) \/ OpenStreamingPost(d) \/ StreamEnds(d)
             \/ PostDone(d) \/ StartWorker(d) \/ StartPost(d) \/ StartDisconnect(d)
             \/ DisconnectJudged(d) \/ PollSmallWork(d) \/ AbortAndPost(d) \/ PostedWhole(d)
             \/ PostIsOver(d)
      PROVE  P
  <2>1. UNCHANGED <<config, nonce, leaf, up, closed, deadline>> /\ session' \in {session, NoDial}
    BY <1>3 DEF WorkerLoop, PollIdle, PollWork, OpenStreamingPost, StreamEnds, PostDone, StartWorker,
       StartPost, StartDisconnect, DisconnectJudged, PollSmallWork, AbortAndPost, PostedWhole,
       PostIsOver, shared
  <2> QED
    BY <1>0, <2>1 DEF CellType
<1>4. ASSUME NEW d \in Dials, \/ DeadlinePasses(d) \/ DisconnectCloses(d) \/ LastOwnerDrops(d)
                             \/ WatcherFlags(d) \/ ConnLost(d)
      PROVE  P
  <2>1. /\ UNCHANGED <<config, session, nonce, leaf>>
        /\ closed' \in {closed, [closed EXCEPT ![d] = TRUE]}
        /\ up' \in {up, [up EXCEPT ![d] = FALSE]}
        /\ deadline' \in {deadline, [deadline EXCEPT ![d] = TRUE], [deadline EXCEPT ![d] = FALSE]}
    BY <1>4 DEF DeadlinePasses, DisconnectCloses, LastOwnerDrops, WatcherFlags, ConnLost, shared,
       mark_closed
  <2> QED
    BY <1>0, <2>1 DEF CellType
<1>5. DropStale \/ (session # NoDial /\ mark_closed(session)) =>
         closed' \in [Dials -> BOOLEAN] /\ \A d \in Dials : closed[d] => closed'[d]
  BY <1>0 DEF DropStale, mark_closed, CellType
<1>6. ASSUME NEW d \in Dials, Dial(d) PROVE P
  <2>1. /\ UNCHANGED <<config, deadline>> /\ session' = NoDial /\ DropStale
        /\ nonce' = [nonce EXCEPT ![d] = d]
        /\ \E l \in {"gateway", "proxy", "unseen"} : leaf' = [leaf EXCEPT ![d] = l]
        /\ up' = [up EXCEPT ![d] = TRUE]
    BY <1>6 DEF Dial, generate_gateway_connect_challenge_nonce
  <2>2. CellType' /\ (\A e \in Dials : closed[e] => closed'[e])
    BY <1>0, <1>5, <2>1 DEF CellType
  <2>3. \A e \in Dials : up'[e] => up[e] \/ e = d
    BY <1>0, <2>1 DEF CellType
  <2> QED
    BY <1>6, <2>1, <2>2, <2>3
<1>7. ASSUME NEW d \in Dials, DialFails(d) PROVE P
  <2>1. UNCHANGED <<config, nonce, leaf, up, deadline>> /\ session' = NoDial /\ DropStale
    BY <1>7 DEF DialFails, shared
  <2> QED
    BY <1>0, <1>5, <2>1 DEF CellType
<1>8. CASE ForceCloseAll
  <2>1. /\ UNCHANGED <<config, nonce, leaf, up, deadline>> /\ session' = NoDial
        /\ session # NoDial /\ mark_closed(session)
    BY <1>8 DEF ForceCloseAll, shared
  <2> QED
    BY <1>0, <1>5, <2>1 DEF CellType
<1>9. CASE UNCHANGED vars
  BY <1>0, <1>9 DEF vars, CellType
<1> QED
  BY <1>1, <1>2, <1>3, <1>4, <1>6, <1>7, <1>8, <1>9 DEF Next, Step

\* A dial's nonce stays its own, and whatever quote a dial is handed binds
\* the dial it was made for.
LEMMA StepQuotes ==
  ASSUME IInv, [Next]_vars
  PROVE  QuotesBind'
<1>0. QuotesBind /\ CellType
  BY DEF IInv
<1> USE DialsArePositive
<1>1. Quotes \subseteq GatewayQuotes
  BY <1>0 DEF Quotes, GatewayQuotes, QuotesBind
<1> DEFINE R == {Response(s, e, q) : s \in {0, 200, 503}, e \in Dials \cup {NoDial},
                                     q \in GatewayQuotes \cup {NoQuote}}
<1>2. NoResponse \in R
  BY DEF NoResponse
<1>3. ASSUME NEW d \in Dials, ConnectAnswered(d) PROVE QuotesBind'
  <2>1. PICK s \in {200, 503}, e \in {NoDial, nonce[d]}, q \in Quotes \cup {NoQuote} :
           resp' = [resp EXCEPT ![d] = Response(s, e, q)]
    BY <1>3 DEF ConnectAnswered
  <2>2. e \in Dials \cup {NoDial} /\ q \in GatewayQuotes \cup {NoQuote}
    BY <1>0, <1>1 DEF CellType
  <2>3. Response(s, e, q) \in R
    BY <2>2
  <2>4. nonce' = nonce
    BY <1>3 DEF ConnectAnswered
  <2> QED
    BY <1>0, <2>1, <2>3, <2>4 DEF QuotesBind
<1>4. ASSUME NEW d \in Dials, ConnectAccepted(d) \/ ConnectRefused(d) \/ ConnectGarbled(d)
      PROVE  QuotesBind'
  <2>1. resp' = [resp EXCEPT ![d] = NoResponse] /\ nonce' = nonce
    BY <1>4 DEF ConnectAccepted, ConnectRefused, ConnectGarbled
  <2> QED
    BY <1>0, <1>2, <2>1 DEF QuotesBind
<1>5. ASSUME NEW d \in Dials, Dial(d) PROVE QuotesBind'
  <2>1. nonce' = [nonce EXCEPT ![d] = d] /\ resp' = resp
    BY <1>5 DEF Dial, generate_gateway_connect_challenge_nonce
  <2> QED
    BY <1>0, <2>1 DEF QuotesBind, CellType
<1>6. CASE UNCHANGED <<nonce, resp>>
  BY <1>0, <1>6 DEF QuotesBind
<1>7. ASSUME NEW d \in Dials, Step(d) PROVE QuotesBind'
  BY <1>3, <1>4, <1>6, <1>7 DEF Step, SendRequest, RequestFails, WorkerLoop, PollIdle, PollWork,
     OpenStreamingPost, StreamEnds, PostDone, DeadlinePasses, DisconnectJudged, DisconnectCloses,
     LastOwnerDrops, WatcherFlags, PollSmallWork, AbortAndPost, PostedWhole, PostIsOver, shared
<1>8. ASSUME NEW d \in Dials,
             \/ DialFails(d) \/ StartWorker(d) \/ StartPost(d) \/ StartDisconnect(d) \/ ConnLost(d)
      PROVE  QuotesBind'
  BY <1>6, <1>8 DEF DialFails, StartWorker, StartPost, StartDisconnect, ConnLost, shared
<1>9. CASE ForceCloseAll \/ UNCHANGED vars
  BY <1>6, <1>9 DEF ForceCloseAll, vars, shared
<1> QED
  BY <1>5, <1>7, <1>8, <1>9 DEF Next

\* A dial is accepted, and enters the map, in one step.
LEMMA AcceptedBy ==
  ASSUME IInv, [Next]_vars, NEW d \in Dials
  PROVE  /\ pc'[d]["dialer"] = "ok" => pc[d]["dialer"] = "ok" \/ session' = d
         /\ session' = d /\ session # d => ConnectAccepted(d)
<1> USE DialsArePositive
<1>1. pc'[d]["dialer"] = "ok" => pc[d]["dialer"] = "ok" \/ session' = d
  <2>1. CASE LeavesDials
    BY <2>1 DEF LeavesDials
  <2>2. ASSUME NEW e \in Dials, BeginsDial(e) \/ GoesOnDialling(e) \/ Disconnects(e),
               pc'[d]["dialer"] = "ok", pc[d]["dialer"] # "ok"
        PROVE  session' = d
    BY <2>2 DEF BeginsDial, GoesOnDialling, Disconnects, OthersKeep
  <2> QED
    BY <2>1, <2>2, DialSteps
<1>2. ASSUME session' = d, session # d PROVE ConnectAccepted(d)
  <2>1. ASSUME NEW e \in Dials, Step(e) PROVE ConnectAccepted(d)
    BY <1>2, <2>1 DEF Step, SendRequest, RequestFails, ConnectAnswered, ConnectAccepted, ConnectRefused,
       ConnectGarbled, WorkerLoop, PollIdle, PollWork, OpenStreamingPost, StreamEnds, PostDone,
       PollSmallWork, AbortAndPost, PostedWhole, PostIsOver, DeadlinePasses, DisconnectJudged,
       DisconnectCloses, LastOwnerDrops, WatcherFlags
  <2>2. ASSUME NEW e \in Dials,
               \/ Dial(e) \/ DialFails(e) \/ StartWorker(e) \/ StartPost(e) \/ StartDisconnect(e)
               \/ ConnLost(e)
        PROVE  FALSE
    BY <1>2, <2>2 DEF Dial, DialFails, StartWorker, StartPost, StartDisconnect, ConnLost
  <2>3. CASE ForceCloseAll \/ UNCHANGED vars
    BY <1>2, <2>3 DEF ForceCloseAll, vars
  <2> QED
    BY <2>1, <2>2, <2>3 DEF Next
<1> QED
  BY <1>1, <1>2

\* A verifier that accepts has seen the gateway's quote for the dial's TLS
\* connection, and an SEV-SNP wrapper for the dial itself.
LEMMA VerifiedIsOwn ==
  ASSUME QuotesBind, NEW d \in Dials, ConnectAccepted(d), config.verify
  PROVE  Entitled(d)
<1> USE DialsArePositive
<1> DEFINE q == resp[d].quote
<1>1. q \in GatewayQuotes
  <2>1. PICK x \in {0, 200, 503}, e \in Dials \cup {NoDial}, u \in GatewayQuotes \cup {NoQuote} :
           resp[d] = Response(x, e, u)
    BY DEF QuotesBind
  <2>2. q \in GatewayQuotes \cup {NoQuote}
    BY <2>1 DEF Response
  <2>3. q # NoQuote
    BY DEF ConnectAccepted, verify_connect_response, NonceEcho
  <2> QED
    BY <2>2, <2>3
<1>2. PICK k \in Kinds, e \in Dials, x \in Defects \cup {"none"} : q = Quote(k, e, e, "gateway", x)
  BY <1>1 DEF GatewayQuotes
<1>3. q.kind = k /\ q.dial = e /\ q.nonce = e /\ q.leaf = "gateway" /\ q.defect = x
  BY <1>2 DEF Quote
<1>4. /\ q.kind = "snp" => q.nonce = nonce[d]
      /\ q.kind # "other" /\ q.leaf = leaf[d] /\ verify_platform_attestation_bundle(q)
  BY DEF ConnectAccepted, verify_connect_response, NonceEcho, verify_wrapper_report_data,
     assert_gateway_tls_leaf
<1>5. q.kind = "snp" => e = d
  BY <1>3, <1>4 DEF QuotesBind
<1>6. q.kind \in config.backend /\ x \in {"none", "undated"}
  BY <1>3, <1>4, DefectsAssumption DEF verify_platform_attestation_bundle, extract_claims,
     verify_claims_against_policy
<1> QED
  BY <1>3, <1>4, <1>5, <1>6 DEF Entitled

\* Whatever takes a transport out of the map closes it or disconnects it.
LEMMA LeavingTheMap ==
  ASSUME IInv, [Next]_vars, session # NoDial, session' # session
  PROVE  closed'[session] \/ pc'[session]["closer"] # "off"
<1>0. CellType /\ MutexType /\ DialsFollow
  BY DEF IInv
<1>1. session \in Dials
  BY <1>0 DEF CellType
<1>2. mark_closed(session) => closed'[session]
  BY <1>0, <1>1 DEF mark_closed, CellType
<1>3. ASSUME NEW d \in Dials, Dial(d) \/ DialFails(d) PROVE closed'[session]
  BY <1>2, <1>3 DEF Dial, DialFails, DropStale
<1>4. ASSUME NEW d \in Dials, StartDisconnect(d) PROVE pc'[session]["closer"] # "off"
  <2>1. session = d /\ Goto(d, "closer", "queued") /\ "closer" \in Callers /\ "queued" \in Labels
    BY <1>4 DEF StartDisconnect, Callers, Labels
  <2>2. pc'[d]["closer"] = "queued"
    BY <1>0, <2>1, Moves
  <2> QED
    BY <2>1, <2>2
<1>5. ASSUME NEW d \in Dials, ConnectAccepted(d) PROVE FALSE
  BY <1>0, <1>5 DEF ConnectAccepted, DialsFollow, Dialling
<1>6. CASE ForceCloseAll
  BY <1>2, <1>6 DEF ForceCloseAll
<1>7. ASSUME NEW d \in Dials, Step(d) PROVE FALSE
  BY <1>5, <1>7 DEF Step, SendRequest, RequestFails, ConnectAnswered, ConnectRefused, ConnectGarbled,
     WorkerLoop, PollIdle, PollWork, OpenStreamingPost, StreamEnds, PostDone, DeadlinePasses,
     DisconnectJudged, DisconnectCloses, LastOwnerDrops, WatcherFlags, PollSmallWork, AbortAndPost,
     PostedWhole, PostIsOver
<1>8. ASSUME NEW d \in Dials, StartWorker(d) \/ StartPost(d) \/ ConnLost(d) PROVE FALSE
  BY <1>8 DEF StartWorker, StartPost, ConnLost
<1> QED
  BY <1>3, <1>4, <1>6, <1>7, <1>8 DEF Next, vars

\* No step leaves an open transport without an owner.
LEMMA StepLeaked ==
  ASSUME IInv, [Next]_vars
  PROVE  NoneLeaked'
<1> USE DialsArePositive
<1>0. NoneLeaked /\ DialsFollow /\ MapHoldsAccepted
  BY DEF IInv
<1> SUFFICES ASSUME NEW d \in Dials, pc'[d]["dialer"] = "ok", session' # d
             PROVE  closed'[d] \/ ~up'[d] \/ pc'[d]["closer"] # "off"
  BY DEF NoneLeaked
<1>1. pc[d]["dialer"] = "ok"
  BY AcceptedBy
<1>2. CASE session = d
  BY <1>2, LeavingTheMap
<1>3. CASE session # d
  <2>1. closed[d] \/ ~up[d] \/ pc[d]["closer"] # "off"
    BY <1>0, <1>1, <1>3 DEF NoneLeaked
  <2>2. closed[d] => closed'[d]
    BY StepCells
  <2>3. ~up[d] => ~up'[d]
    <3>1. ~Dial(d)
      BY <1>1 DEF Dial, MayDial
    <3> QED
      BY <3>1, StepCells
  <2>4. pc[d]["closer"] # "off" => pc'[d]["closer"] # "off"
    <3>1. CASE LeavesDials
      BY <3>1 DEF LeavesDials
    <3>2. ASSUME NEW e \in Dials, BeginsDial(e) \/ GoesOnDialling(e)
          PROVE  pc'[d]["closer"] = pc[d]["closer"]
      BY <3>2 DEF BeginsDial, GoesOnDialling, OthersKeep
    <3>3. ASSUME NEW e \in Dials, Disconnects(e), pc[d]["closer"] # "off"
          PROVE  pc'[d]["closer"] # "off"
      BY <1>3, <3>3 DEF Disconnects, OthersKeep
    <3> QED
      BY <3>1, <3>2, <3>3, DialSteps
  <2> QED
    BY <2>1, <2>2, <2>3, <2>4
<1> QED
  BY <1>2, <1>3

-----------------------------------------------------------------------------
(* The theorems *)

\* The invariant holds before the first dial.
LEMMA InitInv == Init => IInv
<1> SUFFICES ASSUME Init PROVE IInv
  OBVIOUS
<1>1. CellType
  BY DEF Init, CellType
<1>2. MutexType
  BY DEF Init, MutexType, Labels
<1>3. MutexOK
  BY DEF Init, MutexOK, Distinct, Standing, Waiting
<1>4. QuotesBind
  <2>1. NoResponse \in {Response(s, e, q) : s \in {0, 200, 503}, e \in Dials \cup {NoDial},
                                           q \in GatewayQuotes \cup {NoQuote}}
    BY DEF NoResponse
  <2>2. nonce = [d \in Dials |-> NoDial] /\ resp = [d \in Dials |-> NoResponse]
    BY DEF Init
  <2> QED
    BY <2>1, <2>2 DEF QuotesBind
<1>5. \A d \in Dials : /\ pc[d]["dialer"] = "off" /\ pc[d]["closer"] = "off" /\ pc[d]["result"] = "off"
                      /\ session # d
  BY DialsArePositive DEF Init, Callers
<1>6. DialsFollow /\ MapHoldsAccepted /\ AnswerOfWorker /\ NoneLeaked
  BY <1>5 DEF DialsFollow, Dialling, MapHoldsAccepted, AnswerOfWorker, NoneLeaked
<1> QED
  BY <1>1, <1>2, <1>3, <1>4, <1>6 DEF IInv

\* The invariant holds in every state of every behaviour.
LEMMA Invariance == Spec => []IInv
<1>1. IInv /\ [Next]_vars => IInv'
  BY StepCells, StepMutex, StepQuotes, StepOrder, StepAnswer, StepLeaked DEF IInv
<1> QED
  BY <1>1, InitInv, PTL DEF Spec

\* The state is well-formed, and so is the mutex around SendRequest: who wants
\* it stands in its queue once, and only its holder awaits a response.
THEOREM TypeCorrect == Spec => []TypeOK
<1>1. IInv => TypeOK
  <2> SUFFICES ASSUME IInv PROVE TypeOK
    OBVIOUS
  <2>1. CellType /\ MutexType /\ MutexOK /\ QuotesBind
    BY DEF IInv
  <2> DEFINE Q == {Quote(k, e, n, l, x) : k \in Kinds, e \in Dials \cup {NoDial}, n \in Dials \cup {NoDial},
                                          l \in {"none", "gateway"}, x \in Defects \cup {"none"}}
  <2>2. GatewayQuotes \cup {NoQuote} \subseteq Q
    BY DEF GatewayQuotes, NoQuote, Kinds
  <2>3. SUFFICES ASSUME NEW d \in Dials
        PROVE  /\ resp[d].quote \in Q
               /\ \A i, j \in DOMAIN queue[d] : queue[d][i] = queue[d][j] => i = j
               /\ \A c \in Callers :
                     /\ pc[d][c] \in {"off", "queued", "headers", "judge", "ok", "failed", "loop",
                                      "gone", "open", "streaming", "posting", "close", "done"}
                     /\ pc[d][c] \in {"queued", "headers", "open"} <=> \E i \in DOMAIN queue[d] : queue[d][i] = c
                     /\ pc[d][c] = "headers" => HasLock(d, c)
    BY <2>1, SMT DEF TypeOK, CellType
  <2> HIDE DEF Q
  <2>4. resp[d].quote \in Q
    <3>1. PICK x \in {0, 200, 503}, e \in Dials \cup {NoDial}, q \in GatewayQuotes \cup {NoQuote} :
             resp[d] = Response(x, e, q)
      BY <2>1 DEF QuotesBind
    <3>2. resp[d].quote = q
      BY <3>1 DEF Response
    <3> QED
      BY <2>2, <3>2
  <2> QED
    BY <2>1, <2>4 DEF MutexType, MutexOK, Distinct, Standing, Labels, Waiting
<1> QED
  BY <1>1, Invariance, PTL

\* With a verifier set, a dial enters the map on evidence for the TLS leaf it
\* saw, accepted by the policy, and, of an SEV-SNP wrapper, made for this dial.
THEOREM EvidenceIsOwn == Spec => OwnEvidence
<1> DEFINE A == \A d \in Dials : config.verify /\ session' = d /\ session # d => Entitled(d)
<1>1. IInv /\ [Next]_vars => [A]_vars
  BY AcceptedBy, VerifiedIsOwn DEF IInv
<1>2. Spec => [][A]_vars
  <2> HIDE DEF A
  <2> QED
    BY <1>1, Invariance, PTL DEF Spec
<1> QED
  BY <1>2 DEF OwnEvidence

\* An accepted transport outside the map is closed, lost or being disconnected.
THEOREM NoTransportLeaks == Spec => []NoneLeaked
<1>1. IInv => NoneLeaked
  BY DEF IInv
<1> QED
  BY <1>1, Invariance, PTL
=============================================================================
