------------------------ MODULE SupervisedPoolProofs ------------------------
(***************************************************************************)
(* TLAPS proofs about SupervisedPool, for every number of sessions, tasks  *)
(* and workers, and any commands and faults.                               *)
(*                                                                         *)
(* The claims and the make-before-break argument need no types of the      *)
(* lists a task works through: they depend on no more than the lengths of  *)
(* those lists, and only where a task appends and takes one by one.  The   *)
(* last section types the lists and with them every variable.              *)
(***************************************************************************)
EXTENDS SupervisedPool, PoolPlanningProofs, FiniteSetTheorems, WellFoundedInduction, TLAPS

-----------------------------------------------------------------------------
(* The inductive invariant *)

LocRecord(V) == [sid : V, new : Session \cup {NoSession}, gw : V, n : V,
                 todo : V, planned : V, done : V, keep : V]

LocShape == \E V : loc \in [Task -> LocRecord(V)]

WorkerRecord == [st : {"free", "poll", "work", "exited"}, sid : Session \cup {NoSession},
                 busy : BOOLEAN, stop : BOOLEAN, link : Link]

PoolShape ==
    /\ slots \in Seq(Session)
    /\ pending \in [Session -> BOOLEAN] /\ suppress \in [Session -> BOOLEAN]
    /\ closed \in BOOLEAN /\ minted \in 0 .. MaxSession

PlaneShape ==
    /\ conn \in [Session -> {"none", "open", "lost"}]
    /\ registry \in [Session -> Worker \cup {NoWorker}]
    /\ worker \in [Worker -> WorkerRecord]

TaskShape == pc \in [Task -> PC] /\ LocShape

\* No session has two slots, and those in the pool have been dialled.
SlotsOnce == \A i, j \in DOMAIN slots : slots[i] = slots[j] => i = j

SlotsMinted == \A s \in SlotIds : s \in 1 .. minted

\* A task that reconnects a session keeps it from being claimed again: the
\* flag stays set, or a release has suppressed the slot or removed it.
Claimed ==
    \A t \in Task :
        pc[t] \in Owning =>
            /\ loc[t].sid \in 1 .. minted
            /\ loc[t].sid \in SlotIds => pending[loc[t].sid] = TRUE \/ suppress[loc[t].sid] = TRUE

\* The session a migration has dialled to replace another one: without a slot
\* it cannot be claimed, and no other task has it.
Swapping(t) == pc[t] \in {"mg_release", "mg_closing"}

ReplacementUnused ==
    \A t \in Task :
        Swapping(t) => /\ loc[t].new \in 1 .. minted
                       /\ loc[t].new \notin SlotIds
                       /\ \A u \in Task : pc[u] \in Owning => loc[u].sid # loc[t].new
                       /\ \A u \in Task : Swapping(u) /\ loc[u].new = loc[t].new => u = t

Claims == /\ SlotsOnce /\ SlotsMinted /\ Claimed /\ ReplacementUnused
          /\ OneReconnectPerSession /\ PendingHasOwner

\* A worker on the transport in the connector's map has an open one.
LinkIsOpen ==
    \A w \in Worker :
        worker[w].link = Current => worker[w].sid \in 1 .. minted /\ conn[worker[w].sid] = "open"

\* While a task tears down and re-dials, its session is not in the map.
RedialsUnmapped ==
    \A t \in Task : pc[t] \in {"rc_closing", "rc_dial"} => conn[loc[t].sid] = "none"

\* A session about to get its worker has been dialled.
NewMinted ==
    \A t \in Task :
        pc[t] \in {"sc_ready", "mg_release", "mg_closing", "mg_ready", "mg_ahead_ready"}
            => loc[t].new \in 1 .. minted

CloseWaits == \A t \in Task : pc[t] = "cl_wait" => closed = TRUE

Links == LinkIsOpen /\ RedialsUnmapped /\ NewMinted /\ CloseWaits

IInv == PoolShape /\ PlaneShape /\ TaskShape /\ Claims /\ Links

-----------------------------------------------------------------------------
(* The tasks' variables *)

\* A task's local variables are set anew.
LEMMA LocSet ==
  ASSUME LocShape, NEW t \in Task, NEW V, NEW r \in LocRecord(V), loc' = [loc EXCEPT ![t] = r]
  PROVE  LocShape' /\ loc'[t] = r /\ \A u \in Task : u # t => loc'[u] = loc[u]
<1>1. PICK W : loc \in [Task -> LocRecord(W)]
  BY DEF LocShape
<1> DEFINE X == V \cup W
<1>2. r \in LocRecord(X) /\ loc \in [Task -> LocRecord(X)]
  BY <1>1 DEF LocRecord
<1>3. loc' \in [Task -> LocRecord(X)]
  BY <1>2
<1> QED
  BY <1>1, <1>3 DEF LocShape

\* Some of a task's local variables are assigned.
LEMMA LocAssign ==
  ASSUME LocShape, NEW t \in Task, NEW a, NEW b, NEW c \in Session \cup {NoSession},
         \/ loc' = [loc EXCEPT ![t].gw = a]
         \/ loc' = [loc EXCEPT ![t].new = c]
         \/ loc' = [loc EXCEPT ![t].planned = a]
         \/ loc' = [loc EXCEPT ![t].todo = a]
         \/ loc' = [loc EXCEPT ![t].todo = a, ![t].done = b]
         \/ loc' = [loc EXCEPT ![t].n = a, ![t].gw = b]
  PROVE  /\ LocShape' /\ \A u \in Task : u # t => loc'[u] = loc[u]
         /\ loc'[t].sid = loc[t].sid
<1>1. PICK W : loc \in [Task -> LocRecord(W)]
  BY DEF LocShape
<1> DEFINE X == W \cup {a, b}
<1>2. loc' \in [Task -> LocRecord(X)]
  BY <1>1 DEF LocRecord
<1>3. loc'[t].sid = loc[t].sid /\ \A u \in Task : u # t => loc'[u] = loc[u]
  BY <1>1 DEF LocRecord
<1> QED
  BY <1>2, <1>3 DEF LocShape

\* The local variables of a task whose step ends it or its iteration.
LEMMA LocReset ==
  ASSUME LocShape, NEW t \in Task
  PROVE  /\ Finish(t) => LocShape' /\ loc'[t].new = NoSession /\ \A u \in Task : u # t => loc'[u] = loc[u]
         /\ EndIteration(t) => LocShape' /\ loc'[t].new = NoSession /\ \A u \in Task : u # t => loc'[u] = loc[u]
<1>1. PICK W : loc \in [Task -> LocRecord(W)]
  BY DEF LocShape
<1> DEFINE X == W \cup {NoSession, 0, Home, <<>>, FALSE}
<1>2. ASSUME Finish(t)
      PROVE  LocShape' /\ loc'[t].new = NoSession /\ \A u \in Task : u # t => loc'[u] = loc[u]
  <2>1. FreeLoc \in LocRecord(X) /\ FreeLoc.new = NoSession
    BY DEF FreeLoc, LocRecord
  <2>2. loc' = [loc EXCEPT ![t] = FreeLoc]
    BY <1>2 DEF Finish
  <2> QED
    BY <2>1, <2>2, LocSet, ZenonT(40)
<1>3. ASSUME EndIteration(t)
      PROVE  LocShape' /\ loc'[t].new = NoSession /\ \A u \in Task : u # t => loc'[u] = loc[u]
  <2> DEFINE m == [loc EXCEPT ![t].sid = NoSession, ![t].new = NoSession]
  <2>0. m \in [Task -> LocRecord(X)]
    BY <1>1, ZenonT(40) DEF LocRecord
  <2>3. loc' = [m EXCEPT ![t].n = 0]
    BY <1>1, <1>3 DEF EndIteration
  <2> HIDE DEF m, X
  <2>1. loc' \in [Task -> LocRecord(X)]
    BY <2>0, <2>3, ZenonT(40) DEF LocRecord, X
  <2>2. loc'[t].new = NoSession /\ \A u \in Task : u # t => loc'[u] = loc[u]
    BY <1>1, <1>3 DEF LocRecord, EndIteration
  <2> QED
    BY <2>1, <2>2 DEF LocShape
<1> QED
  BY <1>2, <1>3

\* What a task's step leaves of the local variables.
LocalStep(t) == LocShape' /\ \A u \in Task : u # t => loc'[u] = loc[u]

\* A task's step leaves the other tasks' variables alone.
LEMMA LocTask ==
  ASSUME LocShape, PoolShape, NEW t \in Task, TaskStep(t)
  PROVE  LocalStep(t)
<1> USE DEF LocalStep
<1>0. CASE UNCHANGED loc
  BY <1>0 DEF LocShape
<1>1. CASE Finish(t) \/ EndIteration(t)
  BY <1>1, LocReset
<1>2. CASE ReconnectStep(t)
  <2>1. CASE ReconnectBegin(t)
    BY <1>1, <2>1, LocAssign DEF ReconnectBegin
  <2> QED
    BY <1>0, <1>1, <1>2, <2>1 DEF ReconnectStep, ReconnectClaim, ReconnectTornDown,
          ReconnectDialOk, ReconnectDialFails, ReconnectReady
<1>m. CanMint => Mint \in Session \cup {NoSession}
  BY PoolAssumption DEF CanMint, Mint, Session, PoolShape
<1>3. CASE DrainStep(t)
  <2>1. CASE DrainNext(t)
    <3>1. CASE loc' = [loc EXCEPT ![t].todo = Tail(@), ![t].sid = Head(loc[t].todo)]
      <4>1. PICK W : loc \in [Task -> LocRecord(W)]
        BY DEF LocShape
      <4> DEFINE X == W \cup {Tail(loc[t].todo), Head(loc[t].todo)}
      <4>2. loc' \in [Task -> LocRecord(X)] /\ \A u \in Task : u # t => loc'[u] = loc[u]
        BY <3>1, <4>1, ZenonT(40) DEF LocRecord
      <4> QED
        BY <4>2 DEF LocShape
    <3> QED
      BY <1>1, <2>1, <3>1 DEF DrainNext
  <2> QED
    BY <1>0, <1>1, <1>3, <2>1 DEF DrainStep, DrainRelease, DrainRemove, Release
<1>4. CASE ScaleStep(t)
  <2>1. CASE ScaleNext(t)
    <3>1. CASE loc' = [loc EXCEPT ![t].n = @ - 1, ![t].gw = primary]
      <4>1. PICK W : loc \in [Task -> LocRecord(W)]
        BY DEF LocShape
      <4> DEFINE X == W \cup {loc[t].n - 1, primary}
      <4>2. loc' \in [Task -> LocRecord(X)] /\ \A u \in Task : u # t => loc'[u] = loc[u]
        BY <3>1, <4>1, ZenonT(40) DEF LocRecord
      <4> QED
        BY <4>2 DEF LocShape
    <3> QED
      BY <1>1, <2>1, <3>1 DEF ScaleNext
  <2>2. CASE ScaleDialOk(t)
    BY <1>m, <2>2, LocAssign DEF ScaleDialOk, DialFresh
  <2>3. CASE ScaleReady(t)
    BY <2>3, LocAssign DEF ScaleReady
  <2> QED
    BY <1>0, <1>4, <2>1, <2>2, <2>3 DEF ScaleStep, ScaleDialFails
<1>5. CASE RetireStep(t)
  <2>1. CASE RetireNext(t)
    <3>1. PICK W : loc \in [Task -> LocRecord(W)]
      BY DEF LocShape
    <3> DEFINE l == loc[t]
               X == W \cup {Tail(l.todo), Head(l.todo), Append(l.done, Head(l.todo)), l.done, <<>>}
    <3>2. CASE loc' = [loc EXCEPT ![t].todo = l.done, ![t].done = <<>>]
      <4>1. loc' \in [Task -> LocRecord(X)] /\ \A u \in Task : u # t => loc'[u] = loc[u]
        BY <3>1, <3>2, ZenonT(40) DEF LocRecord
      <4> QED
        BY <4>1 DEF LocShape
    <3>3. CASE loc' = [loc EXCEPT ![t].todo = Tail(@)]
      <4>1. loc' \in [Task -> LocRecord(X)] /\ \A u \in Task : u # t => loc'[u] = loc[u]
        BY <3>1, <3>3, ZenonT(40) DEF LocRecord
      <4> QED
        BY <4>1 DEF LocShape
    <3>4. CASE loc' = [loc EXCEPT ![t].todo = Tail(@), ![t].done = Append(@, Head(l.todo))]
      <4>1. loc' \in [Task -> LocRecord(X)] /\ \A u \in Task : u # t => loc'[u] = loc[u]
        BY <3>1, <3>4, ZenonT(40) DEF LocRecord
      <4> QED
        BY <4>1 DEF LocShape
    <3>5. CASE loc' = [loc EXCEPT ![t].todo = Tail(@), ![t].sid = Head(l.todo)]
      <4>1. loc' \in [Task -> LocRecord(X)] /\ \A u \in Task : u # t => loc'[u] = loc[u]
        BY <3>1, <3>5, ZenonT(40) DEF LocRecord
      <4> QED
        BY <4>1 DEF LocShape
    <3> QED
      BY <1>1, <2>1, <3>2, <3>3, <3>4, <3>5 DEF RetireNext
  <2> QED
    BY <1>0, <1>1, <1>5, <2>1 DEF RetireStep, RetireCheck, RetireRelease, RetireRemove, Release
<1>6. CASE CloseEnd(t)
  BY <1>1, <1>6 DEF CloseEnd
<1>7. CASE MigrateStep(t)
  <2>0. PICK W : loc \in [Task -> LocRecord(W)]
    BY DEF LocShape
  <2> DEFINE l == loc[t]
  <2>1. CASE MigrateNext(t)
    <3> DEFINE s == Head(l.todo)
               i == CHOOSE j \in DOMAIN slots : slots[j] = s
               X == W \cup {Tail(l.todo), s, i}
    <3>1. CASE loc' = [loc EXCEPT ![t].todo = Tail(@), ![t].sid = s, ![t].n = i]
      <4> HIDE DEF i
      <4> DEFINE m == [loc EXCEPT ![t].todo = Tail(@), ![t].sid = s]
      <4>1. m \in [Task -> LocRecord(X)] /\ \A u \in Task : u # t => m[u] = loc[u]
        BY <2>0, ZenonT(40) DEF LocRecord
      <4>2. loc' = [m EXCEPT ![t].n = i]
        BY <2>0, <3>1
      <4> HIDE DEF m, X
      <4>3. loc' \in [Task -> LocRecord(X)] /\ \A u \in Task : u # t => loc'[u] = loc[u]
        BY <4>1, <4>2, ZenonT(40) DEF LocRecord, X
      <4> QED
        BY <4>3 DEF LocShape
    <3>2. CASE loc' = [loc EXCEPT ![t].todo = Tail(@)]
      <4> HIDE DEF i
      <4>1. loc' \in [Task -> LocRecord(X)] /\ \A u \in Task : u # t => loc'[u] = loc[u]
        BY <2>0, <3>2 DEF LocRecord
      <4> QED
        BY <4>1 DEF LocShape
    <3> QED
      BY <1>0, <1>1, <2>1, <3>1, <3>2 DEF MigrateNext
  <2>2. CASE MigrateDialOk(t) \/ DialAheadOk(t)
    BY <1>m, <2>2, LocAssign DEF MigrateDialOk, DialAheadOk, DialFresh
  <2>3. CASE DialAheadReady(t)
    <3> DEFINE X == W \cup {Append(l.done, Head(l.planned)), Tail(l.planned)}
               m == [loc EXCEPT ![t].done = Append(@, Head(l.planned)), ![t].planned = Tail(@)]
    <3>1. m \in [Task -> LocRecord(X)] /\ \A u \in Task : u # t => m[u] = loc[u]
      BY <2>0, ZenonT(40) DEF LocRecord
    <3>2. loc' = [m EXCEPT ![t].new = NoSession]
      BY <2>0, <2>3 DEF DialAheadReady
    <3> HIDE DEF m, X
    <3>3. loc' \in [Task -> LocRecord(X)] /\ \A u \in Task : u # t => loc'[u] = loc[u]
      BY <3>1, <3>2, ZenonT(40) DEF LocRecord, X
    <3> QED
      BY <3>3 DEF LocShape
  <2>4. CASE DialAheadFails(t)
    BY <1>1, <2>4, LocAssign DEF DialAheadFails
  <2> QED
    BY <1>0, <1>1, <1>7, <2>1, <2>2, <2>3, <2>4 DEF MigrateStep, MigrateDialFails, MigrateRelease,
          Release, MigrateSwap, MigrateReady, DialAheadDone
<1> QED
  BY <1>2, <1>3, <1>4, <1>5, <1>6, <1>7 DEF TaskStep

\* A command or a scheduled reconnect starts tasks that were idle.
IdleStart ==
    /\ LocShape' /\ pc' \in [Task -> PC]
    /\ \A u \in Task :
          \/ pc'[u] = pc[u] /\ loc'[u] = loc[u]
          \/ pc[u] = "idle" /\ pc'[u] \in {"rc_sched", "dr_next", "sc_next", "mg_next"}
          \/ pc[u] = "idle" /\ pc'[u] = "cl_wait" /\ closed' = TRUE

\* No task starts when none moves.
LEMMA Unstarted ==
  ASSUME TaskShape, UNCHANGED <<pc, loc>>
  PROVE  IdleStart
<1>1. LocShape'
  BY DEF TaskShape, LocShape
<1>2. pc' \in [Task -> PC]
  BY DEF TaskShape
<1>3. \A u \in Task : pc'[u] = pc[u] /\ loc'[u] = loc[u]
  OBVIOUS
<1> QED
  BY <1>1, <1>2, <1>3 DEF IdleStart

\* schedule_reconnect starts at most one idle task.
LEMMA Scheduled ==
  ASSUME TaskShape, NEW s, ScheduleReconnect(s)
  PROVE  IdleStart
<1>1. CASE UNCHANGED <<pc, loc>>
  BY <1>1, Unstarted
<1>2. CASE \E t \in Task : /\ pc[t] = "idle" /\ pc' = [pc EXCEPT ![t] = "rc_sched"]
                          /\ loc' = [loc EXCEPT ![t] = [FreeLoc EXCEPT !.sid = s]]
  <2>1. PICK t \in Task : /\ pc[t] = "idle" /\ pc' = [pc EXCEPT ![t] = "rc_sched"]
                          /\ loc' = [loc EXCEPT ![t] = [FreeLoc EXCEPT !.sid = s]]
    BY <1>2
  <2> DEFINE V == {s, 0, Home, <<>>, FALSE}
  <2>2. [FreeLoc EXCEPT !.sid = s] \in LocRecord(V)
    BY DEF LocRecord, FreeLoc
  <2>3. LocShape' /\ \A u \in Task : u # t => loc'[u] = loc[u]
    BY <2>1, <2>2, LocSet DEF TaskShape
  <2>4. pc' \in [Task -> PC] /\ pc'[t] = "rc_sched" /\ \A u \in Task : u # t => pc'[u] = pc[u]
    BY <2>1 DEF TaskShape, PC
  <2> QED
    BY <2>1, <2>3, <2>4 DEF IdleStart
<1> QED
  BY <1>1, <1>2 DEF ScheduleReconnect, FirstFree

\* A command starts idle tasks only.
LEMMA Commanded ==
  ASSUME TaskShape, NEW t \in Task, Command(t)
  PROVE  IdleStart
<1>0. CASE UNCHANGED <<pc, loc>>
  BY <1>0, Unstarted
<1>1. ASSUME NEW V, NEW r \in LocRecord(V), NEW q \in {"dr_next", "mg_next"}, pc[t] = "idle",
             pc' = [pc EXCEPT ![t] = q], loc' = [loc EXCEPT ![t] = r]
      PROVE  IdleStart
  <2>1. LocShape' /\ \A u \in Task : u # t => loc'[u] = loc[u]
    BY <1>1, LocSet DEF TaskShape
  <2>2. pc' \in [Task -> PC] /\ pc'[t] = q /\ \A u \in Task : u # t => pc'[u] = pc[u]
    BY <1>1 DEF TaskShape, PC
  <2> QED
    BY <1>1, <2>1, <2>2 DEF IdleStart
<1>2. ASSUME NEW cmd, Begin(t, cmd) PROVE pc[t] = "idle"
  BY <1>2 DEF Begin, FirstFree
<1>3. CASE DrainStart(t)
  <2>1. pc[t] = "idle"
    BY <1>2, <1>3 DEF DrainStart
  <2>2. CASE \E x : /\ pc' = [pc EXCEPT ![t] = "dr_next"]
                    /\ loc' = [loc EXCEPT ![t] = [FreeLoc EXCEPT !.todo = x]]
    <3>1. PICK x : /\ pc' = [pc EXCEPT ![t] = "dr_next"]
                   /\ loc' = [loc EXCEPT ![t] = [FreeLoc EXCEPT !.todo = x]]
      BY <2>2
    <3> DEFINE V == {x, 0, Home, <<>>, FALSE}
    <3>2. [FreeLoc EXCEPT !.todo = x] \in LocRecord(V)
      BY DEF LocRecord, FreeLoc, NoSession
    <3> QED
      BY <1>1, <2>1, <3>1, <3>2
  <2> QED
    BY <1>0, <1>3, <2>2 DEF DrainStart
<1>4. ASSUME NEW n, ScaleStart(t, n) PROVE IdleStart
  <2> DEFINE p == PlanPoolScale(PoolTargetSize, Len(slots), n)
             D == {u \in Task : u >= t /\ Chunk(p.toAdd, u - t) > 0}
             New(u) == [FreeLoc EXCEPT !.n = Chunk(p.toAdd, u - t)]
  <2>1. CASE /\ \A u \in D : pc[u] = "idle"
             /\ pc' = [u \in Task |-> IF u \in D THEN "sc_next" ELSE pc[u]]
             /\ loc' = [u \in Task |-> IF u \in D THEN New(u) ELSE loc[u]]
    <3>1. PICK W : loc \in [Task -> LocRecord(W)]
      BY DEF TaskShape, LocShape
    <3> DEFINE X == W \cup {0, Home, <<>>, FALSE} \cup {Chunk(p.toAdd, u - t) : u \in Task}
    <3>2. \A u \in Task : New(u) \in LocRecord(X)
      BY DEF LocRecord, FreeLoc, NoSession
    <3>3. \A u \in Task : loc[u] \in LocRecord(X)
      BY <3>1 DEF LocRecord
    <3> HIDE DEF X, D, New
    <3>4. loc' \in [Task -> LocRecord(X)]
      BY <2>1, <3>2, <3>3
    <3>5. pc' \in [Task -> PC]
      BY <2>1 DEF TaskShape, PC
    <3> QED
      BY <2>1, <3>4, <3>5 DEF IdleStart, LocShape
  <2> HIDE DEF New, D
  <2> QED
    BY <1>0, <1>4, <2>1 DEF ScaleStart, D, New
<1>5. ASSUME NEW g, NEW f, MigrateStart(t, g, f) PROVE IdleStart
  <2>1. pc[t] = "idle"
    BY <1>2, <1>5 DEF MigrateStart
  <2>2. CASE \E x, y, k : /\ pc' = [pc EXCEPT ![t] = "mg_next"]
                          /\ loc' = [loc EXCEPT ![t] = [FreeLoc EXCEPT !.gw = g, !.keep = k, !.todo = x, !.planned = y]]
    <3>1. PICK x, y, k : /\ pc' = [pc EXCEPT ![t] = "mg_next"]
                         /\ loc' = [loc EXCEPT ![t] = [FreeLoc EXCEPT !.gw = g, !.keep = k, !.todo = x, !.planned = y]]
      BY <2>2
    <3> DEFINE V == {x, y, g, k, 0, Home, <<>>, FALSE}
    <3>2. [FreeLoc EXCEPT !.gw = g, !.keep = k, !.todo = x, !.planned = y] \in LocRecord(V)
      BY DEF LocRecord, FreeLoc, NoSession
    <3> QED
      BY <1>1, <2>1, <3>1, <3>2
  <2> QED
    BY <1>0, <1>5, <2>2 DEF MigrateStart
<1>6. CASE CloseStart(t)
  <2>1. pc[t] = "idle" /\ pc' = [pc EXCEPT ![t] = "cl_wait"] /\ closed' = TRUE /\ UNCHANGED loc
    BY <1>2, <1>6 DEF CloseStart
  <2>2. pc' \in [Task -> PC] /\ pc'[t] = "cl_wait" /\ \A u \in Task : u # t => pc'[u] = pc[u]
    BY <2>1 DEF TaskShape, PC
  <2>3. LocShape'
    BY <2>1 DEF TaskShape, LocShape
  <2> QED
    BY <2>1, <2>2, <2>3 DEF IdleStart
<1> QED
  BY <1>3, <1>4, <1>5, <1>6 DEF Command

\* One task's step moves only this task.
LEMMA PcTask ==
  ASSUME TaskShape, NEW t \in Task, TaskStep(t)
  PROVE  \E q \in PC : pc' = [pc EXCEPT ![t] = q]
<1>1. ASSUME NEW q \in PC, pc' = [pc EXCEPT ![t] = q]
      PROVE  \E r \in PC : pc' = [pc EXCEPT ![t] = r]
  BY <1>1
<1>2. CASE UNCHANGED pc
  <2>1. pc' = [pc EXCEPT ![t] = pc[t]] /\ pc[t] \in PC
    BY <1>2 DEF TaskShape
  <2> QED
    BY <1>1, <2>1
<1>3. CASE Finish(t)
  BY <1>1, <1>3 DEF Finish, PC
<1>4. ASSUME NEW a, NEW b \in PC, Goto(t, a, b) PROVE \E r \in PC : pc' = [pc EXCEPT ![t] = r]
  BY <1>1, <1>4 DEF Goto
<1>5. CASE ReconnectStep(t)
  BY <1>1, <1>3, <1>4, <1>5 DEF ReconnectStep, ReconnectClaim, ReconnectBegin, ReconnectTornDown,
        ReconnectDialOk, ReconnectDialFails, ReconnectReady, PC, Owning
<1>6. CASE DrainStep(t)
  BY <1>1, <1>3, <1>4, <1>6 DEF DrainStep, DrainNext, DrainRelease, DrainRemove, PC
<1>7. CASE ScaleStep(t)
  BY <1>1, <1>3, <1>4, <1>7 DEF ScaleStep, ScaleNext, ScaleDialOk, ScaleDialFails, ScaleReady, PC
<1>8. CASE MigrateStep(t)
  <2>1. CASE MigrateNext(t)
    BY <1>1, <1>2, <1>3, <2>1 DEF MigrateNext, PC
  <2>2. CASE DialAheadFails(t)
    BY <1>1, <1>3, <2>2 DEF DialAheadFails, PC
  <2> QED
    BY <1>3, <1>4, <1>8, <2>1, <2>2 DEF MigrateStep, MigrateDialOk, MigrateDialFails, MigrateRelease,
          MigrateSwap, MigrateReady, DialAheadOk, DialAheadReady, DialAheadDone, PC
<1>9. CASE RetireStep(t)
  <2>1. CASE RetireNext(t)
    BY <1>1, <1>2, <1>3, <2>1 DEF RetireNext, PC
  <2>2. CASE RetireCheck(t)
    BY <1>1, <2>2 DEF RetireCheck, Goto, PC
  <2> QED
    BY <1>4, <1>9, <2>1, <2>2 DEF RetireStep, RetireRelease, RetireRemove, PC
<1>10. CASE CloseEnd(t)
  BY <1>3, <1>10 DEF CloseEnd
<1> QED
  BY <1>5, <1>6, <1>7, <1>8, <1>9, <1>10 DEF TaskStep

-----------------------------------------------------------------------------
(* The list of slots *)

\* A session without a slot gets one at the end of the list.
LEMMA Pushed ==
  ASSUME slots \in Seq(Session), NEW s \in Session, slots' = Append(slots, s)
  PROVE  /\ slots' \in Seq(Session)
         /\ SlotIds' = SlotIds \cup {s}
         /\ SlotsOnce /\ s \notin SlotIds => SlotsOnce'
<1>1. /\ slots' \in Seq(Session) /\ DOMAIN slots' = DOMAIN slots \cup {Len(slots) + 1}
      /\ Len(slots) + 1 \notin DOMAIN slots
      /\ slots'[Len(slots) + 1] = s /\ \A i \in DOMAIN slots : slots'[i] = slots[i]
  OBVIOUS
<1>2. SlotIds' = SlotIds \cup {s}
  BY <1>1 DEF SlotIds
<1>3. SlotsOnce /\ s \notin SlotIds => SlotsOnce'
  BY <1>1 DEF SlotIds, SlotsOnce
<1> QED
  BY <1>1, <1>2, <1>3

\* A session's slot is taken out of the list.
LEMMA Removed ==
  ASSUME slots \in Seq(Session), SlotsOnce, NEW s, slots' = Without(slots, s)
  PROVE  /\ slots' \in Seq(Session) /\ SlotIds' = SlotIds \ {s} /\ SlotsOnce'
<1>1. CASE \A j \in DOMAIN slots : slots[j] # s
  BY <1>1 DEF Without, SlotIds, SlotsOnce
<1>2. CASE \E j \in DOMAIN slots : slots[j] = s
  <2>1. PICK i \in DOMAIN slots :
           /\ slots[i] = s
           /\ slots' = [j \in 1 .. Len(slots) - 1 |-> IF j < i THEN slots[j] ELSE slots[j + 1]]
    BY <1>2 DEF Without
  <2>2. i \in 1 .. Len(slots) /\ Len(slots) \in Nat /\ DOMAIN slots = 1 .. Len(slots)
    OBVIOUS
  <2>3. DOMAIN slots' = 1 .. Len(slots) - 1 /\ \A j \in DOMAIN slots' : slots'[j] \in Session
    BY <2>1, <2>2
  <2>4. slots' \in Seq(Session)
    BY <2>1, <2>2, <2>3
  <2>5. SlotIds' = SlotIds \ {s}
    <3>1. \A x \in SlotIds' : x \in SlotIds \ {s}
      BY <2>1, <2>2, <2>3 DEF SlotIds, SlotsOnce
    <3>2. ASSUME NEW x \in SlotIds, x # s PROVE x \in SlotIds'
      <4>1. PICK k \in DOMAIN slots : slots[k] = x
        BY DEF SlotIds
      <4>2. k < i \/ k > i
        BY <2>1, <2>2, <3>2, <4>1
      <4>3. k < i => k \in DOMAIN slots' /\ slots'[k] = x
        BY <2>1, <2>2, <2>3, <4>1
      <4>4. k > i => k - 1 \in DOMAIN slots' /\ slots'[k - 1] = x
        BY <2>1, <2>2, <2>3, <4>1
      <4> QED
        BY <4>2, <4>3, <4>4 DEF SlotIds
    <3> QED
      BY <3>1, <3>2
  <2>6. SlotsOnce'
    BY <2>1, <2>2, <2>3, SMTT(40) DEF SlotsOnce
  <2> QED
    BY <2>4, <2>5, <2>6
<1> QED
  BY <1>1, <1>2

\* A slot gets another session.
LEMMA Swapped ==
  ASSUME slots \in Seq(Session), SlotsOnce, NEW i \in DOMAIN slots, NEW s \in Session,
         s \notin SlotIds, slots' = [slots EXCEPT ![i] = s]
  PROVE  /\ slots' \in Seq(Session) /\ SlotIds' = (SlotIds \ {slots[i]}) \cup {s} /\ SlotsOnce'
<1>1. /\ slots' \in Seq(Session) /\ DOMAIN slots' = DOMAIN slots /\ slots'[i] = s
      /\ \A j \in DOMAIN slots : j # i => slots'[j] = slots[j]
  OBVIOUS
<1>2. SlotIds' = (SlotIds \ {slots[i]}) \cup {s}
  BY <1>1 DEF SlotIds, SlotsOnce
<1>3. SlotsOnce'
  BY <1>1 DEF SlotsOnce, SlotIds
<1> QED
  BY <1>1, <1>2, <1>3

-----------------------------------------------------------------------------
(* Steps and claims *)

\* No task becomes the owner of a reconnect, none dials a replacement.
NoNewOwner ==
    /\ \A u \in Task : pc'[u] \in Owning => pc[u] \in Owning /\ loc'[u].sid = loc[u].sid
    /\ \A u \in Task : Swapping(u)' => Swapping(u) /\ loc'[u].new = loc[u].new

\* A session that gets a slot is nobody's.
NewSlots ==
    \A s \in SlotIds' : s \notin SlotIds =>
        /\ s \in 1 .. minted' /\ pending'[s] = FALSE
        /\ \A u \in Task : ~Owner(u, s)
        /\ \A u \in Task : Swapping(u)' => loc[u].new # s

\* The slot of a reconnect that goes on stays claimed.
KeptClaims ==
    \A u \in Task :
        /\ pc'[u] \in Owning /\ loc[u].sid \in SlotIds /\ loc[u].sid \in SlotIds'
        /\ pending[loc[u].sid] = TRUE \/ suppress[loc[u].sid] = TRUE
        => pending'[loc[u].sid] = TRUE \/ suppress'[loc[u].sid] = TRUE

\* A flag that stays set keeps its owners.
KeptOwners ==
    \A s \in SlotIds' :
        pending'[s] /\ ~closed' =>
            /\ s \in SlotIds /\ pending[s] /\ ~closed
            /\ \A u \in Task : Owner(u, s) => Owner(u, s)'

Unclaiming == /\ SlotsOnce' /\ minted \in Nat /\ minted' \in Nat /\ minted <= minted'
              /\ NoNewOwner /\ NewSlots /\ KeptClaims /\ KeptOwners

\* A step that claims nothing keeps the claims in order.
LEMMA NoClaim ==
  ASSUME Claims, Unclaiming
  PROVE  Claims'
<1> USE DEF Claims, Unclaiming
<1>1. \A u \in Task : \A s : Owner(u, s)' => Owner(u, s)
  BY DEF NoNewOwner, Owner
<1>2. SlotsMinted'
  BY DEF SlotsMinted, NewSlots
<1>3. OneReconnectPerSession'
  BY <1>1 DEF OneReconnectPerSession
<1>4. PendingHasOwner'
  BY DEF PendingHasOwner, KeptOwners
<1>5. Claimed'
  <2> SUFFICES ASSUME NEW u \in Task, pc'[u] \in Owning
               PROVE  /\ loc'[u].sid \in 1 .. minted'
                      /\ loc'[u].sid \in SlotIds' => \/ pending'[loc'[u].sid] = TRUE
                                                     \/ suppress'[loc'[u].sid] = TRUE
    BY DEF Claimed
  <2>1. pc[u] \in Owning /\ loc'[u].sid = loc[u].sid /\ loc[u].sid \in 1 .. minted
    BY DEF NoNewOwner, Claimed
  <2>2. Owner(u, loc[u].sid)
    BY <2>1 DEF Owner
  <2>3. loc[u].sid \in SlotIds' => loc[u].sid \in SlotIds
    BY <2>2 DEF NewSlots
  <2>4. loc[u].sid \in SlotIds => pending[loc[u].sid] = TRUE \/ suppress[loc[u].sid] = TRUE
    BY <2>1 DEF Claimed
  <2>5. loc[u].sid \in SlotIds' => \/ pending'[loc[u].sid] = TRUE \/ suppress'[loc[u].sid] = TRUE
    BY <2>3, <2>4 DEF KeptClaims
  <2>6. loc[u].sid \in 1 .. minted'
    BY <2>1
  <2> QED
    BY <2>1, <2>5, <2>6
<1>6. ReplacementUnused'
  <2> SUFFICES ASSUME NEW u \in Task, Swapping(u)'
               PROVE  /\ loc'[u].new \in 1 .. minted' /\ loc'[u].new \notin SlotIds'
                      /\ \A v \in Task : pc'[v] \in Owning => loc'[v].sid # loc'[u].new
                      /\ \A v \in Task : Swapping(v)' /\ loc'[v].new = loc'[u].new => v = u
    BY DEF ReplacementUnused
  <2>1. Swapping(u) /\ loc'[u].new = loc[u].new
    BY DEF NoNewOwner
  <2>2. /\ loc[u].new \in 1 .. minted /\ loc[u].new \notin SlotIds
        /\ \A v \in Task : pc[v] \in Owning => loc[v].sid # loc[u].new
        /\ \A v \in Task : Swapping(v) /\ loc[v].new = loc[u].new => v = u
    BY <2>1 DEF ReplacementUnused
  <2>3. loc[u].new \notin SlotIds'
    BY <2>2 DEF NewSlots
  <2>4. \A v \in Task : Swapping(v)' => Swapping(v) /\ loc'[v].new = loc[v].new
    BY DEF NoNewOwner
  <2>5. \A v \in Task : pc'[v] \in Owning => loc'[v].sid # loc[u].new
    BY <2>2 DEF NoNewOwner
  <2> QED
    BY <2>1, <2>2, <2>3, <2>4, <2>5
<1> QED
  BY <1>2, <1>3, <1>4, <1>5, <1>6

\* No task takes, or gives up, a reconnect or a replacement.
TasksQuiet == NoNewOwner /\ \A u \in Task : pc[u] \in Owning => pc'[u] \in Owning

\* Tasks that claim nothing leave the claims as they are.
LEMMA Quiet ==
  ASSUME PoolShape, Claims, TasksQuiet, UNCHANGED <<slots, pending, suppress, closed, minted>>
  PROVE  PoolShape' /\ Claims'
<1>1. PoolShape' /\ minted \in Nat
  BY PoolAssumption DEF PoolShape
<1>2. SlotIds' = SlotIds /\ SlotsOnce'
  BY DEF SlotIds, SlotsOnce, Claims
<1>3. NewSlots /\ KeptClaims
  BY <1>2 DEF NewSlots, KeptClaims
<1>4. KeptOwners
  BY <1>2 DEF KeptOwners, TasksQuiet, NoNewOwner, Owner
<1>5. Unclaiming
  BY <1>1, <1>2, <1>3, <1>4 DEF Unclaiming, TasksQuiet
<1> QED
  BY <1>1, <1>5, NoClaim

\* A task that starts claims nothing yet.
LEMMA QuietStart ==
  ASSUME IdleStart PROVE TasksQuiet
  BY DEF IdleStart, TasksQuiet, NoNewOwner, Owning, Swapping

\* Nor does a task that moves outside the reconnect and the swap.
LEMMA QuietMove ==
  ASSUME TaskShape, NEW t \in Task, NEW q, pc' = [pc EXCEPT ![t] = q], LocalStep(t),
         q \notin Owning, q \notin {"mg_release", "mg_closing"}
  PROVE  /\ NoNewOwner
         /\ pc[t] \notin Owning => TasksQuiet
         /\ \A u \in Task : u # t => pc'[u] = pc[u] /\ loc'[u] = loc[u]
<1>1. pc'[t] = q /\ \A u \in Task : u # t => pc'[u] = pc[u] /\ loc'[u] = loc[u]
  BY DEF TaskShape, LocalStep
<1>2. NoNewOwner
  BY <1>1 DEF NoNewOwner, Swapping
<1> QED
  BY <1>1, <1>2 DEF TasksQuiet

\* The owner of a reconnect gives it up and clears the flag of the slot.
LEMMA OwnerLeaves ==
  ASSUME PoolShape, TaskShape, Claims, NEW t \in Task, pc[t] \in Owning, NEW b \in BOOLEAN,
         closed \/ loc[t].sid \notin SlotIds \/ b = FALSE, b => pending[loc[t].sid],
         pending' = [pending EXCEPT ![loc[t].sid] = b],
         UNCHANGED <<slots, suppress, closed, minted>>,
         LocalStep(t), NEW q, pc' = [pc EXCEPT ![t] = q],
         q \notin Owning, q \notin {"mg_release", "mg_closing"}
  PROVE  PoolShape' /\ Claims'
<1> DEFINE s == loc[t].sid
<1>1. s \in 1 .. minted /\ minted \in Nat /\ s \in Session
  BY PoolAssumption DEF Claims, Claimed, PoolShape, Session
<1>2. PoolShape'
  BY <1>1 DEF PoolShape
<1>3. SlotIds' = SlotIds /\ SlotsOnce'
  BY DEF SlotIds, SlotsOnce, Claims
<1>4. /\ NoNewOwner /\ pc'[t] \notin Owning
      /\ \A u \in Task : u # t => pc'[u] = pc[u] /\ loc'[u] = loc[u]
  BY QuietMove DEF TaskShape
<1>5. pending'[s] = b /\ \A r \in Session : r # s => pending'[r] = pending[r]
  BY <1>1 DEF PoolShape
<1>6. \A u \in Task : u # t /\ pc[u] \in Owning => loc[u].sid # s
  <2>1. Owner(t, s)
    BY DEF Owner
  <2> QED
    BY <1>1, <2>1 DEF Claims, OneReconnectPerSession, Owner
<1>7. \A u \in Task : pc'[u] \in Owning => loc[u].sid \in Session /\ loc[u].sid # s
  BY <1>4, <1>6, PoolAssumption DEF Claims, Claimed, PoolShape, Session
<1> HIDE DEF s
<1>8. KeptClaims
  BY <1>5, <1>7 DEF KeptClaims
<1>9. SlotIds \subseteq Session
  BY DEF SlotIds, PoolShape
<1>10. KeptOwners
  <2> SUFFICES ASSUME NEW r \in SlotIds, pending'[r], ~closed
               PROVE  pending[r] /\ \A u \in Task : Owner(u, r) => Owner(u, r)'
    BY <1>3 DEF KeptOwners
  <2>1. r # s
    BY <1>5 DEF s
  <2>2. pending[r]
    BY <1>5, <1>9, <2>1
  <2>3. \A u \in Task : Owner(u, r) => u # t
    BY <2>1 DEF Owner, s
  <2> QED
    BY <1>4, <2>2, <2>3 DEF Owner
<1>11. NewSlots
  BY <1>3 DEF NewSlots
<1> QED
  BY <1>1, <1>2, <1>3, <1>4, <1>8, <1>10, <1>11, NoClaim DEF Unclaiming

\* A task claims a session's slot.
LEMMA Claiming ==
  ASSUME PoolShape, TaskShape, Claims, NEW t \in Task, pc[t] = "rc_sched",
         HasSlot(loc[t].sid), ~suppress[loc[t].sid], ~pending[loc[t].sid],
         pending' = [pending EXCEPT ![loc[t].sid] = TRUE],
         UNCHANGED <<slots, suppress, closed, minted, loc>>,
         pc' = [pc EXCEPT ![t] = "rc_sleep"]
  PROVE  PoolShape' /\ Claims'
<1> DEFINE s == loc[t].sid
<1>1. s \in SlotIds /\ s \in 1 .. minted /\ minted \in Nat /\ s \in Session
  BY PoolAssumption DEF Claims, SlotsMinted, PoolShape, Session, HasSlot
<1>2. PoolShape'
  BY <1>1 DEF PoolShape
<1>3. SlotIds' = SlotIds /\ SlotsOnce' /\ SlotsMinted' /\ SlotIds \subseteq Session
  BY DEF SlotIds, SlotsOnce, SlotsMinted, Claims, PoolShape
<1>4. pc'[t] = "rc_sleep" /\ \A u \in Task : u # t => pc'[u] = pc[u]
  BY DEF TaskShape
<1>5. pending'[s] = TRUE /\ \A r \in Session : r # s => pending'[r] = pending[r]
  BY <1>1 DEF PoolShape
<1>6. \A u \in Task : pc[u] \in Owning => loc[u].sid # s
  BY <1>1 DEF Claims, Claimed
<1>7. "rc_sleep" \in Owning /\ pc[t] \notin Owning /\ ~Swapping(t) /\ ~Swapping(t)'
  BY <1>4 DEF Owning, Swapping
<1>8. Owner(t, s)'
  BY <1>4, <1>7 DEF Owner
<1>9. \A u \in Task : u # t /\ pc'[u] \in Owning => pc[u] \in Owning
  BY <1>4
<1> HIDE DEF s
<1>10. OneReconnectPerSession'
  BY <1>6, <1>9 DEF Claims, OneReconnectPerSession, Owner, s
<1>11. Claimed'
  <2> SUFFICES ASSUME NEW u \in Task, pc'[u] \in Owning
               PROVE  /\ loc[u].sid \in 1 .. minted
                      /\ loc[u].sid \in SlotIds => pending'[loc[u].sid] = TRUE \/ suppress[loc[u].sid] = TRUE
    BY <1>3 DEF Claimed
  <2>1. CASE u = t
    BY <1>1, <1>5, <2>1 DEF s
  <2>2. CASE u # t
    <3>1. /\ loc[u].sid \in 1 .. minted
          /\ loc[u].sid \in SlotIds => pending[loc[u].sid] = TRUE \/ suppress[loc[u].sid] = TRUE
      BY <1>9, <2>2 DEF Claims, Claimed
    <3>2. loc[u].sid # s
      BY <1>6, <1>9, <2>2
    <3> QED
      BY <1>3, <1>5, <3>1, <3>2
  <2> QED
    BY <2>1, <2>2
<1>12. ReplacementUnused'
  <2> SUFFICES ASSUME NEW u \in Task, Swapping(u)'
               PROVE  /\ loc[u].new \in 1 .. minted /\ loc[u].new \notin SlotIds
                      /\ \A v \in Task : pc'[v] \in Owning => loc[v].sid # loc[u].new
                      /\ \A v \in Task : Swapping(v)' /\ loc[v].new = loc[u].new => v = u
    BY <1>3 DEF ReplacementUnused
  <2>1. \A v \in Task : Swapping(v)' => Swapping(v)
    BY <1>4, <1>7 DEF Swapping
  <2>2. /\ loc[u].new \in 1 .. minted /\ loc[u].new \notin SlotIds
        /\ \A v \in Task : pc[v] \in Owning => loc[v].sid # loc[u].new
        /\ \A v \in Task : Swapping(v) /\ loc[v].new = loc[u].new => v = u
    BY <2>1 DEF Claims, ReplacementUnused
  <2>3. \A v \in Task : pc'[v] \in Owning => loc[v].sid # loc[u].new
    BY <1>1, <1>9, <2>2 DEF s
  <2> QED
    BY <2>1, <2>2, <2>3
<1>13. PendingHasOwner'
  <2> SUFFICES ASSUME NEW r \in SlotIds, pending'[r], ~closed PROVE \E u \in Task : Owner(u, r)'
    BY <1>3 DEF PendingHasOwner
  <2>1. CASE r = s
    BY <1>4, <1>7, <2>1 DEF Owner, s
  <2>2. CASE r # s
    <3>1. PICK u \in Task : Owner(u, r)
      BY <1>3, <1>5, <2>2 DEF Claims, PendingHasOwner
    <3>2. u # t
      BY <1>7, <3>1 DEF Owner
    <3> QED
      BY <1>4, <3>1, <3>2 DEF Owner
  <2> QED
    BY <2>1, <2>2
<1> QED
  BY <1>2, <1>3, <1>10, <1>11, <1>12, <1>13 DEF Claims

\* A session is released: its slot stays for now, but is suppressed.
LEMMA Releasing ==
  ASSUME PoolShape, TaskShape, Claims, NEW s, SuppressReconnect(s),
         UNCHANGED <<slots, closed, minted>>, TasksQuiet
  PROVE  PoolShape' /\ Claims'
<1>1. PoolShape' /\ minted \in Nat
  <2>1. \A b \in BOOLEAN : /\ [suppress EXCEPT ![s] = b] \in [Session -> BOOLEAN]
                          /\ [pending EXCEPT ![s] = b] \in [Session -> BOOLEAN]
    BY DEF PoolShape
  <2>2. (HasSlot(s) \/ suppress[s]) \in BOOLEAN /\ (pending[s] /\ ~HasSlot(s)) \in BOOLEAN
    OBVIOUS
  <2>3. suppress' \in [Session -> BOOLEAN] /\ pending' \in [Session -> BOOLEAN]
    BY <2>1, <2>2, Zenon DEF SuppressReconnect
  <2> QED
    BY <2>3, PoolAssumption DEF PoolShape
<1>2. SlotIds' = SlotIds /\ SlotsOnce' /\ SlotIds \subseteq Session
  BY DEF SlotIds, SlotsOnce, Claims, PoolShape
<1>3. \A r \in SlotIds : \/ r = s /\ suppress'[r] = TRUE /\ pending'[r] = FALSE
                         \/ r # s /\ suppress'[r] = suppress[r] /\ pending'[r] = pending[r]
  BY <1>2 DEF SuppressReconnect, PoolShape, HasSlot
<1>4. KeptClaims
  BY <1>3 DEF KeptClaims
<1>5. KeptOwners
  BY <1>2, <1>3 DEF KeptOwners, TasksQuiet, NoNewOwner, Owner
<1>6. NewSlots
  BY <1>2 DEF NewSlots
<1> QED
  BY <1>1, <1>2, <1>4, <1>5, <1>6, NoClaim DEF Unclaiming, TasksQuiet

\* A session's slot is removed.
LEMMA Removing ==
  ASSUME PoolShape, TaskShape, Claims, NEW s, RemoveSlot(s), UNCHANGED <<closed, minted>>, TasksQuiet
  PROVE  PoolShape' /\ Claims'
<1>1. slots' \in Seq(Session) /\ SlotIds' = SlotIds \ {s} /\ SlotsOnce'
  BY Removed DEF RemoveSlot, PoolShape, Claims
<1>2. PoolShape' /\ minted \in Nat
  <2>1. suppress' \in [Session -> BOOLEAN] /\ pending' \in [Session -> BOOLEAN]
    BY DEF PoolShape, RemoveSlot
  <2> QED
    BY <1>1, <2>1, PoolAssumption DEF PoolShape
<1>3. SlotIds \subseteq Session
  BY DEF SlotIds, PoolShape
<1>4. \A r \in SlotIds' : suppress'[r] = suppress[r] /\ pending'[r] = pending[r]
  BY <1>1, <1>3 DEF RemoveSlot, PoolShape
<1>5. KeptClaims
  BY <1>4 DEF KeptClaims
<1>6. KeptOwners
  BY <1>1, <1>4 DEF KeptOwners, TasksQuiet, NoNewOwner, Owner
<1>7. NewSlots
  BY <1>1 DEF NewSlots
<1> QED
  BY <1>1, <1>2, <1>5, <1>6, <1>7, NoClaim DEF Unclaiming, TasksQuiet

\* A session that is nobody's gets a slot of its own.
LEMMA Pushing ==
  ASSUME PoolShape, TaskShape, Claims, NEW s \in Session, NEW g, PushSlot(s, g),
         s \notin SlotIds, s \in 1 .. minted', minted' \in 0 .. MaxSession, minted <= minted',
         \A u \in Task : ~Owner(u, s), \A u \in Task : Swapping(u)' => loc[u].new # s,
         UNCHANGED closed, TasksQuiet
  PROVE  PoolShape' /\ Claims'
<1>1. slots' \in Seq(Session) /\ SlotIds' = SlotIds \cup {s} /\ SlotsOnce'
  BY Pushed DEF PushSlot, PoolShape, Claims
<1>2. PoolShape' /\ minted \in Nat /\ minted' \in Nat
  BY <1>1, PoolAssumption DEF PoolShape, PushSlot
<1>3. SlotIds \subseteq Session
  BY DEF SlotIds, PoolShape
<1>4. /\ \A r \in SlotIds : suppress'[r] = suppress[r] /\ pending'[r] = pending[r]
      /\ pending'[s] = FALSE
  BY <1>3 DEF PushSlot, PoolShape
<1>5. KeptClaims
  BY <1>4 DEF KeptClaims
<1>6. KeptOwners
  BY <1>1, <1>4 DEF KeptOwners, TasksQuiet, NoNewOwner, Owner
<1>7. NewSlots
  BY <1>1, <1>4 DEF NewSlots
<1> QED
  BY <1>1, <1>2, <1>5, <1>6, <1>7, NoClaim DEF Unclaiming, TasksQuiet

\* The next session id is nobody's.
LEMMA Minting ==
  ASSUME PoolShape, Claims, DialFresh
  PROVE  /\ Mint \in Session /\ Mint \notin SlotIds /\ Mint \in 1 .. minted'
         /\ minted' \in 0 .. MaxSession /\ minted <= minted' /\ minted' = minted + 1 /\ Mint = minted + 1
         /\ \A u \in Task : ~Owner(u, Mint)
         /\ \A u \in Task : Swapping(u) => loc[u].new # Mint
<1>1. /\ Mint \in Session /\ minted' = minted + 1 /\ Mint = minted + 1 /\ minted' \in 0 .. MaxSession
      /\ minted \in Nat /\ Mint \notin 1 .. minted /\ Mint \in 1 .. minted' /\ minted <= minted'
  BY PoolAssumption DEF DialFresh, CanMint, Mint, PoolShape, Session
<1>2. Mint \notin SlotIds
  BY <1>1 DEF Claims, SlotsMinted
<1>3. \A u \in Task : ~Owner(u, Mint)
  BY <1>1 DEF Claims, Claimed, Owner
<1>4. \A u \in Task : Swapping(u) => loc[u].new # Mint
  BY <1>1 DEF Claims, ReplacementUnused
<1> QED
  BY <1>1, <1>2, <1>3, <1>4

\* A migration dials a replacement.
LEMMA Replacing ==
  ASSUME PoolShape, TaskShape, Claims, NEW t \in Task, MigrateDialOk(t)
  PROVE  PoolShape' /\ Claims'
<1>1. /\ pc[t] = "mg_dial" /\ pc' = [pc EXCEPT ![t] = "mg_release"] /\ DialFresh
      /\ loc' = [loc EXCEPT ![t].new = Mint] /\ UNCHANGED <<slots, pending, suppress, closed>>
  BY DEF MigrateDialOk, Goto, poolVars
<1>2. /\ Mint \in Session /\ Mint \notin SlotIds /\ Mint \in 1 .. minted'
      /\ minted' \in 0 .. MaxSession /\ minted <= minted' /\ minted' = minted + 1 /\ Mint = minted + 1
      /\ \A u \in Task : ~Owner(u, Mint)
      /\ \A u \in Task : Swapping(u) => loc[u].new # Mint
  BY <1>1, Minting
<1>3. pc'[t] = "mg_release" /\ \A u \in Task : u # t => pc'[u] = pc[u] /\ loc'[u] = loc[u]
  <2>1. \A u \in Task : u # t => loc'[u] = loc[u]
    BY <1>1, <1>2, LocAssign DEF TaskShape
  <2> QED
    BY <1>1, <2>1 DEF TaskShape
<1>4. loc'[t].new = Mint
  <2>1. PICK V : loc \in [Task -> LocRecord(V)]
    BY DEF TaskShape, LocShape
  <2> QED
    BY <1>1, <2>1 DEF LocRecord
<1>5. PoolShape' /\ minted \in Nat
  BY <1>1, <1>2 DEF PoolShape
<1>6. /\ SlotIds' = SlotIds /\ SlotsOnce' /\ SlotIds \subseteq Session
      /\ \A r \in SlotIds : r \in 1 .. minted
  BY <1>1 DEF SlotIds, SlotsOnce, SlotsMinted, Claims, PoolShape
<1>7. SlotsMinted'
  BY <1>2, <1>5, <1>6 DEF SlotsMinted
<1>8. /\ pc[t] \notin Owning /\ pc'[t] \notin Owning /\ Swapping(t)'
      /\ \A u \in Task : u # t => (Swapping(u)' <=> Swapping(u))
  BY <1>1, <1>3 DEF Owning, Swapping
<1>9. /\ \A u \in Task : pc'[u] \in Owning <=> pc[u] \in Owning
      /\ \A u \in Task : pc[u] \in Owning => loc'[u].sid = loc[u].sid
  BY <1>3, <1>8
<1>10. \A u \in Task : \A s : Owner(u, s)' <=> Owner(u, s)
  BY <1>9 DEF Owner
<1>11. OneReconnectPerSession'
  BY <1>10 DEF Claims, OneReconnectPerSession
<1>12. PendingHasOwner'
  BY <1>1, <1>6, <1>10 DEF Claims, PendingHasOwner
<1>13. Claimed'
  <2>1. \A u \in Task : pc[u] \in Owning => loc[u].sid \in 1 .. minted'
    BY <1>2, <1>5 DEF Claims, Claimed
  <2> QED
    BY <1>1, <1>6, <1>9, <2>1 DEF Claims, Claimed
<1>14. ReplacementUnused'
  <2>1. \A u \in Task : u # t /\ Swapping(u) =>
           /\ loc[u].new \in 1 .. minted' /\ loc[u].new \notin SlotIds
           /\ \A v \in Task : pc[v] \in Owning => loc[v].sid # loc[u].new
           /\ \A v \in Task : Swapping(v) /\ loc[v].new = loc[u].new => v = u
    BY <1>2, <1>5 DEF Claims, ReplacementUnused
  <2>2. \A u \in Task : pc[u] \in Owning => loc[u].sid # Mint
    BY <1>2 DEF Owner
  <2> SUFFICES ASSUME NEW u \in Task, Swapping(u)'
               PROVE  /\ loc'[u].new \in 1 .. minted' /\ loc'[u].new \notin SlotIds
                      /\ \A v \in Task : pc'[v] \in Owning => loc'[v].sid # loc'[u].new
                      /\ \A v \in Task : Swapping(v)' /\ loc'[v].new = loc'[u].new => v = u
    BY <1>6 DEF ReplacementUnused
  <2>3. CASE u = t
    BY <1>2, <1>3, <1>4, <1>8, <1>9, <2>2, <2>3
  <2>4. CASE u # t
    BY <1>2, <1>3, <1>4, <1>8, <1>9, <2>1, <2>4
  <2> QED
    BY <2>3, <2>4
<1> QED
  BY <1>5, <1>6, <1>7, <1>11, <1>12, <1>13, <1>14 DEF Claims

\* A migration puts the replacement into the slot, or behind the others when
\* the slot has moved, or nowhere.
LEMMA Exchanging ==
  ASSUME PoolShape, TaskShape, Claims, NEW t \in Task, MigrateSwap(t)
  PROVE  PoolShape' /\ Claims'
<1> DEFINE l == loc[t]
<1>1. /\ pc[t] = "mg_closing" /\ pc' = [pc EXCEPT ![t] = "mg_ready"]
      /\ UNCHANGED <<closed, minted, loc>>
  BY DEF MigrateSwap, Goto
<1>2. TasksQuiet /\ ~Swapping(t)'
  <2>1. LocalStep(t)
    BY <1>1 DEF LocalStep, TaskShape, LocShape
  <2>2. "mg_ready" \notin Owning /\ "mg_ready" \notin {"mg_release", "mg_closing"} /\ pc[t] \notin Owning
    BY <1>1 DEF Owning
  <2>3. TasksQuiet
    BY <1>1, <2>1, <2>2, QuietMove
  <2> QED
    BY <1>1, <2>3 DEF Swapping, TaskShape
<1>3. /\ l.new \in 1 .. minted /\ minted \in 0 .. MaxSession /\ minted \in Nat /\ l.new \in Session
      /\ l.new \notin SlotIds /\ \A u \in Task : ~Owner(u, l.new)
      /\ \A u \in Task : Swapping(u)' => loc[u].new # l.new
  <2>1. Swapping(t)
    BY <1>1 DEF Swapping
  <2>2. /\ l.new \in 1 .. minted /\ l.new \notin SlotIds
        /\ \A u \in Task : pc[u] \in Owning => loc[u].sid # l.new
        /\ \A u \in Task : Swapping(u) /\ loc[u].new = l.new => u = t
    BY <2>1 DEF Claims, ReplacementUnused
  <2>3. \A u \in Task : Swapping(u)' => Swapping(u) /\ u # t
    BY <1>2 DEF TasksQuiet, NoNewOwner
  <2>4. minted \in 0 .. MaxSession /\ minted \in Nat /\ l.new \in Session
    BY <2>2, PoolAssumption DEF PoolShape, Session
  <2> QED
    BY <2>2, <2>3, <2>4 DEF Owner
<1> HIDE DEF l
<1>4. CASE /\ l.n \in DOMAIN slots /\ slots[l.n] = l.sid
           /\ slots' = [slots EXCEPT ![l.n] = l.new]
           /\ pending' = [pending EXCEPT ![l.new] = FALSE, ![l.sid] = FALSE]
           /\ suppress' = [suppress EXCEPT ![l.new] = FALSE, ![l.sid] = FALSE]
  <2>1. slots' \in Seq(Session) /\ SlotIds' = (SlotIds \ {l.sid}) \cup {l.new} /\ SlotsOnce'
    BY <1>3, <1>4, Swapped DEF PoolShape, Claims
  <2>2. l.sid \in Session /\ l.sid # l.new
    BY <1>3, <1>4 DEF PoolShape, SlotIds
  <2>3. suppress' \in [Session -> BOOLEAN] /\ pending' \in [Session -> BOOLEAN]
    BY <1>4 DEF PoolShape
  <2>4. PoolShape'
    BY <1>1, <2>1, <2>3 DEF PoolShape
  <2>5. SlotIds \subseteq Session
    BY DEF SlotIds, PoolShape
  <2>6. /\ \A r \in SlotIds : r # l.sid => suppress'[r] = suppress[r] /\ pending'[r] = pending[r]
        /\ pending'[l.new] = FALSE
    BY <1>3, <1>4, <2>2, <2>5 DEF PoolShape
  <2>7. KeptClaims
    BY <1>3, <2>1, <2>6 DEF KeptClaims
  <2>8. KeptOwners
    BY <1>1, <2>1, <2>6, <1>2 DEF KeptOwners, TasksQuiet, NoNewOwner, Owner
  <2>9. NewSlots
    BY <1>1, <1>3, <2>1, <2>6 DEF NewSlots
  <2> QED
    BY <1>1, <1>2, <1>3, <2>1, <2>4, <2>7, <2>8, <2>9, NoClaim DEF Unclaiming, TasksQuiet
<1>5. CASE PushSlot(l.new, l.gw)
  BY <1>1, <1>2, <1>3, <1>5, Pushing
<1>6. CASE UNCHANGED <<slots, url, pending, suppress>>
  BY <1>1, <1>2, <1>6, Quiet
<1> QED
  BY <1>4, <1>5, <1>6 DEF MigrateSwap, l

\* The shutdown suppresses every slot, and empties the list in the end.
LEMMA Closing ==
  ASSUME PoolShape, TaskShape, Claims, NEW t \in Task, CloseStart(t) \/ CloseEnd(t)
  PROVE  PoolShape' /\ Claims'
<1>1. CASE CloseStart(t)
  <2>1. TasksQuiet
    BY <1>1, Commanded, QuietStart DEF Command
  <2>2. /\ closed' = TRUE /\ UNCHANGED <<slots, minted>>
        /\ suppress' = [s \in Session |-> suppress[s] \/ HasSlot(s)]
        /\ pending' = [s \in Session |-> pending[s] /\ ~HasSlot(s)]
    BY <1>1 DEF CloseStart
  <2>3. PoolShape' /\ minted \in Nat
    BY <2>2, PoolAssumption DEF PoolShape
  <2>4. SlotIds' = SlotIds /\ SlotsOnce' /\ SlotIds \subseteq Session
    BY <2>2 DEF SlotIds, SlotsOnce, Claims, PoolShape
  <2>5. \A r \in SlotIds : suppress'[r] = TRUE
    BY <2>2, <2>4 DEF HasSlot
  <2>6. KeptClaims /\ KeptOwners /\ NewSlots
    BY <2>2, <2>4, <2>5 DEF KeptClaims, KeptOwners, NewSlots
  <2> QED
    BY <2>1, <2>2, <2>3, <2>4, <2>6, NoClaim DEF Unclaiming, TasksQuiet
<1>2. CASE CloseEnd(t)
  <2>1. /\ slots' = <<>> /\ UNCHANGED <<closed, minted>> /\ Finish(t) /\ pc[t] = "cl_wait"
        /\ pending' = [s \in Session |-> FALSE] /\ suppress' = [s \in Session |-> FALSE]
    BY <1>2 DEF CloseEnd
  <2>2. PoolShape' /\ minted \in Nat
    BY <2>1, PoolAssumption DEF PoolShape
  <2>3. SlotIds' = {} /\ SlotsOnce'
    BY <2>1 DEF SlotIds, SlotsOnce
  <2>4. LocalStep(t)
    BY <2>1, LocReset DEF LocalStep, TaskShape
  <2>5. "idle" \notin Owning /\ "idle" \notin {"mg_release", "mg_closing"}
    BY DEF Owning
  <2>6. NoNewOwner
    BY <2>1, <2>4, <2>5, QuietMove DEF Finish
  <2>7. KeptClaims /\ KeptOwners /\ NewSlots
    BY <2>3 DEF KeptClaims, KeptOwners, NewSlots
  <2> QED
    BY <2>1, <2>2, <2>3, <2>6, <2>7, NoClaim DEF Unclaiming
<1> QED
  BY <1>1, <1>2

\* Every step keeps the tasks' variables in shape.
LEMMA StepTasks ==
  ASSUME PoolShape, TaskShape, [Next]_vars
  PROVE  TaskShape'
<1>1. ASSUME NEW t \in Task, TaskStep(t) PROVE TaskShape'
  <2>1. PICK q \in PC : pc' = [pc EXCEPT ![t] = q]
    BY <1>1, PcTask
  <2>2. LocShape'
    BY <1>1, LocTask DEF TaskShape, LocalStep
  <2> QED
    BY <2>1, <2>2 DEF TaskShape
<1>2. CASE IdleStart
  BY <1>2 DEF IdleStart, TaskShape
<1>3. ASSUME NEW t \in Task, Command(t) PROVE TaskShape'
  BY <1>2, <1>3, Commanded
<1>4. CASE UNCHANGED <<pc, loc>>
  BY <1>2, <1>4, Unstarted
<1>5. ASSUME NEW w \in Worker, WorkerStep(w) PROVE TaskShape'
  BY <1>2, <1>4, <1>5, Scheduled DEF WorkerStep, WorkerTakesWork, WorkerDone, WorkerPostFails, WorkerStops, WorkerLost
<1>6. ASSUME NEW s \in Session, Watch(s) \/ TransportLost(s) PROVE TaskShape'
  BY <1>2, <1>4, <1>6, Scheduled DEF Watch, TransportLost
<1>7. ASSUME NEW t \in Task, DetachedLost(t) PROVE TaskShape'
  BY <1>4, <1>7 DEF DetachedLost
<1>8. CASE UNCHANGED vars
  BY <1>4, <1>8 DEF vars
<1> QED
  BY <1>1, <1>3, <1>5, <1>6, <1>7, <1>8 DEF Next

\* The steps of a task that touch neither slots nor claims.
LEMMA QuietSteps ==
  ASSUME PoolShape, TaskShape, Claims, NEW t \in Task, TaskStep(t),
         \/ DrainNext(t) \/ ScaleNext(t) \/ ScaleDialFails(t) \/ ScaleReady(t)
         \/ MigrateNext(t) \/ MigrateDialFails(t) \/ MigrateReady(t)
         \/ DialAheadReady(t) \/ DialAheadFails(t) \/ DialAheadDone(t)
         \/ RetireNext(t) \/ RetireCheck(t)
  PROVE  PoolShape' /\ Claims'
<1> DEFINE Calm == {"idle", "dr_next", "dr_release", "sc_next", "sc_dial", "sc_ready", "mg_next", "mg_dial",
                    "mg_ready", "mg_ahead", "mg_ahead_ready", "rt_next", "rt_check", "rt_release"}
<1>1. UNCHANGED <<slots, pending, suppress, closed, minted>>
  BY DEF DrainNext, ScaleNext, ScaleDialFails, ScaleReady, MigrateNext, MigrateDialFails, MigrateReady,
         DialAheadReady, DialAheadFails, DialAheadDone, RetireNext, RetireCheck, poolVars, planeVars
<1>2. pc[t] \in Calm
  BY DEF DrainNext, ScaleNext, ScaleDialFails, ScaleReady, MigrateNext, MigrateDialFails, MigrateReady,
         DialAheadReady, DialAheadFails, DialAheadDone, RetireNext, RetireCheck, Goto
<1>3. \E q \in Calm : pc' = [pc EXCEPT ![t] = q]
  <2>1. CASE UNCHANGED pc
    <3>1. pc' = [pc EXCEPT ![t] = pc[t]]
      BY <2>1 DEF TaskShape
    <3> QED
      BY <1>2, <3>1
  <2>2. CASE Finish(t)
    BY <2>2 DEF Finish
  <2>3. CASE DrainNext(t)
    BY <2>2, <2>3 DEF DrainNext
  <2>4. CASE MigrateNext(t)
    BY <2>1, <2>2, <2>4 DEF MigrateNext
  <2>5. CASE DialAheadFails(t)
    BY <2>2, <2>5 DEF DialAheadFails
  <2>6. CASE RetireNext(t)
    BY <2>1, <2>2, <2>6 DEF RetireNext
  <2>7. CASE RetireCheck(t)
    BY <2>7 DEF RetireCheck, Goto
  <2>8. CASE ScaleNext(t)
    BY <2>2, <2>8 DEF ScaleNext
  <2>9. CASE \/ ScaleDialFails(t) \/ ScaleReady(t) \/ MigrateDialFails(t) \/ MigrateReady(t)
             \/ DialAheadReady(t) \/ DialAheadDone(t)
    BY <2>2, <2>9 DEF ScaleDialFails, ScaleReady, MigrateDialFails, MigrateReady, DialAheadReady, DialAheadDone, Goto
  <2> QED
    BY <2>3, <2>4, <2>5, <2>6, <2>7, <2>8, <2>9
<1>4. \A q \in Calm : q \notin Owning /\ q \notin {"mg_release", "mg_closing"}
  BY DEF Owning
<1>5. LocalStep(t)
  BY LocTask DEF TaskShape
<1> HIDE DEF Calm
<1>6. TasksQuiet
  BY <1>2, <1>3, <1>4, <1>5, QuietMove
<1> QED
  BY <1>1, <1>6, Quiet

\* Every step keeps the claims in order.
LEMMA StepClaims ==
  ASSUME PoolShape, TaskShape, Claims, [Next]_vars
  PROVE  PoolShape' /\ Claims'
<1>1. CASE TasksQuiet /\ UNCHANGED <<slots, pending, suppress, closed, minted>>
  BY <1>1, Quiet
<1>2. CASE UNCHANGED <<pc, loc>> /\ UNCHANGED <<slots, pending, suppress, closed, minted>>
  BY <1>1, <1>2, Unstarted, QuietStart
<1>3. ASSUME NEW t \in Task, Command(t) PROVE PoolShape' /\ Claims'
  <2>1. TasksQuiet
    BY <1>3, Commanded, QuietStart
  <2>2. CASE DrainStart(t) \/ \E n : ScaleStart(t, n)
    BY <1>1, <2>1, <2>2 DEF DrainStart, ScaleStart, poolVars, planeVars
  <2>3. ASSUME NEW g, NEW f, MigrateStart(t, g, f) PROVE PoolShape' /\ Claims'
    BY <1>1, <2>1, <2>3 DEF MigrateStart, planeVars
  <2>4. CASE CloseStart(t)
    BY <2>4, Closing
  <2> QED
    BY <1>3, <2>2, <2>3, <2>4 DEF Command
<1>4. ASSUME NEW w \in Worker, WorkerStep(w) PROVE PoolShape' /\ Claims'
  <2>1. UNCHANGED <<slots, pending, suppress, closed, minted>>
    BY <1>4 DEF WorkerStep, WorkerTakesWork, WorkerDone, WorkerPostFails, WorkerStops, WorkerLost, poolVars
  <2>2. UNCHANGED <<pc, loc>> \/ ScheduleReconnect(worker[w].sid)
    BY <1>4 DEF WorkerStep, WorkerTakesWork, WorkerDone, WorkerPostFails, WorkerStops, WorkerLost
  <2> QED
    BY <1>1, <1>2, <2>1, <2>2, Scheduled, QuietStart
<1>5. ASSUME NEW s \in Session, Watch(s) \/ TransportLost(s) PROVE PoolShape' /\ Claims'
  <2>1. UNCHANGED <<slots, pending, suppress, closed, minted>>
    BY <1>5 DEF Watch, TransportLost, poolVars, planeVars
  <2>2. UNCHANGED <<pc, loc>> \/ ScheduleReconnect(s)
    BY <1>5 DEF Watch, TransportLost
  <2> QED
    BY <1>1, <1>2, <2>1, <2>2, Scheduled, QuietStart
<1>6. ASSUME NEW t \in Task, DetachedLost(t) PROVE PoolShape' /\ Claims'
  BY <1>2, <1>6 DEF DetachedLost, poolVars
<1>7. ASSUME NEW t \in Task, ReconnectStep(t), LocalStep(t) PROVE PoolShape' /\ Claims'
  <2> DEFINE s == loc[t].sid
  <2>0. /\ \A q \in {"idle", "rc_sched"} : q \notin Owning /\ q \notin {"mg_release", "mg_closing"}
        /\ \A q \in {"rc_sleep", "rc_closing", "rc_dial", "rc_ready"} : q \in Owning
        /\ "rc_sched" \notin Owning
    BY DEF Owning
  <2>1. CASE ReconnectClaim(t)
    <3>1. CASE HasSlot(s) /\ ~suppress[s] /\ ~pending[s]
      <4>1. /\ pc[t] = "rc_sched" /\ pending' = [pending EXCEPT ![s] = TRUE]
            /\ UNCHANGED <<slots, suppress, closed, minted, loc>> /\ pc' = [pc EXCEPT ![t] = "rc_sleep"]
        BY <2>1, <3>1 DEF ReconnectClaim, planeVars
      <4> QED
        BY <3>1, <4>1, Claiming
    <3>2. CASE ~(HasSlot(s) /\ ~suppress[s] /\ ~pending[s])
      <4>1. /\ pc[t] = "rc_sched" /\ pc' = [pc EXCEPT ![t] = "idle"]
            /\ UNCHANGED <<slots, pending, suppress, closed, minted>>
        BY <2>1, <3>2 DEF ReconnectClaim, Finish, planeVars
      <4> QED
        BY <1>1, <1>7, <2>0, <4>1, QuietMove
    <3> QED
      BY <3>1, <3>2
  <2>2. CASE ReconnectBegin(t)
    <3>1. pc[t] = "rc_sleep" /\ UNCHANGED <<slots, suppress, closed, minted>>
      BY <2>2 DEF ReconnectBegin
    <3>2. CASE closed \/ ~HasSlot(s) \/ suppress[s]
      <4> DEFINE b == pending[s] /\ ~(~closed /\ HasSlot(s) /\ suppress[s])
      <4>1. pending' = [pending EXCEPT ![s] = b] /\ pc' = [pc EXCEPT ![t] = "idle"]
        BY <2>2, <3>2 DEF ReconnectBegin, Finish
      <4>2. /\ b \in BOOLEAN /\ (b => pending[s])
            /\ closed \/ s \notin SlotIds \/ b = FALSE
        BY <3>2 DEF HasSlot
      <4> HIDE DEF b
      <4> QED
        BY <1>7, <2>0, <3>1, <4>1, <4>2, OwnerLeaves
    <3>3. CASE ~(closed \/ ~HasSlot(s) \/ suppress[s])
      <4>1. pc' = [pc EXCEPT ![t] = "rc_closing"] /\ loc' = [loc EXCEPT ![t].gw = url[s]] /\ UNCHANGED pending
        BY <2>2, <3>3 DEF ReconnectBegin
      <4>2. loc'[t].sid = loc[t].sid
        BY <4>1, LocAssign DEF TaskShape
      <4>3. pc'[t] = "rc_closing" /\ \A u \in Task : u # t => pc'[u] = pc[u] /\ loc'[u] = loc[u]
        BY <1>7, <4>1 DEF TaskShape, LocalStep
      <4>4. TasksQuiet
        BY <2>0, <3>1, <4>2, <4>3 DEF TasksQuiet, NoNewOwner, Swapping
      <4> QED
        BY <1>1, <3>1, <4>1, <4>4
    <3> QED
      BY <3>2, <3>3
  <2>3. CASE ReconnectTornDown(t) \/ ReconnectDialOk(t)
    <3>1. /\ pc[t] \in {"rc_closing", "rc_dial"} /\ UNCHANGED <<slots, pending, suppress, closed, minted, loc>>
          /\ \E q \in {"rc_dial", "rc_ready"} : pc' = [pc EXCEPT ![t] = q]
      BY <2>3 DEF ReconnectTornDown, ReconnectDialOk, Goto, poolVars
    <3>2. pc'[t] \in {"rc_dial", "rc_ready"} /\ \A u \in Task : u # t => pc'[u] = pc[u]
      BY <3>1 DEF TaskShape
    <3>3. TasksQuiet
      BY <2>0, <3>1, <3>2 DEF TasksQuiet, NoNewOwner, Swapping
    <3> QED
      BY <1>1, <3>1, <3>3
  <2>4. CASE ReconnectDialFails(t) \/ ReconnectReady(t)
    <3> DEFINE b == pending[s] /\ ~HasSlot(s)
    <3>1. /\ pc[t] \in {"rc_dial", "rc_ready"} /\ UNCHANGED <<slots, suppress, closed, minted>>
          /\ pending' = [pending EXCEPT ![s] = b]
      BY <2>4 DEF ReconnectDialFails, ReconnectReady, planeVars
    <3>2. \E q \in {"idle", "rc_sched"} : pc' = [pc EXCEPT ![t] = q]
      BY <2>4 DEF ReconnectDialFails, ReconnectReady, Finish
    <3>3. b \in BOOLEAN /\ (b => pending[s]) /\ (s \notin SlotIds \/ b = FALSE)
      BY DEF HasSlot
    <3> HIDE DEF b
    <3>4. pc[t] \in Owning
      BY <2>0, <3>1
    <3> QED
      BY <1>7, <2>0, <3>1, <3>2, <3>3, <3>4, OwnerLeaves
  <2> QED
    BY <1>7, <2>1, <2>2, <2>3, <2>4 DEF ReconnectStep
<1>8. ASSUME NEW t \in Task, DrainRelease(t) \/ MigrateRelease(t) \/ RetireRelease(t) PROVE PoolShape' /\ Claims'
  <2>1. /\ \/ pc[t] = "dr_release" /\ pc' = [pc EXCEPT ![t] = "dr_closing"]
           \/ pc[t] = "mg_release" /\ pc' = [pc EXCEPT ![t] = "mg_closing"]
           \/ pc[t] = "rt_release" /\ pc' = [pc EXCEPT ![t] = "rt_closing"]
        /\ SuppressReconnect(loc[t].sid) /\ UNCHANGED <<slots, closed, minted, loc>>
    BY <1>8 DEF DrainRelease, MigrateRelease, RetireRelease, Goto, Release
  <2>2. /\ \/ pc[t] = "mg_release" /\ pc'[t] = "mg_closing"
           \/ pc[t] \in {"dr_release", "rt_release"} /\ pc'[t] \in {"dr_closing", "rt_closing"}
        /\ \A u \in Task : u # t => pc'[u] = pc[u]
    BY <2>1 DEF TaskShape
  <2>3. TasksQuiet
    BY <2>1, <2>2 DEF TasksQuiet, NoNewOwner, Swapping, Owning
  <2> QED
    BY <2>1, <2>3, Releasing
<1>9. ASSUME NEW t \in Task, LocalStep(t), DrainRemove(t) \/ RetireRemove(t) PROVE PoolShape' /\ Claims'
  <2>1. /\ pc[t] \in {"dr_closing", "rt_closing"} /\ RemoveSlot(loc[t].sid) /\ UNCHANGED <<closed, minted>>
        /\ \E q \in {"dr_next", "rt_next"} : pc' = [pc EXCEPT ![t] = q]
    BY <1>9 DEF DrainRemove, RetireRemove, Goto
  <2>2. \A q \in {"dr_next", "rt_next", "dr_closing", "rt_closing"} : q \notin Owning /\ q \notin {"mg_release", "mg_closing"}
    BY DEF Owning
  <2>3. TasksQuiet
    BY <1>9, <2>1, <2>2, QuietMove
  <2> QED
    BY <2>1, <2>3, Removing
<1>10. ASSUME NEW t \in Task, LocalStep(t), ScaleDialOk(t) \/ DialAheadOk(t) PROVE PoolShape' /\ Claims'
  <2>1. /\ pc[t] \in {"sc_dial", "mg_ahead"} /\ DialFresh /\ PushSlot(Mint, loc[t].gw) /\ UNCHANGED closed
        /\ \E q \in {"sc_ready", "mg_ahead_ready"} : pc' = [pc EXCEPT ![t] = q]
    BY <1>10 DEF ScaleDialOk, DialAheadOk, Goto
  <2>2. \A q \in {"sc_ready", "mg_ahead_ready", "sc_dial", "mg_ahead"} :
           q \notin Owning /\ q \notin {"mg_release", "mg_closing"}
    BY DEF Owning
  <2>3. TasksQuiet
    BY <1>10, <2>1, <2>2, QuietMove
  <2>4. \A u \in Task : Swapping(u)' => loc[u].new # Mint
    BY <2>1, <2>3, Minting DEF TasksQuiet, NoNewOwner
  <2> QED
    BY <2>1, <2>3, <2>4, Minting, Pushing
<1>11. ASSUME NEW t \in Task, TaskStep(t) PROVE PoolShape' /\ Claims'
  <2>1. LocalStep(t)
    BY <1>11, LocTask DEF TaskShape
  <2> QED
    BY <1>7, <1>8, <1>9, <1>10, <1>11, <2>1, Replacing, Exchanging, Closing, QuietSteps
       DEF TaskStep, DrainStep, ScaleStep, MigrateStep, RetireStep
<1>12. CASE UNCHANGED vars
  BY <1>2, <1>12 DEF vars
<1> QED
  BY <1>3, <1>4, <1>5, <1>6, <1>11, <1>12 DEF Next

-----------------------------------------------------------------------------
(* Transports and workers *)

\* A worker in the middle of a request loses its live transport.
Cut(w) == /\ worker[w].st = "work" /\ worker[w].link # Dead
          /\ worker'[w].st = "work" /\ worker'[w].link = Dead

\* No worker comes to the transport in the map, and one whose session leaves
\* the map is not on it any more.
LinksFade ==
    /\ \A w \in Worker : worker'[w].link = Current =>
                            worker[w].link = Current /\ worker'[w].sid = worker[w].sid
    /\ \A s \in Session : \/ conn[s] = "open" => conn'[s] = "open"
                          \/ \A w \in Worker : worker'[w].link = Current => worker'[w].sid # s

\* Links to open transports stay links to open transports.
LEMMA Fading ==
  ASSUME LinkIsOpen, LinksFade, minted \in 0 .. MaxSession, minted' \in Nat, minted <= minted'
  PROVE  LinkIsOpen'
<1> SUFFICES ASSUME NEW w \in Worker, worker'[w].link = Current
             PROVE  worker'[w].sid \in 1 .. minted' /\ conn'[worker'[w].sid] = "open"
  BY DEF LinkIsOpen
<1>1. worker[w].link = Current /\ worker'[w].sid = worker[w].sid
  BY DEF LinksFade
<1>2. worker[w].sid \in 1 .. minted /\ conn[worker[w].sid] = "open"
  BY <1>1 DEF LinkIsOpen
<1>3. worker[w].sid \in Session /\ worker[w].sid \in 1 .. minted'
  BY <1>2, PoolAssumption DEF Session
<1> QED
  BY <1>1, <1>2, <1>3 DEF LinksFade

\* The links differ.
LEMMA LinkFacts ==
  /\ Current # Dead /\ Current \in Link /\ Dead \in Link
  /\ \A t \in Task : t \in Link /\ t # Current /\ t # Dead
  /\ FreeWorker \in WorkerRecord /\ FreeWorker.st = "free" /\ FreeWorker.link = Dead
  BY PoolAssumption DEF Current, Dead, Link, Task, FreeWorker, WorkerRecord, NoSession

\* What becomes of a worker whose handle is dropped.
LEMMA Stopping ==
  ASSUME PlaneShape, NEW w \in Worker
  PROVE  /\ Stopped(w) \in WorkerRecord
         /\ Stopped(w).st \in {"free", worker[w].st}
         /\ Stopped(w).st # "free" => Stopped(w).link = worker[w].link /\ Stopped(w).sid = worker[w].sid
         /\ Stopped(w).st = "free" => Stopped(w).link = Dead \/ (Stopped(w).link = worker[w].link /\ Stopped(w).sid = worker[w].sid)
<1>1. worker[w] \in WorkerRecord
  BY DEF PlaneShape
<1>2. CASE worker[w].st = "exited"
  BY <1>2, LinkFacts DEF Stopped
<1>3. CASE worker[w].st # "exited"
  <2>1. Stopped(w) = [worker[w] EXCEPT !.stop = TRUE]
    BY <1>3 DEF Stopped
  <2> QED
    BY <1>1, <2>1 DEF WorkerRecord
<1> QED
  BY <1>2, <1>3

\* A session's transport is taken out of the map and disconnected gracefully.
LEMMA Detaching ==
  ASSUME PlaneShape, NEW t \in Task, NEW s, StopAndDetach(t, s)
  PROVE  /\ PlaneShape' /\ LinksFade
         /\ \A w \in Worker : ~Cut(w)
         /\ \A r \in Session : conn'[r] = IF r = s THEN "none" ELSE conn[r]
<1> DEFINE V(w) == IF w = registry[s] THEN Stopped(w) ELSE worker[w]
           R(w) == IF V(w).sid = s /\ V(w).link = Current THEN [V(w) EXCEPT !.link = t] ELSE V(w)
<1>1. /\ worker' = [w \in Worker |-> R(w)]
      /\ registry' = [registry EXCEPT ![s] = NoWorker] /\ conn' = [conn EXCEPT ![s] = "none"]
  BY DEF StopAndDetach
<1>2. ASSUME NEW w \in Worker
      PROVE  /\ V(w) \in WorkerRecord
             /\ V(w).st \in {"free", worker[w].st}
             /\ V(w).st # "free" => V(w).link = worker[w].link
             /\ V(w).link = Current => worker[w].link = Current /\ V(w).sid = worker[w].sid
  <2>1. CASE w = registry[s]
    BY <2>1, Stopping, LinkFacts
  <2>2. CASE w # registry[s]
    BY <2>2 DEF PlaneShape
  <2> QED
    BY <2>1, <2>2
<1> HIDE DEF V
<1>3. ASSUME NEW w \in Worker
      PROVE  /\ R(w) \in WorkerRecord /\ R(w).st = V(w).st /\ R(w).sid = V(w).sid
             /\ R(w).link = IF V(w).sid = s /\ V(w).link = Current THEN t ELSE V(w).link
  <2>1. V(w) \in WorkerRecord /\ t \in Link
    BY <1>2, LinkFacts
  <2> QED
    BY <2>1 DEF WorkerRecord
<1> HIDE DEF R
<1>4. worker' \in [Worker -> WorkerRecord] /\ \A w \in Worker : worker'[w] = R(w)
  BY <1>1, <1>3
<1>5. PlaneShape'
  BY <1>1, <1>4 DEF PlaneShape
<1>6. \A r \in Session : conn'[r] = IF r = s THEN "none" ELSE conn[r]
  BY <1>1 DEF PlaneShape
<1>7. \A w \in Worker : ~Cut(w)
  BY <1>2, <1>3, <1>4, LinkFacts DEF Cut
<1>8. LinksFade
  BY <1>2, <1>3, <1>4, <1>6, LinkFacts DEF LinksFade
<1> QED
  BY <1>5, <1>6, <1>7, <1>8

\* The workers on some transports find them closed.
LEMMA Losing ==
  ASSUME PlaneShape, NEW D \in SUBSET Worker,
         worker' = [w \in Worker |-> IF w \in D THEN [worker[w] EXCEPT !.link = Dead] ELSE worker[w]]
  PROVE  /\ worker' \in [Worker -> WorkerRecord]
         /\ \A w \in Worker : w \notin D => worker'[w] = worker[w]
         /\ \A w \in D : worker'[w].link = Dead
         /\ \A w \in Worker : worker'[w].link = Current => worker[w].link = Current /\ worker'[w].sid = worker[w].sid
<1>1. \A w \in Worker : /\ [worker[w] EXCEPT !.link = Dead] \in WorkerRecord
                        /\ [worker[w] EXCEPT !.link = Dead].link = Dead
  BY LinkFacts DEF PlaneShape, WorkerRecord
<1>2. worker' \in [Worker -> WorkerRecord]
  BY <1>1 DEF PlaneShape
<1>3. /\ \A w \in Worker : w \notin D => worker'[w] = worker[w]
      /\ \A w \in D : worker'[w].link = Dead
  BY <1>1
<1> QED
  BY <1>2, <1>3, LinkFacts

\* The end of a graceful disconnect takes no transport from a busy worker.
LEMMA ClosingDetached ==
  ASSUME PlaneShape, NEW t \in Task, CloseDetached(t), UNCHANGED <<conn, registry>>
  PROVE  /\ PlaneShape' /\ LinksFade
         /\ MayClose(t) /\ "timeout" \notin Faults => \A w \in Worker : ~Cut(w)
<1> DEFINE D == {w \in Worker : worker[w].link = t}
<1>1. worker' = [w \in Worker |-> IF w \in D THEN [worker[w] EXCEPT !.link = Dead] ELSE worker[w]]
  BY DEF CloseDetached
<1>2. /\ worker' \in [Worker -> WorkerRecord]
      /\ \A w \in Worker : w \notin D => worker'[w] = worker[w]
      /\ \A w \in Worker : worker'[w].link = Current => worker[w].link = Current /\ worker'[w].sid = worker[w].sid
  BY <1>1, Losing
<1>3. PlaneShape' /\ LinksFade
  BY <1>2 DEF PlaneShape, LinksFade
<1>4. MayClose(t) /\ "timeout" \notin Faults => \A w \in Worker : ~Cut(w)
  BY <1>2 DEF MayClose, Cut
<1> QED
  BY <1>3, <1>4

\* A session gets its worker.
LEMMA Starting ==
  ASSUME PlaneShape, LinkIsOpen, NEW s, s \in 1 .. minted, minted \in 0 .. MaxSession, EnsureStarted(s),
         UNCHANGED <<conn, minted>>
  PROVE  PlaneShape' /\ LinkIsOpen' /\ \A w \in Worker : ~Cut(w)
<1>1. CASE UNCHANGED <<registry, worker>>
  BY <1>1 DEF PlaneShape, LinkIsOpen, Cut
<1>2. CASE ~(registry[s] # NoWorker \/ conn[s] = "none")
  <2> DEFINE r == [st |-> "poll", sid |-> s, busy |-> FALSE, stop |-> FALSE,
                   link |-> IF conn[s] = "open" THEN Current ELSE Dead]
  <2>1. PICK w \in Worker : /\ registry' = [registry EXCEPT ![s] = w]
                           /\ worker' = [worker EXCEPT ![w] = r]
    BY <1>2 DEF EnsureStarted
  <2>2. s \in Session
    BY PoolAssumption DEF Session
  <2>3. r \in WorkerRecord /\ r.st = "poll" /\ r.sid = s /\ (r.link = Current => conn[s] = "open")
    BY <2>2, LinkFacts DEF WorkerRecord
  <2> HIDE DEF r
  <2>4. PlaneShape' /\ worker'[w] = r /\ \A v \in Worker : v # w => worker'[v] = worker[v]
    BY <2>1, <2>3 DEF PlaneShape
  <2>5. LinkIsOpen'
    BY <2>3, <2>4 DEF LinkIsOpen
  <2>6. \A v \in Worker : ~Cut(v)
    BY <2>3, <2>4 DEF Cut
  <2> QED
    BY <2>4, <2>5, <2>6
<1> QED
  BY <1>1, <1>2 DEF EnsureStarted

\* A worker's loop goes on or ends.
LEMMA Working ==
  ASSUME PlaneShape, NEW w \in Worker, WorkerStep(w)
  PROVE  PlaneShape' /\ LinksFade /\ \A v \in Worker : ~Cut(v)
<1>1. UNCHANGED <<conn, registry>>
  BY DEF WorkerStep, WorkerTakesWork, WorkerDone, WorkerPostFails, WorkerStops, WorkerLost
<1>2. worker[w] \in WorkerRecord
  BY DEF PlaneShape
<1>3. ASSUME NEW r \in WorkerRecord, worker' = [worker EXCEPT ![w] = r],
             r = FreeWorker \/ (r.link = worker[w].link /\ r.sid = worker[w].sid)
      PROVE  PlaneShape' /\ LinksFade /\ \A v \in Worker : ~Cut(v)
  <2>1. worker' \in [Worker -> WorkerRecord] /\ worker'[w] = r /\ \A v \in Worker : v # w => worker'[v] = worker[v]
    BY <1>3 DEF PlaneShape
  <2>2. PlaneShape'
    BY <1>1, <2>1 DEF PlaneShape
  <2>3. LinksFade /\ \A v \in Worker : ~Cut(v)
    BY <1>1, <1>3, <2>1, LinkFacts DEF LinksFade, Cut
  <2> QED
    BY <2>2, <2>3
<1>4. CASE Exit(w)
  <2> DEFINE x == [worker[w] EXCEPT !.st = "exited"]
  <2>1. x \in WorkerRecord /\ x.link = worker[w].link /\ x.sid = worker[w].sid
    BY <1>2 DEF WorkerRecord
  <2>2. worker' = [worker EXCEPT ![w] = x] \/ worker' = [worker EXCEPT ![w] = FreeWorker]
    BY <1>4 DEF Exit
  <2> HIDE DEF x
  <2> QED
    BY <1>3, <2>1, <2>2, LinkFacts
<1>5. CASE \/ worker' = [worker EXCEPT ![w].st = "work", ![w].busy = TRUE]
           \/ worker' = [worker EXCEPT ![w].st = "poll", ![w].busy = FALSE]
           \/ worker' = [worker EXCEPT ![w].st = "poll"]
  <2> DEFINE x(st, b) == [worker[w] EXCEPT !.st = st, !.busy = b]
  <2>1. \A st \in {"work", "poll"}, b \in BOOLEAN :
           x(st, b) \in WorkerRecord /\ x(st, b).link = worker[w].link /\ x(st, b).sid = worker[w].sid
    BY <1>2 DEF WorkerRecord
  <2>2. \/ worker' = [worker EXCEPT ![w] = x("work", TRUE)]
        \/ worker' = [worker EXCEPT ![w] = x("poll", FALSE)]
        \/ worker' = [worker EXCEPT ![w] = x("poll", worker[w].busy)]
    BY <1>2, <1>5 DEF PlaneShape, WorkerRecord
  <2>3. worker[w].busy \in BOOLEAN
    BY <1>2 DEF WorkerRecord
  <2> HIDE DEF x
  <2> QED
    BY <1>3, <2>1, <2>2, <2>3
<1> QED
  BY <1>4, <1>5 DEF WorkerStep, WorkerTakesWork, WorkerDone, WorkerPostFails, WorkerStops, WorkerLost

-----------------------------------------------------------------------------
(* Where tasks are *)

Readying == {"sc_ready", "mg_release", "mg_closing", "mg_ready", "mg_ahead_ready"}

\* A task comes to its teardown, its re-dial or a new session only by these
\* steps, and to the end of the shutdown by none.
LEMMA TaskPcs ==
  ASSUME PoolShape, TaskShape, NEW t \in Task, TaskStep(t)
  PROVE  /\ \A u \in Task : u # t => pc'[u] = pc[u] /\ loc'[u] = loc[u]
         /\ pc'[t] # "cl_wait"
         /\ pc'[t] \in {"rc_closing", "rc_dial"} =>
               \/ ReconnectBegin(t) /\ StopAndDetach(t, loc[t].sid)
               \/ ReconnectTornDown(t)
         /\ pc'[t] \in Readying =>
               \/ DialFresh /\ loc'[t].new = Mint
               \/ pc[t] \in Readying /\ loc' = loc
<1>1. LocalStep(t)
  BY LocTask DEF TaskShape
<1>2. PICK V : loc \in [Task -> LocRecord(V)]
  BY DEF TaskShape, LocShape
<1>3. ASSUME NEW q, pc' = [pc EXCEPT ![t] = q]
      PROVE  pc'[t] = q /\ \A u \in Task : u # t => pc'[u] = pc[u] /\ loc'[u] = loc[u]
  BY <1>1, <1>3 DEF TaskShape, LocalStep
<1>4. \A u \in Task : u # t => pc'[u] = pc[u] /\ loc'[u] = loc[u]
  BY <1>3, PcTask
<1> DEFINE Calm == {"idle", "rc_sched", "rc_sleep", "rc_ready", "dr_next", "dr_release", "dr_closing", "sc_next",
                    "sc_dial", "mg_next", "mg_dial", "mg_ahead", "rt_next", "rt_check", "rt_release", "rt_closing"}
<1>5. CASE pc'[t] \in Calm
  BY <1>4, <1>5 DEF Readying
<1>6. CASE Finish(t)
  BY <1>3, <1>5, <1>6 DEF Finish
<1>7. CASE UNCHANGED pc /\ pc[t] \in Calm
  BY <1>5, <1>7
<1>8. CASE ReconnectStep(t)
  <2>1. CASE ReconnectBegin(t)
    <3>1. CASE StopAndDetach(t, loc[t].sid) /\ pc' = [pc EXCEPT ![t] = "rc_closing"]
      <4>1. pc'[t] = "rc_closing"
        BY <1>3, <3>1
      <4>2. pc'[t] # "cl_wait" /\ pc'[t] \notin Readying
        BY <4>1 DEF Readying
      <4> QED
        BY <1>4, <2>1, <3>1, <4>2
    <3> QED
      BY <1>6, <2>1, <3>1 DEF ReconnectBegin
  <2>2. CASE ReconnectTornDown(t)
    <3>1. pc' = [pc EXCEPT ![t] = "rc_dial"]
      BY <2>2 DEF ReconnectTornDown, Goto
    <3>2. pc'[t] = "rc_dial"
      BY <1>3, <3>1
    <3>3. pc'[t] # "cl_wait" /\ pc'[t] \notin Readying
      BY <3>2 DEF Readying
    <3> QED
      BY <1>4, <2>2, <3>3
  <2>3. CASE ReconnectClaim(t)
    BY <1>3, <1>5, <1>6, <2>3 DEF ReconnectClaim
  <2>4. CASE ReconnectDialOk(t) \/ ReconnectDialFails(t) \/ ReconnectReady(t)
    BY <1>3, <1>5, <1>6, <2>4 DEF ReconnectDialOk, ReconnectDialFails, ReconnectReady, Goto
  <2> QED
    BY <1>8, <2>1, <2>2, <2>3, <2>4 DEF ReconnectStep
<1>9. CASE DrainStep(t)
  <2>1. CASE DrainNext(t)
    BY <1>3, <1>5, <1>6, <2>1 DEF DrainNext
  <2> QED
    BY <1>3, <1>5, <1>9, <2>1 DEF DrainStep, DrainRelease, DrainRemove, Goto
<1>10. CASE RetireStep(t)
  <2>1. CASE RetireNext(t)
    BY <1>3, <1>5, <1>6, <1>7, <2>1 DEF RetireNext
  <2>2. CASE RetireCheck(t)
    BY <1>3, <1>5, <2>2 DEF RetireCheck, Goto
  <2> QED
    BY <1>3, <1>5, <1>10, <2>1, <2>2 DEF RetireStep, RetireRelease, RetireRemove, Goto
<1>11. CASE DialFresh /\ loc' = [loc EXCEPT ![t].new = Mint] /\ \E q \in Readying : pc' = [pc EXCEPT ![t] = q]
  <2>1. loc'[t].new = Mint
    BY <1>2, <1>11 DEF LocRecord
  <2>2. pc'[t] \in Readying
    BY <1>3, <1>11
  <2> QED
    BY <1>4, <1>11, <2>1, <2>2 DEF Readying
<1>12. CASE loc' = loc /\ pc[t] \in Readying /\ \E q \in Readying : pc' = [pc EXCEPT ![t] = q]
  <2>1. pc'[t] \in Readying
    BY <1>3, <1>12
  <2> QED
    BY <1>4, <1>12, <2>1 DEF Readying
<1>13. CASE ScaleStep(t)
  <2>1. CASE ScaleNext(t)
    BY <1>3, <1>5, <1>6, <2>1 DEF ScaleNext
  <2>2. CASE ScaleDialOk(t)
    BY <1>11, <2>2 DEF ScaleDialOk, Goto, Readying
  <2> QED
    BY <1>3, <1>5, <1>13, <2>1, <2>2 DEF ScaleStep, ScaleDialFails, ScaleReady, Goto
<1>14. CASE MigrateStep(t)
  <2>1. CASE MigrateNext(t)
    BY <1>3, <1>5, <1>6, <1>7, <2>1 DEF MigrateNext
  <2>2. CASE MigrateDialOk(t) \/ DialAheadOk(t)
    BY <1>11, <2>2 DEF MigrateDialOk, DialAheadOk, Goto, Readying
  <2>3. CASE MigrateRelease(t) \/ MigrateSwap(t)
    BY <1>12, <2>3 DEF MigrateRelease, Release, MigrateSwap, Goto, Readying
  <2>4. CASE DialAheadFails(t)
    BY <1>3, <1>5, <1>6, <2>4 DEF DialAheadFails
  <2>5. CASE MigrateDialFails(t) \/ MigrateReady(t) \/ DialAheadReady(t) \/ DialAheadDone(t)
    BY <1>3, <1>5, <1>6, <2>5 DEF MigrateDialFails, MigrateReady, DialAheadReady, DialAheadDone, Goto
  <2> QED
    BY <1>14, <2>1, <2>2, <2>3, <2>4, <2>5 DEF MigrateStep
<1>15. CASE CloseEnd(t)
  BY <1>6, <1>15 DEF CloseEnd
<1> QED
  BY <1>8, <1>9, <1>10, <1>13, <1>14, <1>15 DEF TaskStep

\* A task's step keeps workers on open transports, and takes none from a
\* request in flight.
LEMMA TaskPlane ==
  ASSUME IInv, NEW t \in Task, TaskStep(t), PoolShape'
  PROVE  /\ PlaneShape' /\ LinkIsOpen' /\ minted <= minted'
         /\ "timeout" \notin Faults => closed' = TRUE \/ \A w \in Worker : ~Cut(w)
<1>0. /\ PoolShape /\ PlaneShape /\ TaskShape /\ Claims /\ LinkIsOpen /\ RedialsUnmapped /\ NewMinted /\ CloseWaits
      /\ minted \in 0 .. MaxSession /\ minted \in Nat /\ minted' \in Nat
  BY PoolAssumption DEF IInv, Links, PoolShape
<1> DEFINE Goal == /\ PlaneShape' /\ LinkIsOpen' /\ minted <= minted'
                   /\ "timeout" \notin Faults => closed' = TRUE \/ \A w \in Worker : ~Cut(w)
<1>1. CASE UNCHANGED <<conn, registry, worker, minted>>
  BY <1>0, <1>1 DEF PlaneShape, LinkIsOpen, Cut
<1>2. CASE DialFresh /\ UNCHANGED <<registry, worker>>
  <2>1. /\ Mint \in Session /\ Mint \notin 1 .. minted /\ minted <= minted' /\ conn' = [conn EXCEPT ![Mint] = "open"]
    BY <1>0, <1>2, Minting DEF DialFresh
  <2>2. PlaneShape' /\ LinksFade
    BY <1>0, <1>2, <2>1 DEF PlaneShape, LinksFade
  <2>3. \A w \in Worker : ~Cut(w)
    BY <1>2 DEF Cut
  <2> QED
    BY <1>0, <2>1, <2>2, <2>3, Fading
<1>3. ASSUME NEW s, StopAndDetach(t, s), UNCHANGED minted PROVE Goal
  BY <1>0, <1>3, Detaching, Fading
<1>4. CASE CloseDetached(t) /\ MayClose(t) /\ UNCHANGED <<conn, registry, minted>>
  BY <1>0, <1>4, ClosingDetached, Fading
<1>5. ASSUME NEW s \in 1 .. minted, EnsureStarted(s), UNCHANGED <<conn, minted>> PROVE Goal
  BY <1>0, <1>5, Starting
<1>6. CASE ReconnectDialOk(t)
  <2> DEFINE s == loc[t].sid
             D == {w \in Worker : worker[w].sid = s /\ worker[w].link = Current}
  <2>1. /\ pc[t] = "rc_dial" /\ UNCHANGED <<registry, minted>> /\ conn' = [conn EXCEPT ![s] = "open"]
        /\ worker' = [w \in Worker |-> IF w \in D THEN [worker[w] EXCEPT !.link = Dead] ELSE worker[w]]
    BY <1>6 DEF ReconnectDialOk, Goto
  <2>2. conn[s] = "none"
    BY <1>0, <2>1 DEF RedialsUnmapped
  <2>3. D = {}
    BY <1>0, <2>2 DEF LinkIsOpen
  <2>4. worker' = worker
    BY <1>0, <2>1, <2>3 DEF PlaneShape
  <2>5. PlaneShape' /\ LinksFade
    BY <1>0, <2>1, <2>4 DEF PlaneShape, LinksFade
  <2>6. \A w \in Worker : ~Cut(w)
    BY <2>4 DEF Cut
  <2> QED
    BY <1>0, <2>1, <2>5, <2>6, Fading
<1>7. CASE CloseEnd(t)
  <2> DEFINE V(w) == IF \E s \in Session : registry[s] = w THEN Stopped(w) ELSE worker[w]
             R(w) == IF V(w).link \in {Current, t} THEN [V(w) EXCEPT !.link = Dead] ELSE V(w)
  <2>1. /\ pc[t] = "cl_wait" /\ UNCHANGED <<closed, minted>>
        /\ conn' = [s \in Session |-> "none"] /\ registry' = [s \in Session |-> NoWorker]
        /\ worker' = [w \in Worker |-> R(w)]
    BY <1>7 DEF CloseEnd
  <2>2. closed' = TRUE
    BY <1>0, <2>1 DEF CloseWaits
  <2>3. \A w \in Worker : V(w) \in WorkerRecord
    BY <1>0, Stopping DEF PlaneShape
  <2> HIDE DEF V
  <2>4. \A w \in Worker : R(w) \in WorkerRecord /\ R(w).link # Current
    BY <2>3, LinkFacts DEF WorkerRecord
  <2> HIDE DEF R
  <2>5. worker' \in [Worker -> WorkerRecord] /\ \A w \in Worker : worker'[w].link # Current
    BY <2>1, <2>4
  <2>6. PlaneShape' /\ LinkIsOpen'
    BY <2>1, <2>5 DEF PlaneShape, LinkIsOpen
  <2> QED
    BY <1>0, <2>1, <2>2, <2>6
<1>8. pc[t] \in Readying => loc[t].new \in 1 .. minted
  BY <1>0 DEF NewMinted, Readying
<1>9. pc[t] \in Owning => loc[t].sid \in 1 .. minted
  BY <1>0 DEF Claims, Claimed
<1> HIDE DEF Goal
<1>10. CASE ReconnectStep(t)
  <2>1. CASE ReconnectClaim(t) \/ ReconnectDialFails(t)
    BY <1>1, <2>1 DEF ReconnectClaim, ReconnectDialFails, planeVars, Goal
  <2>2. CASE ReconnectBegin(t)
    BY <1>1, <1>3, <2>2 DEF ReconnectBegin, Goal
  <2>3. CASE ReconnectTornDown(t)
    BY <1>4, <2>3 DEF ReconnectTornDown, Goal
  <2>4. CASE ReconnectReady(t)
    BY <1>5, <1>9, <2>4 DEF ReconnectReady, Goal, Owning
  <2> QED
    BY <1>6, <1>10, <2>1, <2>2, <2>3, <2>4 DEF ReconnectStep, Goal
<1>11. CASE DrainStep(t)
  <2>1. CASE DrainNext(t)
    BY <1>1, <2>1 DEF DrainNext, planeVars, Goal
  <2>2. CASE DrainRelease(t)
    BY <1>3, <2>2 DEF DrainRelease, Release, Goal
  <2>3. CASE DrainRemove(t)
    BY <1>4, <2>3 DEF DrainRemove, Goal
  <2> QED
    BY <1>11, <2>1, <2>2, <2>3 DEF DrainStep, Goal
<1>12. CASE ScaleStep(t)
  <2>1. CASE ScaleNext(t) \/ ScaleDialFails(t)
    BY <1>1, <2>1 DEF ScaleNext, ScaleDialFails, planeVars, Goal
  <2>2. CASE ScaleDialOk(t)
    BY <1>2, <2>2 DEF ScaleDialOk, Goal
  <2>3. CASE ScaleReady(t)
    BY <1>5, <1>8, <2>3 DEF ScaleReady, Goto, Readying, Goal
  <2> QED
    BY <1>12, <2>1, <2>2, <2>3 DEF ScaleStep, Goal
<1>13. CASE MigrateStep(t)
  <2>1. CASE MigrateNext(t) \/ MigrateDialFails(t) \/ DialAheadFails(t) \/ DialAheadDone(t)
    BY <1>1, <2>1 DEF MigrateNext, MigrateDialFails, DialAheadFails, DialAheadDone, planeVars, Goal
  <2>2. CASE MigrateDialOk(t) \/ DialAheadOk(t)
    BY <1>2, <2>2 DEF MigrateDialOk, DialAheadOk, Goal
  <2>3. CASE MigrateRelease(t)
    BY <1>3, <2>3 DEF MigrateRelease, Release, Goal
  <2>4. CASE MigrateSwap(t)
    BY <1>4, <2>4 DEF MigrateSwap, Goal
  <2>5. CASE MigrateReady(t) \/ DialAheadReady(t)
    BY <1>5, <1>8, <2>5 DEF MigrateReady, DialAheadReady, Goto, Readying, Goal
  <2> QED
    BY <1>13, <2>1, <2>2, <2>3, <2>4, <2>5 DEF MigrateStep, Goal
<1>14. CASE RetireStep(t)
  <2>1. CASE RetireNext(t) \/ RetireCheck(t)
    BY <1>1, <2>1 DEF RetireNext, RetireCheck, planeVars, Goal
  <2>2. CASE RetireRelease(t)
    BY <1>3, <2>2 DEF RetireRelease, Release, Goal
  <2>3. CASE RetireRemove(t)
    BY <1>4, <2>3 DEF RetireRemove, Goal
  <2> QED
    BY <1>14, <2>1, <2>2, <2>3 DEF RetireStep, Goal
<1> QED
  BY <1>7, <1>10, <1>11, <1>12, <1>13, <1>14 DEF TaskStep, Goal

\* So does every other step, but for the shutdown and the network.
LEMMA OtherPlane ==
  ASSUME IInv, [Next]_vars, PoolShape', \A t \in Task : ~TaskStep(t)
  PROVE  /\ PlaneShape' /\ LinkIsOpen' /\ minted' = minted
         /\ closed' = TRUE \/ UNCHANGED pc \/ \A w \in Worker : ~Cut(w)
<1>0. /\ PoolShape /\ PlaneShape /\ LinkIsOpen
      /\ minted \in 0 .. MaxSession /\ minted \in Nat /\ minted' \in Nat
  BY PoolAssumption DEF IInv, Links, PoolShape
<1> DEFINE Goal == /\ PlaneShape' /\ LinkIsOpen' /\ minted' = minted
                   /\ closed' = TRUE \/ UNCHANGED pc \/ \A w \in Worker : ~Cut(w)
<1>1. CASE UNCHANGED <<conn, registry, worker, minted>>
  BY <1>0, <1>1 DEF PlaneShape, LinkIsOpen, Cut
<1>2. ASSUME NEW w \in Worker, WorkerStep(w) PROVE Goal
  <2>1. UNCHANGED minted
    BY <1>2 DEF WorkerStep, WorkerTakesWork, WorkerDone, WorkerPostFails, WorkerStops, WorkerLost
  <2> QED
    BY <1>0, <1>2, <2>1, Working, Fading
<1>3. ASSUME NEW s \in Session, TransportLost(s) PROVE Goal
  <2> DEFINE D == {w \in Worker : worker[w].sid = s /\ worker[w].link = Current}
  <2>1. /\ UNCHANGED <<registry, minted, pc>> /\ conn' = [conn EXCEPT ![s] = "lost"]
        /\ worker' = [w \in Worker |-> IF w \in D THEN [worker[w] EXCEPT !.link = Dead] ELSE worker[w]]
    BY <1>3 DEF TransportLost
  <2>2. /\ worker' \in [Worker -> WorkerRecord]
        /\ \A w \in Worker : w \notin D => worker'[w] = worker[w]
        /\ \A w \in D : worker'[w].link = Dead
        /\ \A w \in Worker : worker'[w].link = Current => worker[w].link = Current /\ worker'[w].sid = worker[w].sid
    BY <1>0, <2>1, Losing
  <2>3. PlaneShape' /\ LinksFade
    BY <1>0, <2>1, <2>2, LinkFacts DEF PlaneShape, LinksFade
  <2> QED
    BY <1>0, <2>1, <2>3, Fading
<1>4. ASSUME NEW t \in Task, DetachedLost(t) PROVE Goal
  <2>1. CloseDetached(t) /\ UNCHANGED <<conn, registry, minted, pc>>
    BY <1>4 DEF DetachedLost
  <2> QED
    BY <1>0, <2>1, ClosingDetached, Fading
<1>5. ASSUME NEW t \in Task, CloseStart(t) PROVE Goal
  <2> DEFINE V(w) == IF \E s \in SlotIds : registry[s] = w THEN Stopped(w) ELSE worker[w]
             R(w) == IF V(w).sid \in SlotIds /\ V(w).link = Current THEN [V(w) EXCEPT !.link = t] ELSE V(w)
  <2>1. /\ closed' = TRUE /\ UNCHANGED minted
        /\ conn' = [s \in Session |-> IF HasSlot(s) THEN "none" ELSE conn[s]]
        /\ registry' = [s \in Session |-> IF HasSlot(s) THEN NoWorker ELSE registry[s]]
        /\ worker' = [w \in Worker |-> R(w)]
    BY <1>5 DEF CloseStart
  <2>2. \A w \in Worker : /\ V(w) \in WorkerRecord
                          /\ V(w).link = Current => worker[w].link = Current /\ V(w).sid = worker[w].sid
    BY <1>0, Stopping, LinkFacts DEF PlaneShape
  <2> HIDE DEF V
  <2>3. \A w \in Worker : /\ R(w) \in WorkerRecord
                          /\ R(w).link = Current => V(w).link = Current /\ R(w).sid = V(w).sid /\ V(w).sid \notin SlotIds
    BY <2>2, LinkFacts DEF WorkerRecord
  <2> HIDE DEF R
  <2>4. worker' \in [Worker -> WorkerRecord] /\ \A w \in Worker : worker'[w] = R(w)
    BY <2>1, <2>3
  <2>5. PlaneShape'
    BY <1>0, <2>1, <2>4 DEF PlaneShape
  <2>6. LinksFade
    BY <2>1, <2>2, <2>3, <2>4 DEF LinksFade, HasSlot
  <2> QED
    BY <1>0, <2>1, <2>5, <2>6, Fading
<1>6. ASSUME NEW t \in Task, Command(t) PROVE Goal
  BY <1>1, <1>5, <1>6 DEF Command, DrainStart, ScaleStart, MigrateStart, planeVars
<1>7. ASSUME NEW s \in Session, Watch(s) PROVE Goal
  BY <1>1, <1>7 DEF Watch, planeVars
<1>8. CASE UNCHANGED vars
  BY <1>1, <1>8 DEF vars
<1> HIDE DEF Goal
<1>9. Goal
  BY <1>2, <1>3, <1>4, <1>6, <1>7, <1>8 DEF Next, Goal
<1> QED
  BY <1>9 DEF Goal

-----------------------------------------------------------------------------
(* The sessions being re-dialled *)

\* A session enters the connector's map only by a dial.
Unmapped == \A s \in Session : conn[s] = "none" => conn'[s] = "none"

\* Of a task's steps only the two kinds of dial map a session.
LEMMA TaskMaps ==
  ASSUME PlaneShape, NEW t \in Task, TaskStep(t)
  PROVE  Unmapped \/ DialFresh \/ ReconnectDialOk(t)
<1>1. CASE UNCHANGED conn
  BY <1>1 DEF Unmapped
<1>2. ASSUME NEW s, StopAndDetach(t, s) PROVE Unmapped
  <2>1. \A r \in Session : conn'[r] = IF r = s THEN "none" ELSE conn[r]
    BY <1>2, Detaching
  <2> QED
    BY <2>1 DEF Unmapped
<1>3. CASE ReconnectStep(t)
  BY <1>1, <1>2, <1>3 DEF ReconnectStep, ReconnectClaim, ReconnectBegin, ReconnectTornDown,
        ReconnectDialFails, ReconnectReady, planeVars
<1>4. CASE DrainStep(t)
  BY <1>1, <1>2, <1>4 DEF DrainStep, DrainNext, DrainRelease, DrainRemove, Release, planeVars
<1>5. CASE ScaleStep(t)
  BY <1>1, <1>5 DEF ScaleStep, ScaleNext, ScaleDialOk, ScaleDialFails, ScaleReady, planeVars
<1>6. CASE MigrateStep(t)
  <2>1. CASE MigrateNext(t) \/ MigrateDialFails(t) \/ DialAheadFails(t) \/ DialAheadDone(t)
    BY <1>1, <2>1 DEF MigrateNext, MigrateDialFails, DialAheadFails, DialAheadDone, planeVars
  <2>2. CASE MigrateSwap(t) \/ MigrateReady(t) \/ DialAheadReady(t)
    BY <1>1, <2>2 DEF MigrateSwap, MigrateReady, DialAheadReady
  <2>3. CASE MigrateRelease(t)
    BY <1>2, <2>3 DEF MigrateRelease, Release
  <2>4. CASE MigrateDialOk(t) \/ DialAheadOk(t)
    BY <2>4 DEF MigrateDialOk, DialAheadOk
  <2> QED
    BY <1>6, <2>1, <2>2, <2>3, <2>4 DEF MigrateStep
<1>7. CASE RetireStep(t)
  BY <1>1, <1>2, <1>7 DEF RetireStep, RetireNext, RetireCheck, RetireRelease, RetireRemove, Release, planeVars
<1>8. CASE CloseEnd(t)
  BY <1>8 DEF CloseEnd, Unmapped
<1> QED
  BY <1>3, <1>4, <1>5, <1>6, <1>7, <1>8 DEF TaskStep

\* The other steps start idle tasks at most, and map no session.
LEMMA OtherTasks ==
  ASSUME PlaneShape, TaskShape, [Next]_vars, \A t \in Task : ~TaskStep(t)
  PROVE  IdleStart /\ Unmapped /\ (closed = TRUE => closed' = TRUE)
<1> DEFINE Goal == IdleStart /\ Unmapped /\ (closed = TRUE => closed' = TRUE)
<1>1. CASE IdleStart /\ UNCHANGED <<conn, closed>>
  BY <1>1 DEF Unmapped
<1>2. ASSUME NEW t \in Task, Command(t) PROVE Goal
  <2>1. IdleStart
    BY <1>2, Commanded
  <2>2. CASE CloseStart(t)
    BY <2>1, <2>2 DEF CloseStart, Unmapped
  <2>3. CASE ~CloseStart(t)
    BY <1>1, <1>2, <2>1, <2>3 DEF Command, DrainStart, ScaleStart, MigrateStart, planeVars, poolVars
  <2> QED
    BY <2>2, <2>3
<1>3. ASSUME NEW w \in Worker, WorkerStep(w) PROVE Goal
  <2>1. UNCHANGED <<conn, closed>>
    BY <1>3 DEF WorkerStep, WorkerTakesWork, WorkerDone, WorkerPostFails, WorkerStops, WorkerLost, poolVars
  <2>2. UNCHANGED <<pc, loc>> \/ ScheduleReconnect(worker[w].sid)
    BY <1>3 DEF WorkerStep, WorkerTakesWork, WorkerDone, WorkerPostFails, WorkerStops, WorkerLost
  <2> QED
    BY <1>1, <2>1, <2>2, Scheduled, Unstarted
<1>4. ASSUME NEW s \in Session, Watch(s) PROVE Goal
  <2>1. ScheduleReconnect(s) /\ UNCHANGED <<conn, closed>>
    BY <1>4 DEF Watch, planeVars, poolVars
  <2> QED
    BY <1>1, <2>1, Scheduled
<1>5. ASSUME NEW s \in Session, TransportLost(s) PROVE Goal
  <2>1. /\ UNCHANGED <<pc, loc>> /\ UNCHANGED closed /\ conn[s] = "open"
        /\ conn' = [conn EXCEPT ![s] = "lost"]
    BY <1>5 DEF TransportLost, poolVars
  <2>2. Unmapped
    BY <2>1 DEF Unmapped, PlaneShape
  <2> QED
    BY <2>1, <2>2, Unstarted
<1>6. ASSUME NEW t \in Task, DetachedLost(t) PROVE Goal
  <2>1. UNCHANGED <<pc, loc>> /\ UNCHANGED <<conn, closed>>
    BY <1>6 DEF DetachedLost, poolVars
  <2> QED
    BY <1>1, <2>1, Unstarted
<1>7. CASE UNCHANGED vars
  <2>1. UNCHANGED <<pc, loc>> /\ UNCHANGED <<conn, closed>>
    BY <1>7 DEF vars
  <2> QED
    BY <1>1, <2>1, Unstarted
<1> QED
  BY <1>2, <1>3, <1>4, <1>5, <1>6, <1>7 DEF Next

\* A task's step keeps the sessions being re-dialled out of the map.
LEMMA TaskLinks ==
  ASSUME IInv, NEW t \in Task, TaskStep(t), PoolShape', minted <= minted'
  PROVE  RedialsUnmapped' /\ NewMinted' /\ CloseWaits'
<1>0. /\ PoolShape /\ PlaneShape /\ TaskShape /\ Claims /\ RedialsUnmapped /\ NewMinted /\ CloseWaits
      /\ minted \in Nat /\ minted' \in Nat
  BY PoolAssumption DEF IInv, Links, PoolShape
<1>1. /\ \A u \in Task : u # t => pc'[u] = pc[u] /\ loc'[u] = loc[u]
      /\ pc'[t] # "cl_wait"
      /\ pc'[t] \in {"rc_closing", "rc_dial"} =>
            \/ ReconnectBegin(t) /\ StopAndDetach(t, loc[t].sid)
            \/ ReconnectTornDown(t)
      /\ pc'[t] \in Readying =>
            \/ DialFresh /\ loc'[t].new = Mint
            \/ pc[t] \in Readying /\ loc' = loc
  BY <1>0, TaskPcs
<1>2. Unmapped \/ DialFresh \/ ReconnectDialOk(t)
  BY <1>0, TaskMaps
<1>3. ASSUME NEW u \in Task, pc'[u] \in {"rc_closing", "rc_dial"}
      PROVE  conn'[loc'[u].sid] = "none"
  <2>1. CASE u # t
    <3> DEFINE s == loc[u].sid
    <3>1. pc[u] \in {"rc_closing", "rc_dial"} /\ loc'[u] = loc[u]
      BY <1>1, <1>3, <2>1
    <3>2. /\ s \in 1 .. minted /\ s \in Session
          /\ conn[s] = "none" /\ Owner(u, s)
      BY <1>0, <3>1, PoolAssumption DEF RedialsUnmapped, Claims, Claimed, Owner, Owning, PoolShape, Session
    <3>3. CASE Unmapped
      BY <3>1, <3>2, <3>3 DEF Unmapped
    <3>4. CASE DialFresh
      <4>1. Mint # s /\ conn' = [conn EXCEPT ![Mint] = "open"]
        BY <1>0, <3>2, <3>4 DEF DialFresh, Mint
      <4> QED
        BY <1>0, <3>1, <3>2, <4>1 DEF PlaneShape
    <3>5. CASE ReconnectDialOk(t)
      <4>1. pc[t] = "rc_dial" /\ conn' = [conn EXCEPT ![loc[t].sid] = "open"]
        BY <3>5 DEF ReconnectDialOk, Goto
      <4>2. loc[t].sid # s
        BY <1>0, <2>1, <3>2, <4>1 DEF Claims, OneReconnectPerSession, Owner, Owning
      <4> QED
        BY <1>0, <3>1, <3>2, <4>1, <4>2 DEF PlaneShape
    <3> QED
      BY <1>2, <3>3, <3>4, <3>5
  <2>2. CASE u = t /\ ReconnectBegin(t) /\ StopAndDetach(t, loc[t].sid)
    <3> DEFINE s == loc[t].sid
    <3>1. pc[t] = "rc_sleep"
      BY <2>2 DEF ReconnectBegin
    <3>2. s \in Session
      BY <1>0, <3>1, PoolAssumption DEF Claims, Claimed, Owning, PoolShape, Session
    <3>3. conn'[s] = "none"
      BY <1>0, <2>2, <3>2, Detaching
    <3>4. Finish(t) \/ loc' = [loc EXCEPT ![t].gw = url[s]]
      BY <2>2 DEF ReconnectBegin
    <3>5. ~Finish(t)
      BY <1>0, <1>3, <2>2 DEF Finish, TaskShape
    <3>6. loc'[t].sid = s
      BY <1>0, <3>4, <3>5, LocAssign DEF TaskShape
    <3> QED
      BY <2>2, <3>3, <3>6
  <2>3. CASE u = t /\ ReconnectTornDown(t)
    BY <1>0, <2>3 DEF ReconnectTornDown, Goto, RedialsUnmapped
  <2> QED
    BY <1>1, <1>3, <2>1, <2>2, <2>3
<1>4. ASSUME NEW u \in Task, pc'[u] \in Readying PROVE loc'[u].new \in 1 .. minted'
  <2>1. pc[u] \in Readying => loc[u].new \in 1 .. minted
    BY <1>0 DEF NewMinted, Readying
  <2>2. CASE u # t
    BY <1>0, <1>1, <1>4, <2>1, <2>2
  <2>3. CASE u = t /\ DialFresh /\ loc'[t].new = Mint
    BY <1>0, <2>3 DEF DialFresh, Mint
  <2>4. CASE u = t /\ pc[t] \in Readying /\ loc' = loc
    BY <1>0, <2>1, <2>4
  <2> QED
    BY <1>1, <1>4, <2>2, <2>3, <2>4
<1>5. closed = TRUE => closed' = TRUE
  BY DEF TaskStep, ReconnectStep, DrainStep, ScaleStep, MigrateStep, RetireStep, CloseEnd,
     ReconnectClaim, ReconnectBegin, ReconnectTornDown, ReconnectDialOk, ReconnectDialFails, ReconnectReady,
     DrainNext, DrainRelease, DrainRemove, ScaleNext, ScaleDialOk, ScaleDialFails, ScaleReady,
     MigrateNext, MigrateDialOk, MigrateDialFails, MigrateRelease, MigrateSwap, MigrateReady,
     DialAheadOk, DialAheadReady, DialAheadFails, DialAheadDone,
     RetireNext, RetireCheck, RetireRelease, RetireRemove, Release, poolVars
<1>6. CloseWaits'
  BY <1>0, <1>1, <1>5 DEF CloseWaits
<1> QED
  BY <1>3, <1>4, <1>6 DEF RedialsUnmapped, NewMinted, Readying

-----------------------------------------------------------------------------
(* Theorems *)

\* The booted pool satisfies the inductive invariant.
LEMMA InitInv ==
  ASSUME Init PROVE IInv
<1>1. Boot \in Nat /\ Boot <= MaxSession /\ MaxSession \in Nat
  BY PoolAssumption
<1>2. PoolShape
  <2>1. \A i \in 1 .. Boot : i \in Session
    BY <1>1 DEF Session
  <2>2. slots \in Seq(Session)
    BY <1>1, <2>1 DEF Init
  <2>3. Boot \in 0 .. MaxSession
    BY <1>1
  <2> QED
    BY <2>2, <2>3 DEF Init, PoolShape
<1>3. PlaneShape
  <2>1. /\ FreeWorker \in WorkerRecord
        /\ \A w \in Worker : w <= Boot => [st |-> "poll", sid |-> w, busy |-> FALSE, stop |-> FALSE,
                                           link |-> Current] \in WorkerRecord
    BY <1>1, LinkFacts, PoolAssumption DEF WorkerRecord, Worker, Session
  <2>2. worker \in [Worker -> WorkerRecord]
    BY <2>1 DEF Init
  <2>3. registry \in [Session -> Worker \cup {NoWorker}]
    BY <1>1, PoolAssumption DEF Init, Session, Worker
  <2> QED
    BY <2>2, <2>3 DEF Init, PlaneShape
<1>4. TaskShape
  <2> DEFINE V == {0, Home, <<>>, FALSE}
  <2>1. FreeLoc \in LocRecord(V)
    BY DEF FreeLoc, LocRecord, NoSession
  <2>2. loc \in [Task -> LocRecord(V)]
    BY <2>1 DEF Init
  <2> QED
    BY <2>2 DEF Init, TaskShape, LocShape, PC
<1>5. \A t \in Task : pc[t] = "idle"
  BY DEF Init
<1>6. Claims
  <2>1. SlotIds = 1 .. Boot /\ SlotsOnce
    BY <1>1 DEF Init, SlotIds, SlotsOnce
  <2>2. SlotsMinted /\ \A s \in SlotIds : ~pending[s]
    BY <1>1, <2>1 DEF Init, SlotsMinted, Session
  <2> QED
    BY <1>5, <2>1, <2>2 DEF Claims, Claimed, ReplacementUnused, Swapping, OneReconnectPerSession,
       PendingHasOwner, Owner, Owning
<1>7. Links
  <2>1. LinkIsOpen
    <3> SUFFICES ASSUME NEW w \in Worker, worker[w].link = Current
                 PROVE  worker[w].sid \in 1 .. minted /\ conn[worker[w].sid] = "open"
      BY DEF LinkIsOpen
    <3>1. w <= Boot /\ worker[w].sid = w
      BY LinkFacts DEF Init, FreeWorker
    <3>2. w \in 1 .. Boot /\ w \in Session
      BY <1>1, <3>1, PoolAssumption DEF Worker, Session
    <3> QED
      BY <3>1, <3>2 DEF Init
  <2> QED
    BY <1>5, <2>1 DEF Links, RedialsUnmapped, NewMinted, CloseWaits
<1> QED
  BY <1>2, <1>3, <1>4, <1>6, <1>7 DEF IInv

\* Every step preserves the inductive invariant.
LEMMA StepInv ==
  ASSUME IInv, [Next]_vars PROVE IInv'
<1>1. PoolShape /\ PlaneShape /\ TaskShape /\ Claims
  BY DEF IInv
<1>2. PoolShape' /\ Claims' /\ TaskShape'
  BY <1>1, StepClaims, StepTasks
<1>3. ASSUME NEW t \in Task, TaskStep(t) PROVE PlaneShape' /\ Links'
  BY <1>2, <1>3, TaskPlane, TaskLinks DEF Links
<1>4. CASE \A t \in Task : ~TaskStep(t)
  <2>1. PlaneShape' /\ LinkIsOpen' /\ minted' = minted
    BY <1>2, <1>4, OtherPlane
  <2>2. IdleStart /\ Unmapped /\ (closed = TRUE => closed' = TRUE)
    BY <1>1, <1>4, OtherTasks
  <2>3. RedialsUnmapped /\ NewMinted /\ CloseWaits
    BY DEF IInv, Links
  <2>4. RedialsUnmapped'
    <3> SUFFICES ASSUME NEW u \in Task, pc'[u] \in {"rc_closing", "rc_dial"}
                 PROVE  conn'[loc'[u].sid] = "none"
      BY DEF RedialsUnmapped
    <3>1. pc'[u] = pc[u] /\ loc'[u] = loc[u]
      BY <2>2 DEF IdleStart
    <3>2. conn[loc[u].sid] = "none" /\ loc[u].sid \in Session
      BY <1>1, <2>3, <3>1, PoolAssumption DEF RedialsUnmapped, Claims, Claimed, Owning, PoolShape, Session
    <3> QED
      BY <2>2, <3>1, <3>2 DEF Unmapped
  <2>5. NewMinted'
    BY <2>1, <2>2, <2>3 DEF NewMinted, IdleStart
  <2>6. CloseWaits'
    BY <2>2, <2>3 DEF CloseWaits, IdleStart
  <2> QED
    BY <1>2, <2>1, <2>4, <2>5, <2>6 DEF Links, IInv
<1> QED
  BY <1>2, <1>3, <1>4 DEF IInv

\* The claims, the links and the shapes hold in every reachable state of the
\* pool, whatever commands and faults come.
THEOREM Invariance == Spec => []IInv
<1>1. Init => IInv
  BY InitInv
<1>2. IInv /\ [Next]_vars => IInv'
  BY StepInv
<1> QED
  BY <1>1, <1>2, PTL DEF Spec

\* Never two tasks re-dial one session (the compare_exchange on
\* reconnect_pending in schedule_reconnect), for every pool, although drains,
\* retirements, migrations and the shutdown clear the flag meanwhile.
THEOREM OneReconnect == Spec => []OneReconnectPerSession
<1>1. IInv => OneReconnectPerSession
  BY DEF IInv, Claims
<1> QED
  BY <1>1, Invariance, PTL

\* A set reconnect_pending always has a task that will clear it, so no slot is
\* given up for good (the early returns of schedule_reconnect's task).
THEOREM ClaimsHaveOwners == Spec => []PendingHasOwner
<1>1. IInv => PendingHasOwner
  BY DEF IInv, Claims
<1> QED
  BY <1>1, Invariance, PTL

\* With no disconnect timing out, no drain, retirement, migration or reconnect
\* takes the transport from a worker that holds a request: only the network
\* and the shutdown do (graceful_disconnect_attested_session).
THEOREM NoWorkIsCut ==
  ASSUME "timeout" \notin Faults PROVE Spec => NoWorkCut
<1>1. ASSUME IInv, [Next]_vars
      PROVE  [\A w \in Worker :
                 /\ worker[w].st = "work" /\ worker[w].link # Dead
                 /\ worker[w]'.st = "work" /\ worker[w]'.link = Dead
                 => closed' \/ UNCHANGED pc]_vars
  <2>1. PoolShape'
    BY <1>1, StepClaims DEF IInv
  <2>2. \/ closed' = TRUE \/ UNCHANGED pc
        \/ \A w \in Worker : ~Cut(w)
    BY <1>1, <2>1, TaskPlane, OtherPlane
  <2> QED
    BY <2>2 DEF Cut
<1> QED
  BY <1>1, Invariance, PTL DEF Spec, NoWorkCut

-----------------------------------------------------------------------------
(* One loop per session *)

\* The loop will pull again: its stop flag is not set, or it is on the
\* transport in the map.
Pulling(w) == /\ worker[w].st \in {"poll", "work"}
              /\ worker[w].stop # TRUE \/ worker[w].link = Current

\* Such a loop is the one the registry holds for its session.
PullerRegistered ==
    \A w \in Worker : Pulling(w) => worker[w].sid \in Session /\ registry[worker[w].sid] = w

\* A loop that will pull after the step would have pulled before it, for the
\* same session, or is the one registered by it; and nobody took its handle.
PullersFade ==
    \A w \in Worker : Pulling(w)' =>
        \/ /\ Pulling(w) /\ worker'[w].sid = worker[w].sid
           /\ worker[w].sid \in Session /\ registry[worker[w].sid] = w => registry'[worker[w].sid] = w
        \/ worker'[w].sid \in Session /\ registry'[worker'[w].sid] = w

LEMMA PullersStay ==
  ASSUME PullerRegistered, PullersFade
  PROVE  PullerRegistered'
  BY DEF PullerRegistered, PullersFade

\* A dropped handle stops its loop.
LEMMA StoppedFlag ==
  ASSUME PlaneShape, NEW w \in Worker
  PROVE  /\ Stopped(w).st \in {"poll", "work"} =>
               /\ Stopped(w).stop = TRUE /\ Stopped(w).st = worker[w].st
               /\ Stopped(w).link = worker[w].link /\ Stopped(w).sid = worker[w].sid
<1>1. worker[w] \in WorkerRecord
  BY DEF PlaneShape
<1>2. CASE worker[w].st = "exited"
  BY <1>2, LinkFacts DEF Stopped
<1>3. CASE worker[w].st # "exited"
  <2>1. Stopped(w) = [worker[w] EXCEPT !.stop = TRUE]
    BY <1>3 DEF Stopped
  <2> QED
    BY <1>1, <2>1 DEF WorkerRecord
<1> QED
  BY <1>2, <1>3

\* The handles of the sessions S are dropped and their transports moved to k.
LEMMA Dropping ==
  ASSUME PlaneShape, NEW S, NEW K, NEW k \in Link, k # Current,
         registry' = [s \in Session |-> IF s \in S THEN NoWorker ELSE registry[s]],
         worker' = [w \in Worker |->
                      LET v == IF \E s \in S : registry[s] = w THEN Stopped(w) ELSE worker[w]
                      IN  IF v.sid \in S /\ v.link \in K THEN [v EXCEPT !.link = k] ELSE v],
         Current \in K
  PROVE  PullersFade
<1> DEFINE V(w) == IF \E s \in S : registry[s] = w THEN Stopped(w) ELSE worker[w]
           R(w) == IF V(w).sid \in S /\ V(w).link \in K THEN [V(w) EXCEPT !.link = k] ELSE V(w)
<1> SUFFICES ASSUME NEW w \in Worker, Pulling(w)'
             PROVE  /\ Pulling(w) /\ worker'[w].sid = worker[w].sid
                    /\ worker[w].sid \in Session /\ registry[worker[w].sid] = w => registry'[worker[w].sid] = w
  BY DEF PullersFade
<1>1. worker'[w] = R(w)
  OBVIOUS
<1>2. worker[w] \in WorkerRecord
  BY DEF PlaneShape
<1>3. /\ V(w) \in WorkerRecord
      /\ V(w).st \in {"poll", "work"} =>
            /\ V(w).st = worker[w].st /\ V(w).link = worker[w].link /\ V(w).sid = worker[w].sid
            /\ V(w).stop = TRUE \/ V(w).stop = worker[w].stop
            /\ V(w).stop = TRUE \/ ~\E s \in S : registry[s] = w
  BY <1>2, Stopping, StoppedFlag
<1> HIDE DEF V
<1>4. /\ R(w).st = V(w).st /\ R(w).sid = V(w).sid /\ R(w).stop = V(w).stop
      /\ R(w).link = IF V(w).sid \in S /\ V(w).link \in K THEN k ELSE V(w).link
  BY <1>3 DEF WorkerRecord
<1> HIDE DEF R
<1>5. /\ R(w).st \in {"poll", "work"} /\ (R(w).stop # TRUE \/ R(w).link = Current)
  BY <1>1 DEF Pulling
<1>6. Pulling(w) /\ worker'[w].sid = worker[w].sid
  BY <1>1, <1>3, <1>4, <1>5 DEF Pulling
<1>7. worker[w].sid \notin S \/ ~\E s \in S : registry[s] = w
  BY <1>3, <1>4, <1>5
<1>8. worker[w].sid \in Session /\ registry[worker[w].sid] = w => registry'[worker[w].sid] = w
  BY <1>7
<1> QED
  BY <1>6, <1>8

\* Workers find their transport closed.
LEMMA LosingPullers ==
  ASSUME PlaneShape, NEW D \in SUBSET Worker, UNCHANGED registry,
         worker' = [w \in Worker |-> IF w \in D THEN [worker[w] EXCEPT !.link = Dead] ELSE worker[w]]
  PROVE  PullersFade
<1>1. \A w \in Worker : /\ [worker[w] EXCEPT !.link = Dead].st = worker[w].st
                        /\ [worker[w] EXCEPT !.link = Dead].sid = worker[w].sid
                        /\ [worker[w] EXCEPT !.link = Dead].stop = worker[w].stop
                        /\ [worker[w] EXCEPT !.link = Dead].link = Dead
  BY DEF PlaneShape, WorkerRecord
<1>2. \A w \in Worker : /\ worker'[w].st = worker[w].st /\ worker'[w].sid = worker[w].sid
                        /\ worker'[w].stop = worker[w].stop /\ worker'[w].link \in {Dead, worker[w].link}
  BY <1>1
<1> QED
  BY <1>2, LinkFacts DEF PullersFade, Pulling

\* A session gets its worker: nobody's handle is replaced.
LEMMA StartingPullers ==
  ASSUME PlaneShape, NEW s \in Session, EnsureStarted(s)
  PROVE  PullersFade
<1>1. CASE UNCHANGED <<registry, worker>>
  BY <1>1 DEF PullersFade, Pulling
<1>2. CASE ~(registry[s] # NoWorker \/ conn[s] = "none")
  <2> DEFINE r == [st |-> "poll", sid |-> s, busy |-> FALSE, stop |-> FALSE,
                   link |-> IF conn[s] = "open" THEN Current ELSE Dead]
  <2>1. PICK w \in Worker : /\ registry' = [registry EXCEPT ![s] = w]
                           /\ worker' = [worker EXCEPT ![w] = r]
    BY <1>2 DEF EnsureStarted
  <2>2. r.sid = s
    OBVIOUS
  <2> HIDE DEF r
  <2>3. /\ worker'[w] = r /\ \A v \in Worker : v # w => worker'[v] = worker[v]
        /\ registry'[s] = w /\ \A u \in Session : u # s => registry'[u] = registry[u]
    BY <2>1 DEF PlaneShape
  <2>4. NoWorker \notin Worker
    BY PoolAssumption DEF NoWorker, Worker
  <2> QED
    BY <1>2, <2>2, <2>3, <2>4 DEF PullersFade, Pulling
<1> QED
  BY <1>1, <1>2 DEF EnsureStarted

\* A loop that goes on keeps its session, its flag and its transport.
LEMMA WorkingPullers ==
  ASSUME PlaneShape, NEW w \in Worker, WorkerStep(w)
  PROVE  PullersFade
<1>1. UNCHANGED registry /\ worker[w].st \in {"poll", "work"}
  BY DEF WorkerStep, WorkerTakesWork, WorkerDone, WorkerPostFails, WorkerStops, WorkerLost
<1>2. worker[w] \in WorkerRecord
  BY DEF PlaneShape
<1>3. ASSUME NEW r, worker' = [worker EXCEPT ![w] = r],
             \/ r.st \in {"free", "exited"}
             \/ r.link = worker[w].link /\ r.sid = worker[w].sid /\ r.stop = worker[w].stop
      PROVE  PullersFade
  <2>1. worker'[w] = r /\ \A v \in Worker : v # w => worker'[v] = worker[v]
    BY <1>3 DEF PlaneShape
  <2> QED
    BY <1>1, <1>3, <2>1 DEF PullersFade, Pulling
<1>4. CASE Exit(w)
  <2> DEFINE x == [worker[w] EXCEPT !.st = "exited"]
  <2>1. x.st = "exited"
    BY <1>2 DEF WorkerRecord
  <2>2. worker' = [worker EXCEPT ![w] = x] \/ worker' = [worker EXCEPT ![w] = FreeWorker]
    BY <1>4 DEF Exit
  <2> HIDE DEF x
  <2> QED
    BY <1>3, <2>1, <2>2, LinkFacts
<1>5. CASE \/ worker' = [worker EXCEPT ![w].st = "work", ![w].busy = TRUE]
           \/ worker' = [worker EXCEPT ![w].st = "poll", ![w].busy = FALSE]
           \/ worker' = [worker EXCEPT ![w].st = "poll"]
  <2> DEFINE x(st, b) == [worker[w] EXCEPT !.st = st, !.busy = b]
  <2>1. \A st \in {"work", "poll"}, b \in BOOLEAN :
           x(st, b).link = worker[w].link /\ x(st, b).sid = worker[w].sid /\ x(st, b).stop = worker[w].stop
    BY <1>2 DEF WorkerRecord
  <2>2. \/ worker' = [worker EXCEPT ![w] = x("work", TRUE)]
        \/ worker' = [worker EXCEPT ![w] = x("poll", FALSE)]
        \/ worker' = [worker EXCEPT ![w] = x("poll", worker[w].busy)]
    BY <1>2, <1>5 DEF PlaneShape, WorkerRecord
  <2>3. worker[w].busy \in BOOLEAN
    BY <1>2 DEF WorkerRecord
  <2> HIDE DEF x
  <2> QED
    BY <1>3, <2>1, <2>2, <2>3
<1> QED
  BY <1>4, <1>5 DEF WorkerStep, WorkerTakesWork, WorkerDone, WorkerPostFails, WorkerStops, WorkerLost

\* stop_session and the shutdown drop handles, each with its transport.
LEMMA DetachingPullers ==
  ASSUME PlaneShape, NEW t \in Task, NEW s, StopAndDetach(t, s)
  PROVE  PullersFade
<1> DEFINE S == {s}
           K == {Current}
<1>1. registry' = [r \in Session |-> IF r \in S THEN NoWorker ELSE registry[r]]
  BY DEF StopAndDetach, PlaneShape
<1>2. worker' = [w \in Worker |->
                   LET v == IF \E r \in S : registry[r] = w THEN Stopped(w) ELSE worker[w]
                   IN  IF v.sid \in S /\ v.link \in K THEN [v EXCEPT !.link = t] ELSE v]
  BY DEF StopAndDetach
<1>3. t \in Link /\ t # Current /\ Current \in K
  BY LinkFacts
<1> HIDE DEF S, K
<1> QED
  BY <1>1, <1>2, <1>3, Dropping

LEMMA ShuttingPullers ==
  ASSUME PlaneShape, SlotIds \subseteq Session, NEW t \in Task, CloseStart(t)
  PROVE  PullersFade
<1>1. registry' = [s \in Session |-> IF s \in SlotIds THEN NoWorker ELSE registry[s]]
  BY DEF CloseStart, HasSlot
<1>2. worker' = [w \in Worker |->
                   LET v == IF \E r \in SlotIds : registry[r] = w THEN Stopped(w) ELSE worker[w]
                   IN  IF v.sid \in SlotIds /\ v.link \in {Current} THEN [v EXCEPT !.link = t] ELSE v]
  BY DEF CloseStart
<1> QED
  BY <1>1, <1>2, Dropping, LinkFacts

\* After force_close_all and stop_all no loop that was registered goes on.
LEMMA ClosingPullers ==
  ASSUME PlaneShape, PullerRegistered, NEW t \in Task, CloseEnd(t)
  PROVE  PullerRegistered'
<1> DEFINE V(w) == IF \E s \in Session : registry[s] = w THEN Stopped(w) ELSE worker[w]
           R(w) == IF V(w).link \in {Current, t} THEN [V(w) EXCEPT !.link = Dead] ELSE V(w)
<1> SUFFICES ASSUME NEW w \in Worker, Pulling(w)' PROVE FALSE
  BY DEF PullerRegistered
<1>1. worker'[w] = R(w)
  BY DEF CloseEnd
<1>2. worker[w] \in WorkerRecord
  BY DEF PlaneShape
<1>3. /\ V(w) \in WorkerRecord
      /\ V(w).st \in {"poll", "work"} =>
            /\ V(w).st = worker[w].st
            /\ V(w).stop = TRUE \/ (V(w).stop = worker[w].stop /\ ~\E s \in Session : registry[s] = w)
  BY <1>2, Stopping, StoppedFlag
<1> HIDE DEF V
<1>4. R(w).st = V(w).st /\ R(w).stop = V(w).stop /\ R(w).link # Current
  BY <1>3, LinkFacts DEF WorkerRecord
<1> HIDE DEF R
<1>5. V(w).st \in {"poll", "work"} /\ V(w).stop # TRUE
  BY <1>1, <1>4 DEF Pulling
<1>6. Pulling(w) /\ ~\E s \in Session : registry[s] = w
  BY <1>3, <1>5 DEF Pulling
<1> QED
  BY <1>6 DEF PullerRegistered

\* Every step keeps the loops that will pull in the registry.
LEMMA StepPullers ==
  ASSUME IInv, PullerRegistered, [Next]_vars
  PROVE  PullerRegistered'
<1>0. /\ PlaneShape /\ NewMinted /\ Claims /\ SlotIds \subseteq Session
      /\ \A s \in 1 .. minted : s \in Session
  <2>1. PoolShape /\ minted \in 0 .. MaxSession
    BY DEF IInv, PoolShape
  <2> QED
    BY <2>1, PoolAssumption DEF IInv, Links, PoolShape, SlotIds, Session
<1> DEFINE Goal == PullerRegistered'
<1>1. CASE UNCHANGED <<registry, worker>>
  BY <1>1 DEF PullerRegistered, Pulling
<1>2. ASSUME PullersFade PROVE Goal
  BY <1>2, PullersStay
<1>3. ASSUME NEW t \in Task, NEW s, StopAndDetach(t, s) PROVE Goal
  BY <1>0, <1>2, <1>3, DetachingPullers
<1>4. ASSUME NEW t \in Task, CloseDetached(t), UNCHANGED registry PROVE Goal
  <2> DEFINE D == {w \in Worker : worker[w].link = t}
  <2>1. worker' = [w \in Worker |-> IF w \in D THEN [worker[w] EXCEPT !.link = Dead] ELSE worker[w]]
    BY <1>4 DEF CloseDetached
  <2> QED
    BY <1>0, <1>2, <1>4, <2>1, LosingPullers
<1>5. ASSUME NEW s \in 1 .. minted, EnsureStarted(s) PROVE Goal
  BY <1>0, <1>2, <1>5, StartingPullers
<1>6. ASSUME NEW s, UNCHANGED registry,
             worker' = [w \in Worker |-> IF worker[w].sid = s /\ worker[w].link = Current
                                         THEN [worker[w] EXCEPT !.link = Dead] ELSE worker[w]]
      PROVE  Goal
  <2> DEFINE D == {w \in Worker : worker[w].sid = s /\ worker[w].link = Current}
  <2>1. worker' = [w \in Worker |-> IF w \in D THEN [worker[w] EXCEPT !.link = Dead] ELSE worker[w]]
    BY <1>6
  <2> QED
    BY <1>0, <1>2, <1>6, <2>1, LosingPullers
<1>7. \A t \in Task : /\ pc[t] \in Readying => loc[t].new \in 1 .. minted
                      /\ pc[t] \in Owning => loc[t].sid \in 1 .. minted
  BY <1>0 DEF NewMinted, Readying, Claims, Claimed
<1> HIDE DEF Goal
<1>8. ASSUME NEW t \in Task, TaskStep(t) PROVE Goal
  <2>1. CASE ReconnectStep(t)
    <3>1. CASE ReconnectClaim(t) \/ ReconnectDialFails(t)
      BY <1>1, <3>1 DEF ReconnectClaim, ReconnectDialFails, planeVars, Goal
    <3>2. CASE ReconnectBegin(t)
      BY <1>1, <1>3, <3>2 DEF ReconnectBegin, Goal
    <3>3. CASE ReconnectTornDown(t)
      BY <1>4, <3>3 DEF ReconnectTornDown
    <3>4. CASE ReconnectDialOk(t)
      BY <1>6, <3>4 DEF ReconnectDialOk
    <3>5. CASE ReconnectReady(t)
      BY <1>5, <1>7, <3>5 DEF ReconnectReady, Owning
    <3> QED
      BY <2>1, <3>1, <3>2, <3>3, <3>4, <3>5 DEF ReconnectStep
  <2>2. CASE DrainStep(t)
    <3>1. CASE DrainNext(t)
      BY <1>1, <3>1 DEF DrainNext, planeVars, Goal
    <3>2. CASE DrainRelease(t)
      BY <1>3, <3>2 DEF DrainRelease, Release
    <3>3. CASE DrainRemove(t)
      BY <1>4, <3>3 DEF DrainRemove
    <3> QED
      BY <2>2, <3>1, <3>2, <3>3 DEF DrainStep
  <2>3. CASE ScaleStep(t)
    <3>1. CASE ScaleNext(t) \/ ScaleDialFails(t) \/ ScaleDialOk(t)
      BY <1>1, <3>1 DEF ScaleNext, ScaleDialFails, ScaleDialOk, planeVars, Goal
    <3>2. CASE ScaleReady(t)
      BY <1>5, <1>7, <3>2 DEF ScaleReady, Goto, Readying
    <3> QED
      BY <2>3, <3>1, <3>2 DEF ScaleStep
  <2>4. CASE MigrateStep(t)
    <3>1. CASE \/ MigrateNext(t) \/ MigrateDialFails(t) \/ DialAheadFails(t) \/ DialAheadDone(t)
               \/ MigrateDialOk(t) \/ DialAheadOk(t)
      BY <1>1, <3>1 DEF MigrateNext, MigrateDialFails, DialAheadFails, DialAheadDone, MigrateDialOk,
                        DialAheadOk, planeVars, Goal
    <3>2. CASE MigrateRelease(t)
      BY <1>3, <3>2 DEF MigrateRelease, Release
    <3>3. CASE MigrateSwap(t)
      BY <1>4, <3>3 DEF MigrateSwap
    <3>4. CASE MigrateReady(t) \/ DialAheadReady(t)
      BY <1>5, <1>7, <3>4 DEF MigrateReady, DialAheadReady, Goto, Readying
    <3> QED
      BY <2>4, <3>1, <3>2, <3>3, <3>4 DEF MigrateStep
  <2>5. CASE RetireStep(t)
    <3>1. CASE RetireNext(t) \/ RetireCheck(t)
      BY <1>1, <3>1 DEF RetireNext, RetireCheck, planeVars, Goal
    <3>2. CASE RetireRelease(t)
      BY <1>3, <3>2 DEF RetireRelease, Release
    <3>3. CASE RetireRemove(t)
      BY <1>4, <3>3 DEF RetireRemove
    <3> QED
      BY <2>5, <3>1, <3>2, <3>3 DEF RetireStep
  <2>6. CASE CloseEnd(t)
    BY <1>0, <2>6, ClosingPullers DEF Goal
  <2> QED
    BY <1>8, <2>1, <2>2, <2>3, <2>4, <2>5, <2>6 DEF TaskStep
<1>9. ASSUME NEW t \in Task, Command(t) PROVE Goal
  <2>1. CASE CloseStart(t)
    BY <1>0, <1>2, <2>1, ShuttingPullers
  <2>2. CASE ~CloseStart(t)
    BY <1>1, <1>9, <2>2 DEF Command, DrainStart, ScaleStart, MigrateStart, planeVars, Goal
  <2> QED
    BY <2>1, <2>2
<1>10. ASSUME NEW t \in Task, DetachedLost(t) PROVE Goal
  BY <1>4, <1>10 DEF DetachedLost
<1>11. ASSUME NEW w \in Worker, WorkerStep(w) PROVE Goal
  BY <1>0, <1>2, <1>11, WorkingPullers
<1>12. ASSUME NEW s \in Session, TransportLost(s) PROVE Goal
  BY <1>6, <1>12 DEF TransportLost
<1>13. ASSUME NEW s \in Session, Watch(s) PROVE Goal
  BY <1>1, <1>13 DEF Watch, planeVars, Goal
<1>14. CASE UNCHANGED vars
  BY <1>1, <1>14 DEF vars, Goal
<1>15. CASE Next
  BY <1>8, <1>9, <1>10, <1>11, <1>12, <1>13, <1>15 DEF Next, Goal
<1> QED
  BY <1>14, <1>15 DEF Goal

\* At most one loop of a session pulls again, and two never pull from the same
\* transport (PullWorkerRegistry::ensure_started and stop_session), although a
\* stopped loop outlives its handle, for every pool, commands and faults.
THEOREM OnePuller == Spec => []OnePullerPerSession
<1>1. Init => PullerRegistered
  <2> SUFFICES ASSUME Init, NEW w \in Worker, Pulling(w)
               PROVE  worker[w].sid \in Session /\ registry[worker[w].sid] = w
    BY DEF PullerRegistered
  <2>1. w <= Boot /\ worker[w].sid = w
    BY LinkFacts DEF Init, Pulling
  <2>2. w \in Session
    BY <2>1, PoolAssumption DEF Worker, Session
  <2> QED
    BY <2>1, <2>2 DEF Init
<1>2. IInv /\ PullerRegistered /\ [Next]_vars => PullerRegistered'
  BY StepPullers
<1>3. IInv /\ PullerRegistered => OnePullerPerSession
  <2> SUFFICES ASSUME IInv, PullerRegistered, NEW v \in Worker, NEW w \in Worker,
                      v # w, worker[v].sid = worker[w].sid,
                      worker[v].st \in {"poll", "work"}, worker[w].st \in {"poll", "work"}
               PROVE  /\ worker[v].stop \/ worker[w].stop
                      /\ ~(worker[v].link = Current /\ worker[w].link = Current)
    BY DEF OnePullerPerSession
  <2>1. ~Pulling(v) \/ ~Pulling(w)
    BY DEF PullerRegistered
  <2>2. (worker[v].stop = TRUE /\ worker[v].link # Current) \/ (worker[w].stop = TRUE /\ worker[w].link # Current)
    BY <2>1 DEF Pulling
  <2> QED
    BY <2>2
<1> QED
  BY <1>1, <1>2, <1>3, Invariance, PTL DEF Spec

-----------------------------------------------------------------------------
(* Make before break.  Without drains, a shutdown and lost transports, every  *)
(* release is paid for by a session dialled before it.                        *)

\* Where the tasks of such a pool are: in particular nobody reconnects.
Growing == {"idle", "rc_sched", "sc_next", "sc_dial", "sc_ready",
            "mg_next", "mg_dial", "mg_release", "mg_closing", "mg_ready",
            "mg_ahead", "mg_ahead_ready", "rt_next", "rt_check", "rt_release", "rt_closing"}

OnlyGrows == \A t \in Task : pc[t] \in Growing

\* The sessions that a reconnect could claim, now or later: those with a slot
\* that is not suppressed, the replacements that wait for their slot, and the
\* ids not yet handed out.
Live == {s \in SlotIds : ~suppress[s]}

Replacements == {loc[t].new : t \in {u \in Task : Swapping(u)}}

Claimable == Live \cup Replacements \cup {s \in Session : s > minted}

\* Of these, the ones handed out are connected.
ClaimableOpen ==
    \A s \in Session :
        /\ conn[s] # "lost"
        /\ s <= minted /\ s \in Claimable => conn[s] = "open"
        /\ s > minted => conn[s] = "none"

\* A worker off the transport in the map, and a scheduled reconnect, are those
\* of a session that was given up.
GivenUp ==
    /\ \A w \in Worker :
          worker[w].st \in {"poll", "work"} /\ worker[w].link # Current
             => worker[w].sid \notin Claimable
    /\ \A t \in Task : pc[t] = "rc_sched" => loc[t].sid \notin Claimable

\* The session a migration or a retirement has picked to release is no
\* replacement.
Picking == {"mg_dial", "mg_release", "mg_closing", "rt_check", "rt_release", "rt_closing"}

PickedHadSlot ==
    \A t \in Task : pc[t] \in Picking => loc[t].sid \in 1 .. minted /\ loc[t].sid \notin Replacements

IsSeq(q) == \E V : q \in Seq(V)

\* The lists of a migration that dials ahead, and of the retirement after it.
RoundOf(p, l) ==
    /\ p \in {"mg_next", "mg_dial", "mg_release", "mg_closing", "mg_ready"} => l.done = <<>>
    /\ p \in {"mg_ahead", "mg_ahead_ready"} => IsSeq(l.done) /\ l.todo = <<>>
    /\ p \in {"rt_next", "rt_check", "rt_release", "rt_closing"} => IsSeq(l.done) /\ IsSeq(l.todo)

Rounds == \A t \in Task : RoundOf(pc[t], loc[t])

\* How many sessions a task has dialled and may still release others for.
CreditOf(p, l) ==
    CASE p = "mg_release" -> 1
      [] p = "mg_ahead" -> Len(l.done)
      [] p = "mg_ahead_ready" -> Len(l.done) + 1
      [] p \in {"rt_next", "rt_closing"} -> Len(l.todo) + Len(l.done)
      [] p \in {"rt_check", "rt_release"} -> Len(l.todo) + Len(l.done) + 1
      [] OTHER -> 0

Credits == {c \in Task \X Nat : c[2] \in 1 .. CreditOf(pc[c[1]], loc[c[1]])}

Open == {s \in Session : conn[s] = "open"}

\* The open sessions are the booted ones and one for each credit, at least.
Balanced == IsFiniteSet(Credits) /\ Cardinality(Open) >= Boot + Cardinality(Credits)

MInv == /\ IInv
        /\ OnlyGrows /\ ClaimableOpen /\ GivenUp /\ PickedHadSlot /\ Rounds /\ Balanced

\* Sets that grow and shrink by one keep their balance.
LEMMA Balance ==
  ASSUME NEW O, NEW O2, NEW C, NEW D, IsFiniteSet(O), IsFiniteSet(O2), IsFiniteSet(C),
         Cardinality(O) >= Boot + Cardinality(C),
         \/ O \subseteq O2 /\ D \subseteq C
         \/ \E x, c : x \notin O /\ O2 = O \cup {x} /\ D \subseteq C \cup {c}
         \/ \E x, c : c \in C /\ O \ {x} \subseteq O2 /\ D \subseteq C \ {c}
  PROVE  IsFiniteSet(D) /\ Cardinality(O2) >= Boot + Cardinality(D)
<1>0. Cardinality(O) \in Nat /\ Cardinality(O2) \in Nat /\ Cardinality(C) \in Nat /\ Boot \in Nat
  BY FS_CardinalityType, PoolAssumption
<1>1. CASE O \subseteq O2 /\ D \subseteq C
  <2>1. IsFiniteSet(D) /\ Cardinality(D) <= Cardinality(C) /\ Cardinality(O) <= Cardinality(O2)
    BY <1>1, FS_Subset
  <2>2. Cardinality(D) \in Nat
    BY <2>1, FS_CardinalityType
  <2> QED
    BY <1>0, <2>1, <2>2
<1>2. ASSUME NEW x, NEW c, x \notin O, O2 = O \cup {x}, D \subseteq C \cup {c}
      PROVE  IsFiniteSet(D) /\ Cardinality(O2) >= Boot + Cardinality(D)
  <2>1. Cardinality(O2) = Cardinality(O) + 1
    BY <1>2, FS_AddElement
  <2>2. IsFiniteSet(C \cup {c}) /\ Cardinality(C \cup {c}) <= Cardinality(C) + 1
    <3>1. IsFiniteSet(C \cup {c}) /\ Cardinality(C \cup {c}) \in {Cardinality(C), Cardinality(C) + 1}
      BY FS_AddElement, Zenon
    <3> QED
      BY <1>0, <3>1
  <2>3. IsFiniteSet(D) /\ Cardinality(D) <= Cardinality(C \cup {c})
    BY <1>2, <2>2, FS_Subset
  <2>4. Cardinality(D) \in Nat /\ Cardinality(C \cup {c}) \in Nat
    BY <2>2, <2>3, FS_CardinalityType
  <2> QED
    BY <1>0, <2>1, <2>2, <2>3, <2>4
<1>3. ASSUME NEW x, NEW c, c \in C, O \ {x} \subseteq O2, D \subseteq C \ {c}
      PROVE  IsFiniteSet(D) /\ Cardinality(O2) >= Boot + Cardinality(D)
  <2>1. IsFiniteSet(O \ {x}) /\ Cardinality(O \ {x}) >= Cardinality(O) - 1
    <3>1. IsFiniteSet(O \ {x}) /\ Cardinality(O \ {x}) \in {Cardinality(O), Cardinality(O) - 1}
      BY FS_RemoveElement, Zenon
    <3> QED
      BY <1>0, <3>1
  <2>2. IsFiniteSet(C \ {c}) /\ Cardinality(C \ {c}) = Cardinality(C) - 1
    BY <1>3, FS_RemoveElement
  <2>3. Cardinality(O \ {x}) <= Cardinality(O2)
    BY <1>3, FS_Subset
  <2>4. IsFiniteSet(D) /\ Cardinality(D) <= Cardinality(C \ {c})
    BY <1>3, <2>2, FS_Subset
  <2>5. Cardinality(D) \in Nat /\ Cardinality(C \ {c}) \in Nat /\ Cardinality(O \ {x}) \in Nat
    BY <2>1, <2>2, <2>4, FS_CardinalityType
  <2> QED
    BY <1>0, <2>1, <2>2, <2>3, <2>4, <2>5
<1> QED
  BY <1>1, <1>2, <1>3

\* The lists' lengths.
LEMMA Lists ==
  /\ IsSeq(<<>>) /\ Len(<<>>) = 0
  /\ \A q : IsSeq(q) => /\ Len(q) \in Nat
                        /\ \A x : IsSeq(Append(q, x)) /\ Len(Append(q, x)) = Len(q) + 1
                        /\ q # <<>> => IsSeq(Tail(q)) /\ Len(Tail(q)) = Len(q) - 1
<1>1. <<>> \in Seq({})
  OBVIOUS
<1>2. IsSeq(<<>>) /\ Len(<<>>) = 0
  BY <1>1 DEF IsSeq
<1>3. ASSUME NEW q, IsSeq(q)
      PROVE  /\ Len(q) \in Nat
             /\ \A x : IsSeq(Append(q, x)) /\ Len(Append(q, x)) = Len(q) + 1
             /\ q # <<>> => IsSeq(Tail(q)) /\ Len(Tail(q)) = Len(q) - 1
  <2>1. PICK V : q \in Seq(V)
    BY <1>3 DEF IsSeq
  <2>2. Len(q) \in Nat
    BY <2>1
  <2>3. ASSUME NEW x PROVE IsSeq(Append(q, x)) /\ Len(Append(q, x)) = Len(q) + 1
    <3> DEFINE W == V \cup {x}
    <3>1. q \in Seq(W) /\ x \in W
      BY <2>1
    <3> HIDE DEF W
    <3>2. Append(q, x) \in Seq(W) /\ Len(Append(q, x)) = Len(q) + 1
      BY <3>1
    <3> QED
      BY <3>2 DEF IsSeq
  <2>4. q # <<>> => Tail(q) \in Seq(V) /\ Len(Tail(q)) = Len(q) - 1
    BY <2>1
  <2> QED
    BY <2>2, <2>3, <2>4 DEF IsSeq
<1> QED
  BY <1>2, <1>3

\* A task's credit, by where it is.
LEMMA CreditValues ==
  ASSUME NEW l
  PROVE  /\ CreditOf("mg_release", l) = 1
         /\ CreditOf("mg_ahead", l) = Len(l.done)
         /\ CreditOf("mg_ahead_ready", l) = Len(l.done) + 1
         /\ CreditOf("rt_next", l) = Len(l.todo) + Len(l.done)
         /\ CreditOf("rt_closing", l) = Len(l.todo) + Len(l.done)
         /\ CreditOf("rt_check", l) = Len(l.todo) + Len(l.done) + 1
         /\ CreditOf("rt_release", l) = Len(l.todo) + Len(l.done) + 1
         /\ \A p \in Growing \ {"mg_release", "mg_ahead", "mg_ahead_ready", "rt_next", "rt_closing",
                                "rt_check", "rt_release"} : CreditOf(p, l) = 0
  BY DEF CreditOf, Growing

-----------------------------------------------------------------------------
(* Make before break: the ways of a task *)

\* The ways of a task: where it goes, what becomes of its lists, and what it
\* does to the connector's map.
Scaling == {"sc_next", "sc_dial", "sc_ready"}

SameMap == UNCHANGED <<conn, minted>>

Detach(t) == StopAndDetach(t, loc[t].sid) /\ UNCHANGED minted

SameLists(t) == loc'[t].todo = loc[t].todo /\ loc'[t].done = loc[t].done

NextOfList(t) == /\ loc[t].todo # <<>> /\ loc'[t].todo = Tail(loc[t].todo)
                 /\ \/ loc'[t].done = loc[t].done
                    \/ \E x : loc'[t].done = Append(loc[t].done, x)

Way(t, p, q) == pc[t] = p /\ pc'[t] = q

MigrateWay(t) ==
    \/ (Way(t, "mg_next", "mg_next") \/ Way(t, "mg_ready", "mg_next")) /\ loc'[t].done = loc[t].done /\ SameMap
    \/ Way(t, "mg_next", "mg_dial") /\ loc'[t].done = loc[t].done /\ loc'[t].sid \in SlotIds /\ SameMap
    \/ Way(t, "mg_next", "mg_ahead") /\ loc' = loc /\ loc[t].todo = <<>> /\ SameMap
    \/ /\ Way(t, "mg_dial", "mg_release") /\ loc'[t].done = loc[t].done
       /\ loc'[t].sid = loc[t].sid /\ loc'[t].new = Mint /\ DialFresh
    \/ Way(t, "mg_release", "mg_closing") /\ loc' = loc /\ Detach(t)
    \/ Way(t, "mg_closing", "mg_ready") /\ loc' = loc /\ SameMap

AheadWay(t) ==
    \/ Way(t, "mg_ahead", "mg_ahead_ready") /\ SameLists(t) /\ DialFresh
    \/ /\ Way(t, "mg_ahead_ready", "mg_ahead") /\ loc'[t].todo = loc[t].todo
       /\ \E x : loc'[t].done = Append(loc[t].done, x)
       /\ SameMap
    \/ Way(t, "mg_ahead", "rt_next") /\ SameLists(t) /\ SameMap

RetireWay(t) ==
    \/ /\ Way(t, "rt_next", "rt_next") /\ loc[t].todo = <<>> /\ loc'[t].todo = loc[t].done
       /\ loc'[t].done = <<>> /\ SameMap
    \/ Way(t, "rt_next", "rt_next") /\ NextOfList(t) /\ SameMap
    \/ /\ Way(t, "rt_next", "rt_check") /\ loc[t].todo # <<>> /\ loc'[t].todo = Tail(loc[t].todo)
       /\ loc'[t].done = loc[t].done /\ loc'[t].sid \in SlotIds /\ SameMap
    \/ (Way(t, "rt_check", "rt_next") \/ Way(t, "rt_check", "rt_release")) /\ loc' = loc /\ SameMap
    \/ Way(t, "rt_release", "rt_closing") /\ loc' = loc /\ Detach(t)
    \/ Way(t, "rt_closing", "rt_next") /\ SameLists(t) /\ SameMap

EndWay(t) == pc'[t] = "idle" /\ SameMap

ScaleWay(t) == pc[t] \in Scaling /\ pc'[t] \in Scaling /\ (SameMap \/ DialFresh)

Ways(t) == EndWay(t) \/ ScaleWay(t) \/ MigrateWay(t) \/ AheadWay(t) \/ RetireWay(t)

\* A task of a pool that only grows or migrates goes one of these ways: the
\* reconnect of a session that was given up ends at the claim.
LEMMA TaskWays ==
  ASSUME TaskShape, NEW t \in Task, TaskStep(t), pc[t] \in Growing,
         pc[t] = "rc_sched" => loc[t].sid \notin Live
  PROVE  Ways(t)
<1>1. PICK W : loc \in [Task -> LocRecord(W)]
  BY DEF TaskShape, LocShape
<1>2. \A q : pc' = [pc EXCEPT ![t] = q] => pc'[t] = q
  BY DEF TaskShape
<1>3. \A p, q : Goto(t, p, q) => Way(t, p, q)
  BY <1>2 DEF Goto, Way
<1>4. Finish(t) => pc'[t] = "idle"
  BY <1>2 DEF Finish
<1>5. CASE ReconnectStep(t)
  <2>1. pc[t] = "rc_sched" /\ ReconnectClaim(t)
    BY <1>5 DEF ReconnectStep, ReconnectClaim, ReconnectBegin, ReconnectTornDown,
          ReconnectDialOk, ReconnectDialFails, ReconnectReady, Goto, Growing
  <2>2. loc[t].sid \notin SlotIds \/ suppress[loc[t].sid]
    BY <2>1 DEF Live
  <2>3. ~(HasSlot(loc[t].sid) /\ ~suppress[loc[t].sid] /\ ~pending[loc[t].sid])
    BY <2>2 DEF HasSlot
  <2>4. Finish(t) /\ SameMap
    BY <2>1, <2>3 DEF ReconnectClaim, planeVars, SameMap
  <2> QED
    BY <1>4, <2>4 DEF Ways, EndWay
<1>6. CASE DrainStep(t) \/ CloseEnd(t)
  BY <1>6 DEF DrainStep, DrainNext, DrainRelease, DrainRemove, CloseEnd, Goto, Growing
<1>7. CASE ScaleStep(t)
  <2>1. CASE ScaleNext(t)
    BY <1>2, <1>4, <2>1 DEF ScaleNext, planeVars, SameMap, Ways, EndWay, ScaleWay, Scaling
  <2>2. CASE ScaleDialOk(t)
    BY <1>3, <2>2 DEF ScaleDialOk, Way, Ways, ScaleWay, Scaling
  <2>3. CASE ScaleDialFails(t) \/ ScaleReady(t)
    BY <1>3, <2>3 DEF ScaleDialFails, ScaleReady, planeVars, SameMap, Way, Ways, ScaleWay, Scaling
  <2> QED
    BY <1>7, <2>1, <2>2, <2>3 DEF ScaleStep
<1>8. EndIteration(t) => SameLists(t)
  BY <1>1 DEF EndIteration, SameLists, LocRecord
<1>9. CASE MigrateStep(t)
  <2>1. CASE MigrateNext(t)
    <3>0. pc[t] = "mg_next" /\ SameMap
      BY <2>1 DEF MigrateNext, SameMap, planeVars
    <3>1. CASE loc[t].todo # <<>> /\ OnSource(Head(loc[t].todo), loc[t].gw)
      <4> DEFINE s == Head(loc[t].todo)
                 i == CHOOSE j \in DOMAIN slots : slots[j] = s
                 k == [loc EXCEPT ![t].todo = Tail(@), ![t].sid = s]
      <4>1. pc' = [pc EXCEPT ![t] = "mg_dial"]
            /\ loc' = [loc EXCEPT ![t].todo = Tail(@), ![t].sid = s, ![t].n = i]
        BY <2>1, <3>1 DEF MigrateNext
      <4> HIDE DEF i
      <4>2. loc' = [k EXCEPT ![t].n = i]
        BY <1>1, <4>1
      <4>3. k[t].done = loc[t].done /\ k[t].sid = s /\ DOMAIN k = Task
        BY <1>1 DEF LocRecord
      <4> HIDE DEF k
      <4>4. loc'[t].done = loc[t].done /\ loc'[t].sid = s
        BY <4>2, <4>3
      <4>5. s \in SlotIds
        BY <3>1 DEF OnSource, HasSlot
      <4>6. Way(t, "mg_next", "mg_dial")
        BY <1>2, <3>0, <4>1 DEF Way
      <4> QED
        BY <3>0, <4>4, <4>5, <4>6, Zenon DEF Ways, MigrateWay
    <3>2. CASE loc[t].todo # <<>> /\ ~OnSource(Head(loc[t].todo), loc[t].gw)
      <4>1. loc' = [loc EXCEPT ![t].todo = Tail(@)] /\ pc' = pc
        BY <2>1, <3>2 DEF MigrateNext
      <4>2. loc'[t].done = loc[t].done /\ Way(t, "mg_next", "mg_next")
        BY <1>1, <3>0, <4>1 DEF Way, LocRecord
      <4> QED
        BY <3>0, <4>2, Zenon DEF Ways, MigrateWay
    <3>3. CASE loc[t].todo = <<>>
      <4>1. \/ Finish(t)
            \/ loc' = loc /\ pc' = [pc EXCEPT ![t] = "mg_ahead"]
        BY <2>1, <3>3 DEF MigrateNext
      <4> QED
        BY <1>2, <1>4, <3>0, <3>3, <4>1 DEF Ways, MigrateWay, EndWay, Way
    <3> QED
      BY <3>1, <3>2, <3>3
  <2>2. CASE MigrateDialOk(t)
    <3>1. loc' = [loc EXCEPT ![t].new = Mint] /\ DialFresh /\ Way(t, "mg_dial", "mg_release")
      BY <1>3, <2>2 DEF MigrateDialOk
    <3>2. loc'[t].done = loc[t].done /\ loc'[t].sid = loc[t].sid /\ loc'[t].new = Mint
      BY <1>1, <3>1 DEF LocRecord
    <3> QED
      BY <3>1, <3>2, Zenon DEF Ways, MigrateWay
  <2>3. CASE MigrateDialFails(t)
    BY <1>4, <2>3 DEF MigrateDialFails, planeVars, SameMap, Ways, EndWay
  <2>4. CASE MigrateRelease(t)
    <3>1. Way(t, "mg_release", "mg_closing") /\ loc' = loc /\ Detach(t)
      BY <1>3, <2>4 DEF MigrateRelease, Release, Detach
    <3> QED
      BY <3>1, Zenon DEF Ways, MigrateWay
  <2>5. CASE MigrateSwap(t)
    <3>1. Way(t, "mg_closing", "mg_ready") /\ loc' = loc /\ SameMap
      BY <1>3, <2>5 DEF MigrateSwap, SameMap
    <3> QED
      BY <3>1, Zenon DEF Ways, MigrateWay
  <2>6. CASE MigrateReady(t)
    <3>1. Way(t, "mg_ready", "mg_next") /\ SameLists(t) /\ SameMap
      BY <1>3, <1>8, <2>6 DEF MigrateReady, SameMap
    <3> QED
      BY <3>1, Zenon DEF Ways, MigrateWay, SameLists
  <2>7. CASE DialAheadOk(t)
    <3>1. loc' = [loc EXCEPT ![t].new = Mint] /\ DialFresh /\ Way(t, "mg_ahead", "mg_ahead_ready")
      BY <1>3, <2>7 DEF DialAheadOk
    <3>2. SameLists(t)
      BY <1>1, <3>1 DEF LocRecord, SameLists
    <3> QED
      BY <3>1, <3>2, Zenon DEF Ways, AheadWay
  <2>8. CASE DialAheadReady(t)
    <3> DEFINE k == [loc EXCEPT ![t].done = Append(@, Head(loc[t].planned)), ![t].planned = Tail(@)]
    <3>1. Way(t, "mg_ahead_ready", "mg_ahead") /\ SameMap
      BY <1>3, <2>8 DEF DialAheadReady, SameMap
    <3>2. loc' = [k EXCEPT ![t].new = NoSession]
      BY <1>1, <2>8 DEF DialAheadReady
    <3>3. k[t].done = Append(loc[t].done, Head(loc[t].planned)) /\ k[t].todo = loc[t].todo /\ DOMAIN k = Task
      BY <1>1 DEF LocRecord
    <3> HIDE DEF k
    <3>4. loc'[t].done = Append(loc[t].done, Head(loc[t].planned)) /\ loc'[t].todo = loc[t].todo
      BY <3>2, <3>3
    <3> QED
      BY <3>1, <3>4, Zenon DEF Ways, AheadWay
  <2>9. CASE DialAheadFails(t)
    <3>1. pc[t] = "mg_ahead" /\ SameMap
      BY <2>9 DEF DialAheadFails, planeVars, SameMap
    <3>2. \/ Finish(t)
          \/ pc' = [pc EXCEPT ![t] = "rt_next"] /\ loc' = [loc EXCEPT ![t].planned = <<>>]
      BY <2>9 DEF DialAheadFails
    <3>3. loc' = [loc EXCEPT ![t].planned = <<>>] => SameLists(t)
      BY <1>1 DEF LocRecord, SameLists
    <3> QED
      BY <1>2, <1>4, <3>1, <3>2, <3>3 DEF Ways, AheadWay, EndWay, Way
  <2>10. CASE DialAheadDone(t)
    <3>1. Way(t, "mg_ahead", "rt_next") /\ SameLists(t) /\ SameMap
      BY <1>3, <2>10 DEF DialAheadDone, SameMap, planeVars, SameLists
    <3> QED
      BY <3>1, Zenon DEF Ways, AheadWay
  <2> QED
    BY <1>9, <2>1, <2>2, <2>3, <2>4, <2>5, <2>6, <2>7, <2>8, <2>9, <2>10 DEF MigrateStep
<1>10. CASE RetireStep(t)
  <2>1. CASE RetireNext(t)
    <3>0. pc[t] = "rt_next" /\ SameMap
      BY <2>1 DEF RetireNext, SameMap, planeVars
    <3> DEFINE l == loc[t]
               s == Head(l.todo)
    <3>1. CASE l.todo = <<>>
      <4>1. \/ Finish(t)
            \/ loc' = [loc EXCEPT ![t].todo = l.done, ![t].done = <<>>] /\ pc' = pc
        BY <2>1, <3>1 DEF RetireNext
      <4>2. loc' = [loc EXCEPT ![t].todo = l.done, ![t].done = <<>>] => loc'[t].todo = l.done /\ loc'[t].done = <<>>
        BY <1>1 DEF LocRecord
      <4> QED
        BY <1>4, <3>0, <3>1, <4>1, <4>2 DEF Ways, RetireWay, EndWay, Way
    <3>2. CASE l.todo # <<>>
      <4>1. \/ loc' = [loc EXCEPT ![t].todo = Tail(@)] /\ pc' = pc
            \/ loc' = [loc EXCEPT ![t].todo = Tail(@), ![t].done = Append(@, s)] /\ pc' = pc
            \/ /\ loc' = [loc EXCEPT ![t].todo = Tail(@), ![t].sid = s]
               /\ pc' = [pc EXCEPT ![t] = "rt_check"] /\ s \in SlotIds
        BY <2>1, <3>2 DEF RetireNext, OnSource, HasSlot
      <4>2. CASE loc' = [loc EXCEPT ![t].todo = Tail(@)] /\ pc' = pc
        <5>1. loc'[t].todo = Tail(l.todo) /\ loc'[t].done = l.done
          BY <1>1, <4>2 DEF LocRecord
        <5> QED
          BY <3>0, <3>2, <4>2, <5>1 DEF Ways, RetireWay, Way, NextOfList
      <4>3. CASE loc' = [loc EXCEPT ![t].todo = Tail(@), ![t].done = Append(@, s)] /\ pc' = pc
        <5>1. loc'[t].todo = Tail(l.todo) /\ loc'[t].done = Append(l.done, s)
          BY <1>1, <4>3 DEF LocRecord
        <5>2. NextOfList(t)
          BY <3>2, <5>1 DEF NextOfList
        <5> QED
          BY <3>0, <4>3, <5>2 DEF Ways, RetireWay, Way
      <4>4. CASE /\ loc' = [loc EXCEPT ![t].todo = Tail(@), ![t].sid = s]
                 /\ pc' = [pc EXCEPT ![t] = "rt_check"] /\ s \in SlotIds
        <5>1. loc'[t].todo = Tail(l.todo) /\ loc'[t].done = l.done /\ loc'[t].sid = s
          BY <1>1, <4>4 DEF LocRecord
        <5>2. Way(t, "rt_next", "rt_check")
          BY <1>2, <3>0, <4>4 DEF Way
        <5> QED
          BY <3>0, <3>2, <4>4, <5>1, <5>2 DEF Ways, RetireWay
      <4> QED
        BY <4>1, <4>2, <4>3, <4>4
    <3> QED
      BY <3>1, <3>2
  <2>2. CASE RetireCheck(t)
    <3>1. /\ Way(t, "rt_check", "rt_next") \/ Way(t, "rt_check", "rt_release")
          /\ loc' = loc /\ SameMap
      BY <1>3, <2>2 DEF RetireCheck, SameMap, planeVars
    <3> QED
      BY <3>1, Zenon DEF Ways, RetireWay
  <2>3. CASE RetireRelease(t)
    <3>1. Way(t, "rt_release", "rt_closing") /\ loc' = loc /\ Detach(t)
      BY <1>3, <2>3 DEF RetireRelease, Release, Detach
    <3> QED
      BY <3>1, Zenon DEF Ways, RetireWay
  <2>4. CASE RetireRemove(t)
    <3>1. Way(t, "rt_closing", "rt_next") /\ SameLists(t) /\ SameMap
      BY <1>3, <1>8, <2>4 DEF RetireRemove, SameMap
    <3> QED
      BY <3>1, Zenon DEF Ways, RetireWay
  <2> QED
    BY <1>10, <2>1, <2>2, <2>3, <2>4 DEF RetireStep
<1> QED
  BY <1>5, <1>6, <1>7, <1>9, <1>10 DEF TaskStep

-----------------------------------------------------------------------------
(* Make before break: the credits *)

\* A credit is a number.
LEMMA CreditNat ==
  ASSUME NEW p \in Growing, NEW l, RoundOf(p, l)
  PROVE  CreditOf(p, l) \in Nat
<1>1. IsSeq(l.done) => Len(l.done) \in Nat
  BY Lists
<1>2. IsSeq(l.todo) => Len(l.todo) \in Nat
  BY Lists
<1>3. CASE p \in {"mg_ahead", "mg_ahead_ready"}
  <2>1. Len(l.done) \in Nat
    BY <1>1, <1>3 DEF RoundOf
  <2>2. CreditOf(p, l) \in {Len(l.done), Len(l.done) + 1}
    BY <1>3, CreditValues, Zenon
  <2> QED
    BY <2>1, <2>2
<1>4. CASE p \in {"rt_next", "rt_closing", "rt_check", "rt_release"}
  <2>1. Len(l.done) \in Nat /\ Len(l.todo) \in Nat
    BY <1>1, <1>2, <1>4 DEF RoundOf
  <2>2. CreditOf(p, l) \in {Len(l.todo) + Len(l.done), Len(l.todo) + Len(l.done) + 1}
    BY <1>4, CreditValues, Zenon
  <2>3. \A a, b \in Nat : {a + b, a + b + 1} \subseteq Nat
    OBVIOUS
  <2> QED
    BY <2>1, <2>2, <2>3, Zenon
<1>5. CASE p \notin {"mg_ahead", "mg_ahead_ready", "rt_next", "rt_closing", "rt_check", "rt_release"}
  <2>1. CreditOf(p, l) \in {0, 1}
    BY <1>5, CreditValues, Zenon
  <2> QED
    BY <2>1
<1> QED
  BY <1>3, <1>4, <1>5

\* What a task's way does to its lists and its credit: the credit grows by one
\* at most, with a dial, and shrinks by one with a release.
Settled(t) ==
    /\ pc'[t] \in Growing /\ pc'[t] # "rc_sched" /\ RoundOf(pc'[t], loc'[t])
    /\ \/ SameMap /\ CreditOf(pc'[t], loc'[t]) <= CreditOf(pc[t], loc[t])
       \/ DialFresh /\ CreditOf(pc'[t], loc'[t]) <= CreditOf(pc[t], loc[t]) + 1
       \/ /\ Detach(t) /\ pc[t] \in {"mg_release", "rt_release"}
          /\ CreditOf(pc[t], loc[t]) >= 1
          /\ CreditOf(pc'[t], loc'[t]) <= CreditOf(pc[t], loc[t]) - 1

LEMMA WayCredit ==
  ASSUME NEW t \in Task, Ways(t), pc[t] \in Growing, RoundOf(pc[t], loc[t])
  PROVE  Settled(t)
<1> DEFINE l == loc[t]
           m == loc'[t]
           c == CreditOf(pc[t], l)
           d == CreditOf(pc'[t], m)
<1>0. c \in Nat
  BY CreditNat
<1>1. CASE EndWay(t)
  <2>1. d = 0 /\ pc'[t] = "idle" /\ RoundOf(pc'[t], m)
    BY <1>1, CreditValues DEF EndWay, Growing, RoundOf
  <2> QED
    BY <1>0, <1>1, <2>1 DEF EndWay, Growing, Settled
<1>2. CASE ScaleWay(t)
  <2>1. d = 0 /\ c = 0 /\ pc'[t] \in Scaling /\ RoundOf(pc'[t], m)
    BY <1>2, CreditValues DEF ScaleWay, Growing, RoundOf, Scaling
  <2> QED
    BY <1>2, <2>1 DEF ScaleWay, Growing, Scaling, Settled
<1>3. CASE MigrateWay(t)
  <2> DEFINE Before == {"mg_next", "mg_dial", "mg_closing", "mg_ready"}
  <2>1. CASE pc[t] \in Before /\ pc'[t] \in Before /\ SameMap /\ m.done = l.done
    <3>1. d = 0 /\ c = 0
      BY <2>1, CreditValues DEF Growing
    <3>2. RoundOf(pc'[t], m)
      BY <2>1 DEF RoundOf
    <3> QED
      BY <2>1, <3>1, <3>2 DEF Growing, Settled
  <2>2. CASE Way(t, "mg_next", "mg_ahead") /\ loc' = loc /\ l.todo = <<>> /\ SameMap
    <3>1. l.done = <<>> /\ m = l
      BY <2>2 DEF RoundOf, Way
    <3>2. d = 0 /\ c = 0 /\ RoundOf(pc'[t], m)
      BY <2>2, <3>1, CreditValues, Lists DEF Growing, Way, RoundOf
    <3> QED
      BY <2>2, <3>2 DEF Growing, Settled, Way
  <2>3. CASE Way(t, "mg_dial", "mg_release") /\ m.done = l.done /\ DialFresh
    <3>1. d = 1 /\ c = 0 /\ RoundOf(pc'[t], m)
      BY <2>3, CreditValues DEF Growing, Way, RoundOf
    <3> QED
      BY <2>3, <3>1 DEF Growing, Settled, Way
  <2>4. CASE Way(t, "mg_release", "mg_closing") /\ loc' = loc /\ Detach(t)
    <3>1. d = 0 /\ c = 1 /\ RoundOf(pc'[t], m)
      BY <2>4, CreditValues DEF Growing, Way, RoundOf
    <3> QED
      BY <2>4, <3>1 DEF Growing, Settled, Way
  <2> QED
    BY <1>3, <2>1, <2>2, <2>3, <2>4 DEF MigrateWay, Way
<1>4. CASE AheadWay(t)
  <2>1. pc[t] \in {"mg_ahead", "mg_ahead_ready"} /\ IsSeq(l.done) /\ l.todo = <<>>
    BY <1>4 DEF AheadWay, Way, RoundOf
  <2>2. Len(l.done) \in Nat /\ Len(l.todo) = 0 /\ IsSeq(l.todo)
    BY <2>1, Lists
  <2>3. CASE Way(t, "mg_ahead", "mg_ahead_ready") /\ SameLists(t) /\ DialFresh
    <3>0. c = Len(l.done) /\ d = Len(m.done) + 1 /\ m.done = l.done
      BY <2>3, CreditValues, Zenon DEF Way, SameLists
    <3>1. d = c + 1 /\ RoundOf(pc'[t], m)
      BY <2>1, <2>3, <3>0 DEF Way, RoundOf, SameLists
    <3> QED
      BY <1>0, <2>3, <3>1 DEF Growing, Settled, Way
  <2>4. ASSUME NEW x, Way(t, "mg_ahead_ready", "mg_ahead"), m.todo = l.todo, m.done = Append(l.done, x), SameMap
        PROVE  Settled(t)
    <3>1. IsSeq(m.done) /\ Len(m.done) = Len(l.done) + 1
      BY <2>1, <2>4, Lists
    <3>0. c = Len(l.done) + 1 /\ d = Len(m.done)
      BY <2>4, CreditValues, Zenon DEF Way
    <3>2. d = c /\ RoundOf(pc'[t], m)
      BY <2>1, <2>4, <3>0, <3>1 DEF Way, RoundOf
    <3> QED
      BY <1>0, <2>4, <3>2 DEF Growing, Settled, Way
  <2>5. CASE Way(t, "mg_ahead", "rt_next") /\ SameLists(t) /\ SameMap
    <3>0. c = Len(l.done) /\ d = Len(m.todo) + Len(m.done) /\ m.done = l.done /\ m.todo = l.todo
      BY <2>5, CreditValues, Zenon DEF Way, SameLists
    <3>1. d = c /\ RoundOf(pc'[t], m)
      BY <2>1, <2>2, <2>5, <3>0 DEF Way, RoundOf
    <3> QED
      BY <1>0, <2>5, <3>1 DEF Growing, Settled, Way
  <2> QED
    BY <1>4, <2>3, <2>4, <2>5 DEF AheadWay
<1>5. CASE RetireWay(t)
  <2> DEFINE Round == {"rt_next", "rt_check", "rt_release", "rt_closing"}
  <2>1. pc[t] \in Round /\ pc'[t] \in Round /\ IsSeq(l.done) /\ IsSeq(l.todo)
    BY <1>5 DEF RetireWay, Way, RoundOf
  <2>2. Len(l.done) \in Nat /\ Len(l.todo) \in Nat
    BY <2>1, Lists
  <2>3. ASSUME IsSeq(m.done), IsSeq(m.todo), d <= c, SameMap PROVE Settled(t)
    BY <2>1, <2>3 DEF Settled, Growing, RoundOf
  <2>4. CASE Way(t, "rt_next", "rt_next") /\ l.todo = <<>> /\ m.todo = l.done /\ m.done = <<>> /\ SameMap
    <3>0. c = Len(l.todo) + Len(l.done) /\ d = Len(m.todo) + Len(m.done)
      BY <2>4, CreditValues, Zenon DEF Way
    <3>1. Len(l.todo) = 0 /\ Len(m.done) = 0 /\ m.todo = l.done /\ IsSeq(m.done) /\ IsSeq(m.todo)
      BY <2>1, <2>4, Lists
    <3>2. d <= c
      BY <2>2, <3>0, <3>1
    <3> QED
      BY <2>3, <2>4, <3>1, <3>2
  <2>5. CASE Way(t, "rt_next", "rt_next") /\ NextOfList(t) /\ SameMap
    <3>1. IsSeq(m.todo) /\ Len(m.todo) = Len(l.todo) - 1
      BY <2>1, <2>5, Lists DEF NextOfList
    <3>2. IsSeq(m.done) /\ Len(m.done) \in {Len(l.done), Len(l.done) + 1}
      BY <2>1, <2>5, Lists DEF NextOfList
    <3>0. c = Len(l.todo) + Len(l.done) /\ d = Len(m.todo) + Len(m.done)
      BY <2>5, CreditValues, Zenon DEF Way
    <3>3. \A a, b \in Nat : \A y \in {b, b + 1} : (a - 1) + y <= a + b
      OBVIOUS
    <3>4. d <= c
      BY <2>2, <3>0, <3>1, <3>2, <3>3, Zenon
    <3> QED
      BY <2>3, <2>5, <3>1, <3>2, <3>4
  <2>6. CASE /\ Way(t, "rt_next", "rt_check") /\ l.todo # <<>> /\ m.todo = Tail(l.todo)
             /\ m.done = l.done /\ SameMap
    <3>1. IsSeq(m.todo) /\ Len(m.todo) = Len(l.todo) - 1
      BY <2>1, <2>6, Lists
    <3>0. c = Len(l.todo) + Len(l.done) /\ d = Len(m.todo) + Len(m.done) + 1 /\ m.done = l.done
      BY <2>6, CreditValues, Zenon DEF Way
    <3>2. d <= c
      BY <2>2, <3>0, <3>1
    <3> QED
      BY <2>1, <2>3, <2>6, <3>1, <3>2
  <2>7. CASE /\ Way(t, "rt_check", "rt_next") \/ Way(t, "rt_check", "rt_release")
             /\ loc' = loc /\ SameMap
    <3>0. /\ c = Len(l.todo) + Len(l.done) + 1
          /\ d \in {Len(l.todo) + Len(l.done), Len(l.todo) + Len(l.done) + 1}
      BY <2>7, CreditValues, Zenon DEF Way
    <3>1. \A a, b \in Nat : \A x \in {a + b, a + b + 1} : x <= a + b + 1
      OBVIOUS
    <3>2. d <= c
      BY <2>2, <3>0, <3>1, Zenon
    <3> QED
      BY <2>1, <2>3, <2>7, <3>2
  <2>8. CASE Way(t, "rt_release", "rt_closing") /\ loc' = loc /\ Detach(t)
    <3>0. c = Len(l.todo) + Len(l.done) + 1 /\ d = Len(l.todo) + Len(l.done)
      BY <2>8, CreditValues, Zenon DEF Way
    <3>1. \A a, b \in Nat : a + b + 1 >= 1 /\ a + b <= (a + b + 1) - 1
      OBVIOUS
    <3>2. c >= 1 /\ d <= c - 1
      BY <2>2, <3>0, <3>1, Zenon
    <3>3. RoundOf(pc'[t], m)
      BY <2>1, <2>8 DEF Way, RoundOf
    <3> QED
      BY <2>8, <3>2, <3>3 DEF Growing, Settled, Way
  <2>9. CASE Way(t, "rt_closing", "rt_next") /\ SameLists(t) /\ SameMap
    <3>0. /\ c = Len(l.todo) + Len(l.done) /\ d = Len(m.todo) + Len(m.done)
          /\ m.todo = l.todo /\ m.done = l.done
      BY <2>9, CreditValues, Zenon DEF Way, SameLists
    <3>1. d <= c
      BY <2>2, <3>0
    <3> QED
      BY <2>1, <2>3, <2>9, <3>1 DEF SameLists
  <2> QED
    BY <1>5, <2>4, <2>5, <2>6, <2>7, <2>8, <2>9 DEF RetireWay
<1> QED
  BY <1>1, <1>2, <1>3, <1>4, <1>5 DEF Ways

-----------------------------------------------------------------------------
(* Make before break: the slots and the workers *)

\* No worker leaves the transport in the map but those of the sessions S.
OffOnly(S) ==
    \A w \in Worker :
        worker'[w].st \in {"poll", "work"} /\ worker'[w].link # Current =>
            /\ worker[w].st \in {"poll", "work"} /\ worker'[w].sid = worker[w].sid
            /\ worker[w].link # Current \/ worker[w].sid \in S

\* What the steps of the workers' side do to that.
LEMMA OffSteps ==
  ASSUME PlaneShape, NEW t \in Task, NEW s
  PROVE  /\ UNCHANGED worker => OffOnly({})
         /\ StopAndDetach(t, s) => OffOnly({s})
         /\ CloseDetached(t) => OffOnly({})
         /\ EnsureStarted(s) /\ conn[s] \in {"none", "open"} => OffOnly({})
<1>1. UNCHANGED worker => OffOnly({})
  BY DEF OffOnly
<1>2. ASSUME StopAndDetach(t, s) PROVE OffOnly({s})
  <2> DEFINE V(w) == IF w = registry[s] THEN Stopped(w) ELSE worker[w]
             R(w) == IF V(w).sid = s /\ V(w).link = Current THEN [V(w) EXCEPT !.link = t] ELSE V(w)
  <2>1. worker' = [w \in Worker |-> R(w)]
    BY <1>2 DEF StopAndDetach
  <2>2. ASSUME NEW w \in Worker
        PROVE  /\ V(w) \in WorkerRecord
               /\ V(w).st \in {"poll", "work"} => /\ V(w).st = worker[w].st /\ V(w).sid = worker[w].sid
                                                  /\ V(w).link = worker[w].link
    <3>1. CASE w = registry[s]
      BY <3>1, Stopping
    <3>2. CASE w # registry[s]
      BY <3>2 DEF PlaneShape
    <3> QED
      BY <3>1, <3>2
  <2> HIDE DEF V
  <2>3. ASSUME NEW w \in Worker
        PROVE  /\ R(w).st = V(w).st /\ R(w).sid = V(w).sid
               /\ R(w).link # Current => V(w).link # Current \/ V(w).sid = s
    BY <2>2 DEF WorkerRecord
  <2> HIDE DEF R
  <2>4. \A w \in Worker : worker'[w] = R(w)
    BY <2>1
  <2> QED
    BY <2>2, <2>3, <2>4 DEF OffOnly
<1>3. ASSUME CloseDetached(t) PROVE OffOnly({})
  <2> SUFFICES ASSUME NEW w \in Worker, worker'[w].st \in {"poll", "work"}, worker'[w].link # Current
               PROVE  /\ worker[w].st \in {"poll", "work"} /\ worker'[w].sid = worker[w].sid
                      /\ worker[w].link # Current
    BY DEF OffOnly
  <2>1. worker'[w] = IF worker[w].link = t THEN [worker[w] EXCEPT !.link = Dead] ELSE worker[w]
    BY <1>3 DEF CloseDetached
  <2>2. worker[w] \in WorkerRecord
    BY DEF PlaneShape
  <2> QED
    BY <2>1, <2>2, LinkFacts DEF WorkerRecord
<1>4. ASSUME EnsureStarted(s), conn[s] \in {"none", "open"} PROVE OffOnly({})
  <2> DEFINE r == [st |-> "poll", sid |-> s, busy |-> FALSE, stop |-> FALSE,
                   link |-> IF conn[s] = "open" THEN Current ELSE Dead]
  <2>1. CASE UNCHANGED worker
    BY <1>1, <2>1
  <2>2. CASE ~UNCHANGED worker
    <3>1. conn[s] = "open" /\ \E w \in Worker : worker' = [worker EXCEPT ![w] = r]
      BY <1>4, <2>2 DEF EnsureStarted
    <3>2. r.link = Current
      BY <3>1
    <3> HIDE DEF r
    <3>3. PICK w \in Worker : worker'[w] = r /\ \A v \in Worker : v # w => worker'[v] = worker[v]
      BY <3>1 DEF PlaneShape
    <3> QED
      BY <3>2, <3>3 DEF OffOnly
  <2> QED
    BY <2>1, <2>2
<1> QED
  BY <1>1, <1>2, <1>3, <1>4

\* A worker's own step leaves its transport as it is.
LEMMA OffWork ==
  ASSUME PlaneShape, NEW w \in Worker, WorkerStep(w)
  PROVE  OffOnly({})
<1>1. worker[w] \in WorkerRecord /\ FreeWorker.st = "free"
  BY LinkFacts DEF PlaneShape
<1>2. ASSUME NEW r, worker' = [worker EXCEPT ![w] = r],
             r.st \in {"poll", "work"} => r.link = worker[w].link /\ r.sid = worker[w].sid /\ worker[w].st \in {"poll", "work"}
      PROVE  OffOnly({})
  <2>1. worker'[w] = r /\ \A v \in Worker : v # w => worker'[v] = worker[v]
    BY <1>2 DEF PlaneShape
  <2> QED
    BY <1>2, <2>1 DEF OffOnly
<1>3. CASE Exit(w)
  <2> DEFINE x == [worker[w] EXCEPT !.st = "exited"]
  <2>1. x.st = "exited"
    BY <1>1 DEF WorkerRecord
  <2>2. worker' = [worker EXCEPT ![w] = x] \/ worker' = [worker EXCEPT ![w] = FreeWorker]
    BY <1>3 DEF Exit
  <2> HIDE DEF x
  <2> QED
    BY <1>1, <1>2, <2>1, <2>2
<1>4. CASE /\ worker[w].st \in {"poll", "work"}
           /\ \/ worker' = [worker EXCEPT ![w].st = "work", ![w].busy = TRUE]
              \/ worker' = [worker EXCEPT ![w].st = "poll", ![w].busy = FALSE]
              \/ worker' = [worker EXCEPT ![w].st = "poll"]
  <2> DEFINE x(st, b) == [worker[w] EXCEPT !.st = st, !.busy = b]
  <2>1. \A st, b : x(st, b).link = worker[w].link /\ x(st, b).sid = worker[w].sid
    BY <1>1 DEF WorkerRecord
  <2>2. \/ worker' = [worker EXCEPT ![w] = x("work", TRUE)]
        \/ worker' = [worker EXCEPT ![w] = x("poll", FALSE)]
        \/ worker' = [worker EXCEPT ![w] = x("poll", worker[w].busy)]
    BY <1>1, <1>4 DEF PlaneShape, WorkerRecord
  <2> HIDE DEF x
  <2>3. ASSUME NEW st, NEW b, worker' = [worker EXCEPT ![w] = x(st, b)] PROVE OffOnly({})
    <3>1. x(st, b).link = worker[w].link /\ x(st, b).sid = worker[w].sid
      BY <2>1
    <3> QED
      BY <1>2, <1>4, <2>3, <3>1
  <2> QED
    BY <2>2, <2>3
<1> QED
  BY <1>3, <1>4 DEF WorkerStep, WorkerTakesWork, WorkerDone, WorkerPostFails, WorkerStops, WorkerLost

\* What the steps on the slots do to the live ones.
LEMMA LiveSteps ==
  ASSUME PoolShape, SlotsOnce, NEW s \in Session
  PROVE  /\ UNCHANGED <<slots, suppress>> => Live' = Live
         /\ \A g : PushSlot(s, g) => Live' \subseteq Live \cup {s}
         /\ RemoveSlot(s) => Live' \subseteq Live
         /\ SuppressReconnect(s) /\ UNCHANGED slots => Live' \subseteq Live \ {s}
<1>0. SlotIds \subseteq Session /\ slots \in Seq(Session) /\ suppress \in [Session -> BOOLEAN]
  BY DEF PoolShape, SlotIds
<1>1. UNCHANGED <<slots, suppress>> => Live' = Live
  BY DEF Live, SlotIds
<1>2. ASSUME NEW g, PushSlot(s, g) PROVE Live' \subseteq Live \cup {s}
  <2>1. SlotIds' = SlotIds \cup {s}
    BY <1>0, <1>2, Pushed DEF PushSlot
  <2>2. \A r \in Session : r # s => suppress'[r] = suppress[r]
    BY <1>0, <1>2 DEF PushSlot
  <2> QED
    BY <1>0, <2>1, <2>2, Zenon DEF Live
<1>3. ASSUME RemoveSlot(s) PROVE Live' \subseteq Live
  <2>1. SlotIds' = SlotIds \ {s}
    BY <1>0, <1>3, Removed DEF RemoveSlot
  <2>2. \A r \in Session : r # s => suppress'[r] = suppress[r]
    BY <1>0, <1>3 DEF RemoveSlot
  <2> QED
    BY <1>0, <2>1, <2>2, Zenon DEF Live
<1>4. ASSUME SuppressReconnect(s), UNCHANGED slots PROVE Live' \subseteq Live \ {s}
  <2>1. SlotIds' = SlotIds
    BY <1>4 DEF SlotIds
  <2>2. \A r \in Session : r # s => suppress'[r] = suppress[r]
    BY <1>0, <1>4 DEF SuppressReconnect
  <2>3. s \in SlotIds => suppress'[s]
    BY <1>0, <1>4 DEF SuppressReconnect, HasSlot
  <2> QED
    BY <1>0, <2>1, <2>2, <2>3, Zenon DEF Live
<1> QED
  BY <1>1, <1>2, <1>3, <1>4

\* What a task's step does to the map, the live slots and the workers.
Effect(t) ==
    \/ SameMap /\ Live' \subseteq Live \cup Replacements /\ OffOnly({})
    \/ DialFresh /\ Live' \subseteq Live \cup {Mint} /\ OffOnly({})
    \/ /\ pc[t] \in {"mg_release", "rt_release"} /\ Detach(t)
       /\ Live' \subseteq Live \ {loc[t].sid} /\ OffOnly({loc[t].sid})

\* The replacement takes the slot, or one at the end, or none.
LEMMA SwapLive ==
  ASSUME IInv, NEW t \in Task, MigrateSwap(t)
  PROVE  Live' \subseteq Live \cup Replacements
<1> DEFINE l == loc[t]
<1>0. /\ PoolShape /\ Claims /\ SlotIds \subseteq Session /\ slots \in Seq(Session)
      /\ suppress \in [Session -> BOOLEAN]
  BY DEF IInv, PoolShape, SlotIds
<1>1. Swapping(t)
  BY DEF MigrateSwap, Goto, Swapping
<1>2. l.new \in 1 .. minted /\ l.new \notin SlotIds /\ l.new \in Replacements
  BY <1>0, <1>1 DEF Claims, ReplacementUnused, Replacements
<1>3. l.new \in Session
  BY <1>0, <1>2, PoolAssumption DEF PoolShape, Session
<1>4. SlotsOnce
  BY <1>0 DEF Claims
<1> HIDE DEF l
<1>5. CASE /\ l.n \in DOMAIN slots /\ slots[l.n] = l.sid
           /\ slots' = [slots EXCEPT ![l.n] = l.new]
           /\ suppress' = [suppress EXCEPT ![l.new] = FALSE, ![l.sid] = FALSE]
  <2>1. SlotIds' = (SlotIds \ {l.sid}) \cup {l.new}
    BY <1>0, <1>2, <1>3, <1>4, <1>5, Swapped
  <2>2. \A r \in Session : r # l.new /\ r # l.sid => suppress'[r] = suppress[r]
    BY <1>0, <1>5
  <2> QED
    BY <1>0, <1>2, <2>1, <2>2, Zenon DEF Live
<1>6. CASE PushSlot(l.new, l.gw)
  <2>1. Live' \subseteq Live \cup {l.new}
    BY <1>0, <1>3, <1>4, <1>6, LiveSteps
  <2> QED
    BY <1>2, <2>1
<1>7. CASE UNCHANGED <<slots, suppress>>
  <2>1. Live' = Live
    BY <1>0, <1>3, <1>4, <1>7, LiveSteps
  <2> QED
    BY <2>1
<1> QED
  BY <1>5, <1>6, <1>7 DEF MigrateSwap, l

\* Every step of a task in a pool that only grows or migrates has one of these
\* effects.
LEMMA TaskEffect ==
  ASSUME IInv, ClaimableOpen, PickedHadSlot, NEW t \in Task, TaskStep(t), pc[t] \in Growing,
         pc[t] = "rc_sched" => loc[t].sid \notin Live
  PROVE  Effect(t)
<1>0. PoolShape /\ PlaneShape /\ TaskShape /\ SlotsOnce /\ Claims /\ NewMinted /\ minted \in 0 .. MaxSession
  BY DEF IInv, Claims, Links, PoolShape
<1>1. \A r : r \in 1 .. minted => r \in Session
  BY <1>0, PoolAssumption DEF Session
<1>2. ASSUME UNCHANGED <<slots, suppress>> PROVE Live' = Live
  BY <1>2 DEF Live, SlotIds
<1>3. CASE UNCHANGED <<slots, suppress>> /\ SameMap /\ OffOnly({})
  BY <1>2, <1>3 DEF Effect
<1>4. CASE UNCHANGED <<slots, suppress>> /\ UNCHANGED planeVars
  <2>1. SameMap /\ OffOnly({})
    BY <1>0, <1>4, OffSteps DEF SameMap, planeVars
  <2> QED
    BY <1>3, <1>4, <2>1
<1>5. ASSUME NEW g, DialFresh, PushSlot(Mint, g), UNCHANGED worker PROVE Effect(t)
  <2>1. Mint \in Session
    BY <1>0, <1>5, Minting
  <2>2. Live' \subseteq Live \cup {Mint}
    BY <1>0, <1>5, <2>1, LiveSteps
  <2>3. OffOnly({})
    BY <1>0, <1>5, OffSteps
  <2> QED
    BY <1>5, <2>2, <2>3 DEF Effect
<1>6. CASE /\ pc[t] \in {"sc_ready", "mg_ready", "mg_ahead_ready"} /\ EnsureStarted(loc[t].new)
           /\ UNCHANGED <<poolVars, conn, minted>>
  <2>1. loc[t].new \in Session
    BY <1>0, <1>1, <1>6 DEF NewMinted
  <2>2. conn[loc[t].new] \in {"none", "open"}
    BY <1>0, <2>1 DEF ClaimableOpen, PlaneShape
  <2>3. OffOnly({})
    BY <1>0, <1>6, <2>2, OffSteps
  <2>4. UNCHANGED <<slots, suppress>> /\ SameMap
    BY <1>6 DEF poolVars, SameMap
  <2> QED
    BY <1>3, <2>3, <2>4
<1>7. CASE pc[t] \in {"mg_release", "rt_release"} /\ Release(t, loc[t].sid)
  <2>1. loc[t].sid \in Session
    BY <1>1, <1>7 DEF PickedHadSlot, Picking
  <2>2. /\ SuppressReconnect(loc[t].sid) /\ UNCHANGED slots /\ StopAndDetach(t, loc[t].sid)
        /\ UNCHANGED minted
    BY <1>7 DEF Release
  <2>3. Live' \subseteq Live \ {loc[t].sid}
    BY <1>0, <2>1, <2>2, LiveSteps
  <2>4. OffOnly({loc[t].sid})
    BY <1>0, <2>2, OffSteps
  <2> QED
    BY <1>7, <2>2, <2>3, <2>4 DEF Effect, Detach
<1>8. CASE ReconnectStep(t)
  <2>1. pc[t] = "rc_sched" /\ ReconnectClaim(t)
    BY <1>8 DEF ReconnectStep, ReconnectClaim, ReconnectBegin, ReconnectTornDown,
          ReconnectDialOk, ReconnectDialFails, ReconnectReady, Goto, Growing
  <2>2. UNCHANGED <<slots, suppress>> /\ UNCHANGED planeVars
    BY <2>1 DEF ReconnectClaim
  <2> QED
    BY <1>4, <2>2
<1>9. CASE DrainStep(t) \/ CloseEnd(t)
  BY <1>9 DEF DrainStep, DrainNext, DrainRelease, DrainRemove, CloseEnd, Goto, Growing
<1>10. CASE ScaleStep(t)
  <2>1. CASE ScaleNext(t) \/ ScaleDialFails(t)
    BY <1>4, <2>1 DEF ScaleNext, ScaleDialFails, poolVars
  <2>2. CASE ScaleDialOk(t)
    BY <1>5, <2>2 DEF ScaleDialOk
  <2>3. CASE ScaleReady(t)
    BY <1>6, <2>3 DEF ScaleReady, Goto
  <2> QED
    BY <1>10, <2>1, <2>2, <2>3 DEF ScaleStep
<1>11. CASE MigrateStep(t)
  <2>1. CASE MigrateNext(t) \/ MigrateDialFails(t) \/ DialAheadFails(t) \/ DialAheadDone(t)
    BY <1>4, <2>1 DEF MigrateNext, MigrateDialFails, DialAheadFails, DialAheadDone, poolVars
  <2>2. CASE MigrateDialOk(t)
    <3>1. DialFresh /\ UNCHANGED <<slots, suppress>> /\ UNCHANGED worker
      BY <2>2 DEF MigrateDialOk, poolVars
    <3>2. OffOnly({})
      BY <1>0, <3>1, OffSteps
    <3> QED
      BY <1>2, <3>1, <3>2 DEF Effect
  <2>3. CASE MigrateRelease(t)
    BY <1>7, <2>3 DEF MigrateRelease, Goto
  <2>4. CASE MigrateSwap(t)
    <3>1. CloseDetached(t) /\ SameMap
      BY <2>4 DEF MigrateSwap, SameMap
    <3>2. OffOnly({})
      BY <1>0, <3>1, OffSteps
    <3> QED
      BY <2>4, <3>1, <3>2, SwapLive DEF Effect
  <2>5. CASE MigrateReady(t) \/ DialAheadReady(t)
    BY <1>6, <2>5 DEF MigrateReady, DialAheadReady, Goto
  <2>6. CASE DialAheadOk(t)
    BY <1>5, <2>6 DEF DialAheadOk
  <2> QED
    BY <1>11, <2>1, <2>2, <2>3, <2>4, <2>5, <2>6 DEF MigrateStep
<1>12. CASE RetireStep(t)
  <2>1. CASE RetireNext(t) \/ RetireCheck(t)
    BY <1>4, <2>1 DEF RetireNext, RetireCheck, poolVars
  <2>2. CASE RetireRelease(t)
    BY <1>7, <2>2 DEF RetireRelease, Goto
  <2>3. CASE RetireRemove(t)
    <3>1. pc[t] = "rt_closing" /\ CloseDetached(t) /\ SameMap /\ RemoveSlot(loc[t].sid)
      BY <2>3 DEF RetireRemove, SameMap, Goto
    <3>2. OffOnly({})
      BY <1>0, <3>1, OffSteps
    <3>3. loc[t].sid \in Session
      BY <1>1, <3>1 DEF PickedHadSlot, Picking
    <3>4. Live' \subseteq Live
      BY <1>0, <3>1, <3>3, LiveSteps
    <3> QED
      BY <3>1, <3>2, <3>4 DEF Effect
  <2> QED
    BY <1>12, <2>1, <2>2, <2>3 DEF RetireStep
<1> QED
  BY <1>8, <1>9, <1>10, <1>11, <1>12 DEF TaskStep

\* Where a replacement and a session to release come from.
LEMMA WayPicks ==
  ASSUME NEW t \in Task, Ways(t)
  PROVE  /\ Swapping(t)' => \/ DialFresh /\ loc'[t].new = Mint
                            \/ Swapping(t) /\ loc'[t].new = loc[t].new
         /\ pc'[t] \in Picking => \/ loc'[t].sid \in SlotIds
                                  \/ pc[t] \in Picking /\ loc'[t].sid = loc[t].sid
<1>1. CASE EndWay(t)
  BY <1>1 DEF EndWay, Swapping, Picking
<1>2. CASE ScaleWay(t)
  BY <1>2 DEF ScaleWay, Scaling, Swapping, Picking
<1>3. CASE MigrateWay(t)
  BY <1>3 DEF MigrateWay, Way, Swapping, Picking
<1>4. CASE AheadWay(t)
  BY <1>4 DEF AheadWay, Way, Swapping, Picking
<1>5. CASE RetireWay(t)
  BY <1>5 DEF RetireWay, Way, Swapping, Picking
<1> QED
  BY <1>1, <1>2, <1>3, <1>4, <1>5 DEF Ways

\* The sessions are finitely many.
LEMMA OpenFinite ==
  IsFiniteSet(Open) /\ IsFiniteSet(Open')
<1>1. IsFiniteSet(1 .. MaxSession)
  BY FS_Interval, PoolAssumption
<1>2. Open \subseteq 1 .. MaxSession /\ Open' \subseteq 1 .. MaxSession
  BY DEF Open, Session
<1> QED
  BY <1>1, <1>2, FS_Subset

\* The balance after a task's step.
LEMMA TaskBalance ==
  ASSUME PoolShape, PlaneShape, Claims, ClaimableOpen, Rounds, Balanced, OnlyGrows,
         NEW t \in Task, Settled(t),
         \A u \in Task : u # t => pc'[u] = pc[u] /\ loc'[u] = loc[u]
  PROVE  Balanced'
<1> DEFINE c == CreditOf(pc[t], loc[t])
           d == CreditOf(pc'[t], loc'[t])
<1>0. IsFiniteSet(Open) /\ IsFiniteSet(Open') /\ IsFiniteSet(Credits) /\ Cardinality(Open) >= Boot + Cardinality(Credits)
  BY OpenFinite DEF Balanced
<1>1. c \in Nat /\ d \in Nat
  <2>1. pc[t] \in Growing /\ RoundOf(pc[t], loc[t])
    BY DEF OnlyGrows, Rounds
  <2>2. pc'[t] \in Growing /\ RoundOf(pc'[t], loc'[t])
    BY DEF Settled
  <2> QED
    BY <2>1, <2>2, CreditNat
<1> HIDE DEF c, d
<1>2. \A x \in Credits' : x \in Task \X Nat /\ (x \in Credits \/ (x[1] = t /\ x[2] \in 1 .. d))
  BY DEF Credits, d
<1>3. \A x \in Task \X Nat : x[1] = t => (x \in Credits <=> x[2] \in 1 .. c)
  BY DEF Credits, c
<1>3a. \A x \in Task \X Nat : x[1] = t => (x \in Credits' <=> x[2] \in 1 .. d)
  BY DEF Credits, d
<1>3b. \A x \in Task \X Nat : x[1] = t => x = <<t, x[2]>> /\ x[2] \in Nat
  OBVIOUS
<1>4. CASE SameMap /\ d <= c
  <2>1. Open' = Open
    BY <1>4 DEF Open, SameMap
  <2>2. Credits' \subseteq Credits
    BY <1>1, <1>2, <1>3, <1>4
  <2> QED
    BY <1>0, <2>1, <2>2, Balance DEF Balanced
<1>5. CASE DialFresh /\ d <= c + 1
  <2>1. Mint \in Session /\ conn[Mint] = "none" /\ conn' = [conn EXCEPT ![Mint] = "open"]
    <3>1. Mint \in Session /\ Mint = minted + 1 /\ minted \in Nat
      BY <1>5, Minting, PoolAssumption DEF PoolShape
    <3>2. Mint > minted
      BY <3>1
    <3> QED
      BY <1>5, <3>1, <3>2 DEF ClaimableOpen, DialFresh
  <2>2. Mint \notin Open /\ Open' = Open \cup {Mint}
    BY <2>1 DEF Open, PlaneShape
  <2>3. Credits' \subseteq Credits \cup {<<t, c + 1>>}
    <3> SUFFICES ASSUME NEW x \in Credits', x \notin Credits PROVE x = <<t, c + 1>>
      OBVIOUS
    <3>1. x \in Task \X Nat /\ x[1] = t /\ x[2] \in 1 .. d /\ x[2] \notin 1 .. c /\ x = <<t, x[2]>>
      BY <1>2, <1>3, <1>3b
    <3>2. x[2] = c + 1
      BY <1>1, <1>5, <3>1
    <3> QED
      BY <3>1, <3>2, Zenon
  <2>4. \E x, y : x \notin Open /\ Open' = Open \cup {x} /\ Credits' \subseteq Credits \cup {y}
    BY <2>2, <2>3, Zenon
  <2>5. IsFiniteSet(Credits') /\ Cardinality(Open') >= Boot + Cardinality(Credits')
    BY <1>0, <2>4, Balance, Zenon
  <2> QED
    BY <2>5 DEF Balanced
<1>6. CASE Detach(t) /\ c >= 1 /\ d <= c - 1
  <2>1. Open \ {loc[t].sid} \subseteq Open'
    <3>1. \A r \in Session : conn'[r] = IF r = loc[t].sid THEN "none" ELSE conn[r]
      BY <1>6, Detaching DEF Detach
    <3> QED
      BY <3>1 DEF Open
  <2>2. <<t, c>> \in Task \X Nat /\ <<t, c>>[1] = t /\ <<t, c>>[2] = c
    BY <1>1
  <2>3. c \in 1 .. c /\ c \notin 1 .. d
    BY <1>1, <1>6
  <2>4. <<t, c>> \in Credits /\ <<t, c>> \notin Credits'
    BY <1>3, <1>3a, <2>2, <2>3, Zenon
  <2>5. Credits' \subseteq Credits
    BY <1>1, <1>2, <1>3, <1>6
  <2>6. Credits' \subseteq Credits \ {<<t, c>>}
    BY <2>4, <2>5, Zenon
  <2> QED
    BY <1>0, <2>1, <2>4, <2>6, Balance DEF Balanced
<1> QED
  BY <1>4, <1>5, <1>6 DEF Settled, c, d

-----------------------------------------------------------------------------
(* Make before break: the steps *)

\* A task's step keeps make-before-break.
LEMMA TaskMakes ==
  ASSUME MInv, NEW t \in Task, TaskStep(t)
  PROVE  OnlyGrows' /\ ClaimableOpen' /\ GivenUp' /\ PickedHadSlot' /\ Rounds' /\ Balanced'
<1>0. /\ IInv /\ OnlyGrows /\ ClaimableOpen /\ GivenUp /\ PickedHadSlot /\ Rounds /\ Balanced
      /\ PoolShape /\ PlaneShape /\ TaskShape /\ Claims
  BY DEF MInv, IInv
<1>1. PoolShape' /\ minted \in Nat /\ minted' \in Nat /\ minted <= minted'
  <2>1. [Next]_vars
    BY DEF Next
  <2>2. PoolShape'
    BY <1>0, <2>1, StepClaims
  <2>3. minted <= minted'
    BY <1>0, <2>2, TaskPlane
  <2>4. minted \in Nat /\ minted' \in Nat
    BY <1>0, <2>2, PoolAssumption DEF PoolShape
  <2> QED
    BY <2>2, <2>3, <2>4
<1>2. pc[t] \in Growing /\ RoundOf(pc[t], loc[t]) /\ (pc[t] = "rc_sched" => loc[t].sid \notin Claimable)
  BY <1>0 DEF OnlyGrows, Rounds, GivenUp
<1>3. pc[t] = "rc_sched" => loc[t].sid \notin Live
  BY <1>2 DEF Claimable
<1>4. Ways(t)
  BY <1>0, <1>2, <1>3, TaskWays
<1>5. Settled(t)
  BY <1>2, <1>4, WayCredit
<1>6. Effect(t)
  BY <1>0, <1>2, <1>3, TaskEffect
<1>7. \A u \in Task : u # t => pc'[u] = pc[u] /\ loc'[u] = loc[u]
  BY <1>0, TaskPcs
<1>8. Balanced'
  BY <1>0, <1>5, <1>7, TaskBalance
<1>9. OnlyGrows' /\ Rounds'
  BY <1>0, <1>5, <1>7 DEF OnlyGrows, Rounds, Settled
<1>10. DialFresh => Mint \in Session /\ Mint = minted + 1 /\ minted' = minted + 1
  BY <1>0, Minting
<1>11. /\ \A r \in Replacements' : r \in Replacements \/ (DialFresh /\ r = Mint)
  <2> SUFFICES ASSUME NEW u \in Task, Swapping(u)'
               PROVE  loc'[u].new \in Replacements \/ (DialFresh /\ loc'[u].new = Mint)
    BY DEF Replacements
  <2>1. CASE u # t
    BY <1>7, <2>1 DEF Swapping, Replacements
  <2>2. CASE u = t
    BY <1>4, <2>2, WayPicks DEF Replacements
  <2> QED
    BY <2>1, <2>2
<1>12. Claimable' \subseteq Claimable
  <2>1. DialFresh => Mint \in Session /\ Mint > minted
    BY <1>1, <1>10
  <2>2. Replacements' \subseteq Claimable
    BY <1>11, <2>1 DEF Claimable
  <2>3. Live' \subseteq Claimable
    BY <1>6, <2>1 DEF Effect, Claimable
  <2>4. {s \in Session : s > minted'} \subseteq {s \in Session : s > minted}
    BY <1>1 DEF Session
  <2> QED
    BY <2>2, <2>3, <2>4, Zenon DEF Claimable
<1>13. PickedHadSlot'
  <2> SUFFICES ASSUME NEW u \in Task, pc'[u] \in Picking
               PROVE  loc'[u].sid \in 1 .. minted' /\ loc'[u].sid \notin Replacements'
    BY DEF PickedHadSlot
  <2> DEFINE s == loc'[u].sid
  <2>1. s \in SlotIds \/ (pc[u] \in Picking /\ s = loc[u].sid)
    BY <1>4, <1>7, WayPicks
  <2>2. s \in 1 .. minted /\ s \notin Replacements
    <3>1. CASE s \in SlotIds
      BY <1>0, <3>1 DEF Claims, SlotsMinted, ReplacementUnused, Replacements
    <3>2. CASE pc[u] \in Picking /\ s = loc[u].sid
      BY <1>0, <3>2 DEF PickedHadSlot
    <3> QED
      BY <2>1, <3>1, <3>2
  <2> HIDE DEF s
  <2>3. s \in 1 .. minted' /\ (DialFresh => s # Mint)
    BY <1>1, <1>10, <2>2
  <2> QED
    BY <1>11, <2>2, <2>3 DEF s
<1>14. ASSUME pc[t] \in {"mg_release", "rt_release"}, Detach(t), Live' \subseteq Live \ {loc[t].sid}
       PROVE  loc[t].sid \notin Claimable'
  <2>1. loc[t].sid \in 1 .. minted /\ loc[t].sid \notin Replacements /\ minted' = minted
    BY <1>0, <1>14 DEF PickedHadSlot, Picking, Detach
  <2>2. loc[t].sid \notin Replacements'
    BY <1>1, <1>10, <1>11, <2>1
  <2>3. loc[t].sid \notin Live'
    BY <1>14
  <2>4. ~(loc[t].sid > minted')
    BY <1>1, <2>1
  <2> QED
    BY <2>2, <2>3, <2>4 DEF Claimable
<1>15. ClaimableOpen'
  <2> SUFFICES ASSUME NEW s \in Session
               PROVE  /\ conn'[s] # "lost"
                      /\ s <= minted' /\ s \in Claimable' => conn'[s] = "open"
                      /\ s > minted' => conn'[s] = "none"
    BY DEF ClaimableOpen
  <2>1. /\ conn[s] # "lost" /\ (s <= minted /\ s \in Claimable => conn[s] = "open")
        /\ (s > minted => conn[s] = "none") /\ s \in Nat
    BY <1>0 DEF ClaimableOpen, Session
  <2>2. CASE SameMap
    BY <1>12, <2>1, <2>2 DEF SameMap
  <2>3. CASE DialFresh
    <3>1. conn'[s] = IF s = Mint THEN "open" ELSE conn[s]
      BY <1>0, <2>3 DEF DialFresh, PlaneShape
    <3>2. s <= minted' => s = Mint \/ s <= minted
      BY <1>1, <1>10, <2>1, <2>3
    <3>3. s > minted' => s # Mint /\ s > minted
      BY <1>1, <1>10, <2>1, <2>3
    <3> QED
      BY <1>12, <2>1, <3>1, <3>2, <3>3, Zenon
  <2>4. CASE pc[t] \in {"mg_release", "rt_release"} /\ Detach(t) /\ Live' \subseteq Live \ {loc[t].sid}
    <3>1. conn'[s] = (IF s = loc[t].sid THEN "none" ELSE conn[s]) /\ minted' = minted
      BY <1>0, <2>4, Detaching DEF Detach
    <3> QED
      BY <1>12, <1>14, <2>1, <2>4, <3>1
  <2> QED
    BY <1>6, <2>2, <2>3, <2>4 DEF Effect
<1>16. \A w \in Worker :
          worker'[w].st \in {"poll", "work"} /\ worker'[w].link # Current => worker'[w].sid \notin Claimable'
  <2>1. \A w \in Worker :
          worker[w].st \in {"poll", "work"} /\ worker[w].link # Current => worker[w].sid \notin Claimable
    BY <1>0 DEF GivenUp
  <2>2. CASE OffOnly({})
    BY <1>12, <2>1, <2>2 DEF OffOnly
  <2>3. CASE /\ pc[t] \in {"mg_release", "rt_release"} /\ Detach(t) /\ Live' \subseteq Live \ {loc[t].sid}
             /\ OffOnly({loc[t].sid})
    BY <1>12, <1>14, <2>1, <2>3 DEF OffOnly
  <2> QED
    BY <1>6, <2>2, <2>3 DEF Effect
<1>17. GivenUp'
  <2>1. \A u \in Task : pc'[u] = "rc_sched" => u # t /\ pc[u] = "rc_sched" /\ loc'[u] = loc[u]
    BY <1>5, <1>7 DEF Settled
  <2>2. \A u \in Task : pc'[u] = "rc_sched" => loc'[u].sid \notin Claimable'
    BY <1>0, <1>12, <2>1 DEF GivenUp
  <2> QED
    BY <1>16, <2>2 DEF GivenUp
<1> QED
  BY <1>8, <1>9, <1>13, <1>15, <1>17

\* Idle tasks start: to scale, to migrate, or to reconnect a session that was
\* given up.
Started ==
    \A u \in Task :
        \/ pc'[u] = pc[u] /\ loc'[u] = loc[u]
        \/ pc[u] = "idle" /\ pc'[u] = "sc_next"
        \/ pc[u] = "idle" /\ pc'[u] = "mg_next" /\ loc'[u].done = <<>>
        \/ pc[u] = "idle" /\ pc'[u] = "rc_sched" /\ loc'[u].sid \notin Claimable

\* Tasks that start keep make-before-break.
LEMMA StartMakes ==
  ASSUME MInv, Started, OffOnly({}), UNCHANGED <<slots, suppress, conn, minted>>
  PROVE  OnlyGrows' /\ ClaimableOpen' /\ GivenUp' /\ PickedHadSlot' /\ Rounds' /\ Balanced'
<1>0. /\ OnlyGrows /\ ClaimableOpen /\ GivenUp /\ PickedHadSlot /\ Rounds /\ Balanced
  BY DEF MInv
<1>1. OnlyGrows'
  BY <1>0 DEF Started, OnlyGrows, Growing
<1>2. \A u \in Task : pc'[u] \in Picking \cup {"mg_release", "mg_closing"} => pc'[u] = pc[u] /\ loc'[u] = loc[u]
  BY DEF Started, Picking
<1>3. \A u \in Task : Swapping(u)' <=> Swapping(u) /\ loc'[u] = loc[u]
  BY DEF Started, Swapping
<1>4. Replacements' = Replacements
  BY <1>3 DEF Replacements, Swapping, Started
<1>5. Live' = Live
  BY DEF Live, SlotIds
<1>6. Claimable' = Claimable
  BY <1>4, <1>5 DEF Claimable
<1>7. ClaimableOpen'
  BY <1>0, <1>6 DEF ClaimableOpen
<1>8. PickedHadSlot'
  BY <1>0, <1>2, <1>4 DEF PickedHadSlot
<1>9. GivenUp'
  <2>1. \A w \in Worker :
           worker'[w].st \in {"poll", "work"} /\ worker'[w].link # Current => worker'[w].sid \notin Claimable'
    BY <1>0, <1>6 DEF OffOnly, GivenUp
  <2>2. \A u \in Task : pc'[u] = "rc_sched" => loc'[u].sid \notin Claimable'
    BY <1>0, <1>6 DEF Started, GivenUp
  <2> QED
    BY <2>1, <2>2 DEF GivenUp
<1>10. Rounds'
  <2> SUFFICES ASSUME NEW u \in Task PROVE RoundOf(pc'[u], loc'[u])
    BY DEF Rounds
  <2>1. CASE pc'[u] = pc[u] /\ loc'[u] = loc[u]
    BY <1>0, <2>1 DEF Rounds
  <2>2. CASE pc'[u] \in {"sc_next", "rc_sched"} \/ (pc'[u] = "mg_next" /\ loc'[u].done = <<>>)
    BY <2>2 DEF RoundOf
  <2> QED
    BY <2>1, <2>2 DEF Started
<1>11. Balanced'
  <2>1. Open' = Open
    BY DEF Open
  <2>2. ASSUME NEW u \in Task PROVE CreditOf(pc'[u], loc'[u]) = 0 \/ (pc'[u] = pc[u] /\ loc'[u] = loc[u])
    <3>1. (pc'[u] = pc[u] /\ loc'[u] = loc[u]) \/ pc'[u] \in {"sc_next", "mg_next", "rc_sched"}
      BY DEF Started
    <3>2. {"sc_next", "mg_next", "rc_sched"} \subseteq
             Growing \ {"mg_release", "mg_ahead", "mg_ahead_ready", "rt_next", "rt_closing",
                        "rt_check", "rt_release"}
      BY DEF Growing
    <3> QED
      BY <3>1, <3>2, CreditValues, Zenon
  <2>3. \A x \in Credits' : x \in Task \X Nat /\ x[1] \in Task /\ x[2] \in 1 .. CreditOf(pc'[x[1]], loc'[x[1]])
    BY DEF Credits
  <2>4. 1 .. 0 = {}
    OBVIOUS
  <2>5. \A x \in Credits' : pc'[x[1]] = pc[x[1]] /\ loc'[x[1]] = loc[x[1]]
    BY <2>2, <2>3, <2>4, Zenon
  <2>6. Credits' \subseteq Credits
    BY <2>3, <2>5, Zenon DEF Credits
  <2>7. IsFiniteSet(Open) /\ IsFiniteSet(Open') /\ IsFiniteSet(Credits) /\ Cardinality(Open) >= Boot + Cardinality(Credits)
    BY <1>0, OpenFinite DEF Balanced
  <2> QED
    BY <2>1, <2>6, <2>7, Balance DEF Balanced
<1> QED
  BY <1>1, <1>7, <1>8, <1>9, <1>10, <1>11

\* The reconnect of a session that was given up starts at most.
LEMMA StartReconnect ==
  ASSUME TaskShape, NEW s, s \notin Claimable, ScheduleReconnect(s)
  PROVE  Started
<1>1. CASE UNCHANGED <<pc, loc>>
  BY <1>1 DEF Started
<1>2. CASE ~UNCHANGED <<pc, loc>>
  <2>1. PICK t \in Task : /\ pc[t] = "idle" /\ pc' = [pc EXCEPT ![t] = "rc_sched"]
                          /\ loc' = [loc EXCEPT ![t] = [FreeLoc EXCEPT !.sid = s]]
    BY <1>2 DEF ScheduleReconnect, FirstFree
  <2>2. pc'[t] = "rc_sched" /\ loc'[t] = [FreeLoc EXCEPT !.sid = s] /\ \A u \in Task : u # t => pc'[u] = pc[u] /\ loc'[u] = loc[u]
    BY <2>1 DEF TaskShape, LocShape
  <2>3. loc'[t].sid = s
    BY <2>2 DEF FreeLoc
  <2> QED
    BY <2>1, <2>2, <2>3 DEF Started
<1> QED
  BY <1>1, <1>2

\* A scale or a migration starts.
LEMMA StartCommand ==
  ASSUME TaskShape, NEW t \in Task, Command(t), "drain" \notin Commands, "close" \notin Commands
  PROVE  Started /\ UNCHANGED <<slots, suppress, conn, minted>> /\ UNCHANGED worker
<1>1. ASSUME UNCHANGED <<pc, loc>> PROVE Started
  BY <1>1 DEF Started
<1>2. ASSUME NEW cmd, Begin(t, cmd) PROVE cmd \in Commands /\ pc[t] = "idle"
  BY <1>2 DEF Begin, FirstFree
<1>3. ~DrainStart(t) /\ ~CloseStart(t)
  BY <1>2 DEF DrainStart, CloseStart
<1>4. ASSUME NEW n, ScaleStart(t, n) PROVE Started
  <2> DEFINE p == PlanPoolScale(PoolTargetSize, Len(slots), n)
             D == {u \in Task : u >= t /\ Chunk(p.toAdd, u - t) > 0}
             New(u) == [FreeLoc EXCEPT !.n = Chunk(p.toAdd, u - t)]
  <2>1. CASE /\ \A u \in D : pc[u] = "idle"
             /\ pc' = [u \in Task |-> IF u \in D THEN "sc_next" ELSE pc[u]]
             /\ loc' = [u \in Task |-> IF u \in D THEN New(u) ELSE loc[u]]
    <3> HIDE DEF New, D
    <3> QED
      BY <2>1 DEF Started
  <2> HIDE DEF New, D
  <2> QED
    BY <1>1, <1>4, <2>1 DEF ScaleStart, D, New
<1>5. ASSUME NEW g, NEW f, MigrateStart(t, g, f) PROVE Started
  <2>1. pc[t] = "idle"
    BY <1>2, <1>5 DEF MigrateStart
  <2>2. CASE \E x, y, k : /\ pc' = [pc EXCEPT ![t] = "mg_next"]
                          /\ loc' = [loc EXCEPT ![t] = [FreeLoc EXCEPT !.gw = g, !.keep = k, !.todo = x, !.planned = y]]
    <3>1. PICK x, y, k : /\ pc' = [pc EXCEPT ![t] = "mg_next"]
                         /\ loc' = [loc EXCEPT ![t] = [FreeLoc EXCEPT !.gw = g, !.keep = k, !.todo = x, !.planned = y]]
      BY <2>2
    <3> DEFINE r == [FreeLoc EXCEPT !.gw = g, !.keep = k, !.todo = x, !.planned = y]
    <3>2. r.done = <<>>
      BY DEF FreeLoc
    <3> HIDE DEF r
    <3>3. pc'[t] = "mg_next" /\ loc'[t] = r /\ \A u \in Task : u # t => pc'[u] = pc[u] /\ loc'[u] = loc[u]
      BY <3>1 DEF TaskShape, LocShape, r
    <3> QED
      BY <2>1, <3>2, <3>3 DEF Started
  <2> QED
    BY <1>1, <1>5, <2>2 DEF MigrateStart
<1>6. Started
  BY <1>3, <1>4, <1>5 DEF Command
<1>7. UNCHANGED <<slots, suppress, conn, minted>> /\ UNCHANGED worker
  BY <1>3 DEF Command, ScaleStart, MigrateStart, poolVars, planeVars
<1> QED
  BY <1>6, <1>7

\* The steps of workers, the watch and the operator keep make-before-break.
LEMMA OtherMakes ==
  ASSUME MInv, [Next]_vars, \A t \in Task : ~TaskStep(t),
         "drain" \notin Commands, "close" \notin Commands, "loss" \notin Faults
  PROVE  OnlyGrows' /\ ClaimableOpen' /\ GivenUp' /\ PickedHadSlot' /\ Rounds' /\ Balanced'
<1> DEFINE Goal == Started /\ OffOnly({}) /\ UNCHANGED <<slots, suppress, conn, minted>>
<1>0. PoolShape /\ PlaneShape /\ TaskShape /\ Claims /\ ClaimableOpen /\ GivenUp
  BY DEF MInv, IInv
<1>1. UNCHANGED <<pc, loc>> => Started
  BY DEF Started
<1>2. UNCHANGED worker => OffOnly({})
  BY DEF OffOnly
<1>3. ASSUME NEW t \in Task, Command(t) PROVE Goal
  BY <1>0, <1>2, <1>3, StartCommand
<1>4. ASSUME NEW w \in Worker, WorkerStep(w) PROVE Goal
  <2>1. OffOnly({})
    BY <1>0, <1>4, OffWork
  <2>2. UNCHANGED <<slots, suppress, conn, minted>>
    BY <1>4 DEF WorkerStep, WorkerTakesWork, WorkerDone, WorkerPostFails, WorkerStops, WorkerLost, poolVars
  <2>3. CASE WorkerLost(w)
    <3>1. worker[w].st \in {"poll", "work"} /\ worker[w].link = Dead /\ ScheduleReconnect(worker[w].sid)
      BY <2>3 DEF WorkerLost
    <3>2. worker[w].sid \notin Claimable
      BY <1>0, <3>1, LinkFacts DEF GivenUp
    <3>3. Started
      BY <1>0, <3>1, <3>2, StartReconnect
    <3> QED
      BY <2>1, <2>2, <3>3
  <2>4. CASE ~WorkerLost(w)
    <3>1. UNCHANGED <<pc, loc>>
      BY <1>4, <2>4 DEF WorkerStep, WorkerTakesWork, WorkerDone, WorkerPostFails, WorkerStops
    <3> QED
      BY <1>1, <2>1, <2>2, <3>1
  <2> QED
    BY <2>3, <2>4
<1>5. ASSUME NEW s \in Session, Watch(s) PROVE Goal
  <2>1. /\ HasSlot(s) /\ conn[s] # "open" /\ ScheduleReconnect(s)
        /\ UNCHANGED <<slots, suppress, conn, minted>> /\ UNCHANGED worker
    BY <1>5 DEF Watch, IsSessionClosed, poolVars, planeVars
  <2>2. s \in 1 .. minted
    BY <1>0, <2>1 DEF HasSlot, Claims, SlotsMinted
  <2>3. s <= minted
    BY <1>0, <2>2, PoolAssumption DEF PoolShape
  <2>4. s \notin Claimable
    BY <1>0, <2>1, <2>3 DEF ClaimableOpen
  <2>5. Started
    BY <1>0, <2>1, <2>4, StartReconnect
  <2> QED
    BY <1>2, <2>1, <2>5
<1>6. \A s \in Session : ~TransportLost(s)
  BY DEF TransportLost
<1>7. \A t \in Task : ~DetachedLost(t)
  BY DEF DetachedLost
<1>8. ASSUME UNCHANGED vars PROVE Goal
  BY <1>1, <1>2, <1>8 DEF vars
<1> HIDE DEF Goal
<1>9. Goal
  BY <1>3, <1>4, <1>5, <1>6, <1>7, <1>8 DEF Next
<1> QED
  BY <1>9, StartMakes DEF Goal

\* The booted pool is balanced.
LEMMA InitMakes ==
  ASSUME Init PROVE MInv
<1>1. Boot \in Nat /\ Boot <= MaxSession /\ MaxSession \in Nat
  BY PoolAssumption
<1>2. \A t \in Task : pc[t] = "idle"
  BY DEF Init
<1>3. OnlyGrows /\ PickedHadSlot /\ Rounds
  BY <1>2 DEF OnlyGrows, Growing, PickedHadSlot, Picking, Rounds, RoundOf
<1>4. ClaimableOpen
  <2> SUFFICES ASSUME NEW s \in Session
               PROVE  /\ conn[s] # "lost"
                      /\ s <= minted /\ s \in Claimable => conn[s] = "open"
                      /\ s > minted => conn[s] = "none"
    BY DEF ClaimableOpen
  <2>1. conn[s] = (IF s <= Boot THEN "open" ELSE "none") /\ minted = Boot
    BY DEF Init
  <2>2. s > Boot => ~(s <= Boot)
    BY <1>1 DEF Session
  <2> QED
    BY <2>1, <2>2
<1>5. GivenUp
  <2>1. \A w \in Worker : worker[w].st \in {"poll", "work"} => worker[w].link = Current
    BY DEF Init, FreeWorker
  <2> QED
    BY <1>2, <2>1 DEF GivenUp
<1>6. Balanced
  <2>1. \A t \in Task : CreditOf(pc[t], loc[t]) = 0
    <3>1. "idle" \in Growing \ {"mg_release", "mg_ahead", "mg_ahead_ready", "rt_next", "rt_closing",
                                "rt_check", "rt_release"}
      BY DEF Growing
    <3> QED
      BY <1>2, <3>1, CreditValues, Zenon
  <2>2. Credits = {}
    <3>1. 1 .. 0 = {}
      OBVIOUS
    <3>2. \A x \in Credits : x[1] \in Task /\ x[2] \in 1 .. CreditOf(pc[x[1]], loc[x[1]])
      BY DEF Credits
    <3> QED
      BY <2>1, <3>1, <3>2, Zenon
  <2>3. Open = 1 .. Boot
    BY <1>1 DEF Open, Init, Session
  <2>4. Cardinality(Open) = Boot
    BY <1>1, <2>3, FS_Interval
  <2>5. IsFiniteSet(Credits) /\ Cardinality(Credits) = 0
    BY <2>2, FS_EmptySet
  <2> QED
    BY <1>1, <2>4, <2>5 DEF Balanced
<1> QED
  BY <1>3, <1>4, <1>5, <1>6, InitInv DEF MInv

\* Make before break (migrate_session_to and dial_session_onto dial before
\* retire_session releases): with no drain, shutdown or lost transport, never
\* are fewer sessions connected than the pool booted with, however many
\* migrations and scales run at once and whichever dials, disconnects and
\* posts fail.
THEOREM MakesBeforeItBreaks ==
  ASSUME "drain" \notin Commands, "close" \notin Commands, "loss" \notin Faults
  PROVE  Spec => []MakeBeforeBreak
<1>1. Init => MInv
  BY InitMakes
<1>2. MInv /\ [Next]_vars => MInv'
  <2> SUFFICES ASSUME MInv, [Next]_vars PROVE MInv'
    OBVIOUS
  <2>1. IInv'
    BY StepInv DEF MInv
  <2>2. CASE \E t \in Task : TaskStep(t)
    BY <2>1, <2>2, TaskMakes DEF MInv
  <2>3. CASE \A t \in Task : ~TaskStep(t)
    BY <2>1, <2>3, OtherMakes DEF MInv
  <2> QED
    BY <2>2, <2>3
<1>3. MInv => MakeBeforeBreak
  <2> SUFFICES ASSUME MInv PROVE MakeBeforeBreak
    OBVIOUS
  <2>1. IsFiniteSet(Credits) /\ Cardinality(Open) >= Boot + Cardinality(Credits)
    BY DEF MInv, Balanced
  <2>2. Cardinality(Credits) \in Nat /\ Cardinality(Open) \in Nat /\ Boot \in Nat
    BY <2>1, OpenFinite, FS_CardinalityType, PoolAssumption
  <2>3. Cardinality(Open) >= Boot
    BY <2>1, <2>2
  <2> QED
    BY <2>3 DEF MakeBeforeBreak, Open
<1> QED
  BY <1>1, <1>2, <1>3, PTL DEF Spec

-----------------------------------------------------------------------------
(* The types.  The lists that tasks work through are selections of the     *)
(* slots; what a selection is made of is shown by induction on how far it  *)
(* has come, as the absence of a least counterexample.                     *)

\* A set of numbers has a least element.
LEMMA LeastNumber ==
  ASSUME NEW T, T \subseteq Nat, T # {}
  PROVE  \E x \in T : \A y \in T : x <= y
<1> DEFINE R == OpToRel(<, Nat)
<1>1. IsWellFoundedOn(R, Nat)
  BY NatLessThanWellFounded
<1>2. \A y, x \in Nat : <<y, x>> \in R <=> y < x
  BY DEF OpToRel
<1> HIDE DEF R
<1>3. PICK x \in T : \A y \in T : <<y, x>> \notin R
  BY <1>1, WFMin, Zenon
<1>4. ASSUME NEW y \in T PROVE x <= y
  <2>1. x \in Nat /\ y \in Nat /\ ~(y < x)
    BY <1>2, <1>3, Zenon
  <2> QED
    BY <2>1
<1> QED
  BY <1>4

\* One element more is looked at: it is selected if its index is in I.
SelectNext(seq, I, g, i) ==
    IF i = 0 THEN <<>> ELSE IF i \in I THEN Append(g[i - 1], seq[i]) ELSE g[i - 1]

Selecting(seq, I, m, g) == g = [i \in 0 .. m |-> SelectNext(seq, I, g, i)]

\* The selections from the first, the first two and so on elements exist.
LEMMA SelectingExists ==
  ASSUME NEW S, NEW q \in Seq(S), NEW I, NEW n \in 0 .. Len(q)
  PROVE  \E g \in [0 .. n -> Seq(S)] : Selecting(q, I, n, g)
<1> DEFINE T == {m \in 0 .. Len(q) : ~\E g \in [0 .. m -> Seq(S)] : Selecting(q, I, m, g)}
<1>1. SUFFICES ASSUME T # {} PROVE FALSE
  BY Zenon
<1>2. T \subseteq Nat
  OBVIOUS
<1> HIDE DEF T
<1>3. PICK m \in T : \A y \in T : m <= y
  BY <1>1, <1>2, LeastNumber, Zenon
<1>4. m \in 0 .. Len(q) /\ ~\E g \in [0 .. m -> Seq(S)] : Selecting(q, I, m, g)
  BY <1>3, Zenon DEF T
<1>5. m # 0
  <2>1. ASSUME m = 0 PROVE FALSE
    <3> DEFINE e == [i \in 0 .. 0 |-> <<>>]
    <3>1. e \in [0 .. 0 -> Seq(S)]
      OBVIOUS
    <3>2. \A i \in 0 .. 0 : SelectNext(q, I, e, i) = <<>>
      BY DEF SelectNext
    <3>3. Selecting(q, I, 0, e)
      BY <3>2, Zenon DEF Selecting
    <3> QED
      BY <1>4, <2>1, <3>1, <3>3
  <2> QED
    BY <2>1
<1>6. m - 1 \in 0 .. Len(q) /\ ~(m <= m - 1) /\ m \in Nat /\ Len(q) \in Nat /\ m \in 1 .. Len(q)
  BY <1>4, <1>5
<1>7. PICK g \in [0 .. (m - 1) -> Seq(S)] : Selecting(q, I, m - 1, g)
  <2>1. m - 1 \notin T
    BY <1>3, <1>6, Zenon
  <2> QED
    BY <1>6, <2>1, Zenon DEF T
<1> DEFINE x == SelectNext(q, I, g, m)
           h == [i \in 0 .. m |-> IF i < m THEN g[i] ELSE x]
<1>8. x \in Seq(S)
  <2>1. q[m] \in S
    BY <1>6
  <2>2. g[m - 1] \in Seq(S)
    BY <1>6
  <2>3. Append(g[m - 1], q[m]) \in Seq(S)
    BY <2>1, <2>2
  <2> QED
    BY <1>5, <2>2, <2>3, Zenon DEF SelectNext
<1>9. \A i \in 0 .. m : i < m => i \in 0 .. (m - 1)
  BY <1>6
<1>10. h \in [0 .. m -> Seq(S)]
  <2> HIDE DEF x
  <2> QED
    BY <1>8, <1>9
<1>11. ASSUME NEW i \in 0 .. m PROVE h[i] = SelectNext(q, I, h, i)
  <2>1. i # 0 => h[i - 1] = g[i - 1]
    <3>1. i # 0 => i - 1 \in 0 .. m /\ i - 1 < m
      BY <1>6
    <3> HIDE DEF x
    <3> QED
      BY <3>1
  <2>2. SelectNext(q, I, h, i) = SelectNext(q, I, g, i)
    <3> HIDE DEF h
    <3> QED
      BY <2>1, Zenon DEF SelectNext
  <2>3. CASE i < m
    <3>1. i \in 0 .. (m - 1) /\ h[i] = g[i]
      BY <1>9, <2>3
    <3>2. g[i] = SelectNext(q, I, g, i)
      BY <1>7, <3>1, Zenon DEF Selecting
    <3> QED
      BY <2>2, <3>1, <3>2, Zenon
  <2>4. CASE i = m
    <3>1. h[i] = x
      <4> HIDE DEF x
      <4> QED
        BY <1>6, <2>4
    <3> HIDE DEF h
    <3> QED
      BY <2>2, <2>4, <3>1, Zenon
  <2> QED
    BY <1>6, <2>3, <2>4
<1>12. Selecting(q, I, m, h)
  <2> HIDE DEF h
  <2>1. h = [i \in 0 .. m |-> h[i]]
    BY <1>10
  <2> QED
    BY <1>11, <2>1, Zenon DEF Selecting
<1> QED
  BY <1>4, <1>10, <1>12, Zenon

\* What is selected from a sequence is a sequence of its elements.
LEMMA ElementsAtType ==
  ASSUME NEW S, NEW q \in Seq(S), NEW I
  PROVE  ElementsAt(q, I) \in Seq(S)
<1> DEFINE n == Len(q)
           F == CHOOSE f : f = [i \in 0 .. n |-> SelectNext(q, I, f, i)]
<1>1. n \in Nat /\ n \in 0 .. n
  OBVIOUS
<1>2. ElementsAt(q, I) = F[n]
  BY DEF ElementsAt, SelectNext
<1>3. PICK g \in [0 .. n -> Seq(S)] : Selecting(q, I, n, g)
  BY <1>1, SelectingExists, Zenon
<1>4. F = [i \in 0 .. n |-> SelectNext(q, I, F, i)]
  BY <1>3, Zenon DEF Selecting
<1> HIDE DEF F
<1>5. \A i \in 0 .. n : F[i] = SelectNext(q, I, F, i)
  BY <1>4, Zenon
<1> DEFINE T == {i \in 0 .. n : F[i] \notin Seq(S)}
<1>6. ASSUME T # {} PROVE FALSE
  <2>1. T \subseteq Nat
    BY <1>1
  <2>2. \A i \in 0 .. n : i \notin T => F[i] \in Seq(S)
    OBVIOUS
  <2>3. \A i \in T : i \in 0 .. n /\ F[i] \notin Seq(S)
    OBVIOUS
  <2> HIDE DEF T
  <2>4. PICK i \in T : \A y \in T : i <= y
    BY <1>6, <2>1, LeastNumber, Zenon
  <2>5. i \in 0 .. n /\ F[i] \notin Seq(S)
    BY <2>3, <2>4
  <2>6. F[i] = SelectNext(q, I, F, i)
    BY <1>5, <2>5
  <2>7. CASE i = 0
    BY <2>5, <2>6, <2>7 DEF SelectNext
  <2>8. CASE i # 0
    <3>1. i - 1 \in 0 .. n /\ ~(i <= i - 1) /\ i \in 1 .. Len(q)
      BY <1>1, <2>5, <2>8
    <3>2. F[i - 1] \in Seq(S)
      BY <2>2, <2>4, <3>1, Zenon
    <3>3. q[i] \in S
      BY <3>1
    <3>4. Append(F[i - 1], q[i]) \in Seq(S)
      BY <3>2, <3>3
    <3> QED
      BY <2>5, <2>6, <2>8, <3>2, <3>4, Zenon DEF SelectNext
  <2> QED
    BY <2>7, <2>8
<1>7. F[n] \in Seq(S)
  BY <1>1, <1>6
<1> QED
  BY <1>2, <1>7

\* The first n of a sequence's elements, none when n is negative.
LEMMA FirstOfType ==
  ASSUME NEW S, NEW q \in Seq(S), NEW n \in Int
  PROVE  FirstOf(q, n) \in Seq(S) /\ Len(FirstOf(q, n)) \in Nat /\ (n \in Nat => Len(FirstOf(q, n)) <= n)
<1> DEFINE m == Smaller(n, Len(q))
<1>1. m \in Int /\ m <= Len(q) /\ m <= n /\ Len(q) \in Nat
  BY DEF Smaller
<1> HIDE DEF m
<1>2. CASE m < 0
  <2>1. SubSeq(q, 1, m) = <<>>
    BY <1>1, <1>2
  <2>2. FirstOf(q, n) = <<>>
    BY <2>1, Zenon DEF FirstOf, m
  <2>3. <<>> \in Seq(S) /\ Len(<<>>) = 0
    OBVIOUS
  <2> QED
    BY <2>2, <2>3
<1>3. CASE m >= 0
  <2>1. SubSeq(q, 1, m) \in Seq(S) /\ Len(SubSeq(q, 1, m)) = m
    BY <1>1, <1>3
  <2> QED
    BY <1>1, <1>3, <2>1 DEF FirstOf, m
<1> QED
  BY <1>1, <1>2, <1>3

LocType == [sid : Session \cup {NoSession}, new : Session \cup {NoSession}, gw : Gateway, n : Nat,
            todo : Seq(Session), planned : Seq(Session), done : Seq(Session), keep : BOOLEAN]

HoldType == [target : Gateway, pending : SUBSET Session, keep : BOOLEAN]

\* The variables that IInv leaves untyped.
Types == /\ url \in [Session -> Gateway] /\ primary \in Gateway /\ hold \in HoldType
         /\ loc \in [Task -> LocType] /\ issued \in 0 .. MaxCommands

\* A migration that has dialled ahead has a busy session it dialled for.
AheadOfOne == \A t \in Task : pc[t] = "mg_ahead_ready" => loc[t].planned # <<>>

TInv == IInv /\ Types /\ AheadOfOne

\* The initial values of a task's variables, and of the hold.
LEMMA FreeTypes == FreeLoc \in LocType /\ NoHold \in HoldType
<1>1. Home \in Gateway /\ 0 \in Nat /\ <<>> \in Seq(Session) /\ NoSession \in Session \cup {NoSession}
  BY PoolAssumption
<1>2. NoHold \in HoldType
  BY <1>1 DEF NoHold, HoldType
<1>3. FreeLoc \in LocType
  BY <1>1 DEF FreeLoc, LocType
<1> QED
  BY <1>2, <1>3

\* The fields of a task's variables.
LEMMA LocFields ==
  ASSUME loc \in [Task -> LocType], NEW t \in Task
  PROVE  /\ loc[t].sid \in Session \cup {NoSession} /\ loc[t].new \in Session \cup {NoSession}
         /\ loc[t].gw \in Gateway /\ loc[t].n \in Nat
         /\ loc[t].todo \in Seq(Session) /\ loc[t].planned \in Seq(Session) /\ loc[t].done \in Seq(Session)
         /\ loc[t].keep \in BOOLEAN
  BY Zenon DEF LocType

\* The first of a list and what follows it.
LEMMA ListParts ==
  ASSUME NEW q \in Seq(Session)
  PROVE  /\ q # <<>> => Head(q) \in Session /\ Tail(q) \in Seq(Session)
         /\ \A s \in Session : Append(q, s) \in Seq(Session)
         /\ {q[i] : i \in DOMAIN q} \subseteq Session
  OBVIOUS

\* A task that is over, or has ended an iteration.
LEMMA TypesReset ==
  ASSUME loc \in [Task -> LocType], NEW t \in Task, Finish(t) \/ EndIteration(t)
  PROVE  loc' \in [Task -> LocType]
<1>1. CASE Finish(t)
  <2>1. loc' = [loc EXCEPT ![t] = FreeLoc]
    BY <1>1 DEF Finish
  <2> QED
    BY <2>1, FreeTypes, Zenon
<1>2. CASE EndIteration(t)
  <2>1. NoSession \in Session \cup {NoSession} /\ 0 \in Nat
    OBVIOUS
  <2>2. loc' = [loc EXCEPT ![t].sid = NoSession, ![t].new = NoSession, ![t].n = 0]
    BY <1>2 DEF EndIteration
  <2> QED
    BY <2>1, <2>2, ZenonT(60) DEF LocType
<1> QED
  BY <1>1, <1>2

\* The variables of a task after one of its steps.
LEMMA TaskLocals ==
  ASSUME PoolShape, Types, AheadOfOne, NEW t \in Task, TaskStep(t)
  PROVE  loc' \in [Task -> LocType]
<1> DEFINE l == loc[t]
<1>t. /\ loc \in [Task -> LocType] /\ url \in [Session -> Gateway] /\ primary \in Gateway
  BY DEF Types
<1>f. /\ l.sid \in Session \cup {NoSession} /\ l.new \in Session \cup {NoSession}
      /\ l.gw \in Gateway /\ l.n \in Nat
      /\ l.todo \in Seq(Session) /\ l.planned \in Seq(Session) /\ l.done \in Seq(Session)
  BY <1>t, LocFields
<1>e. <<>> \in Seq(Session) /\ NoSession \in Session \cup {NoSession}
  OBVIOUS
<1>h. l.todo # <<>> => /\ Head(l.todo) \in Session /\ Head(l.todo) \in Session \cup {NoSession}
                       /\ Tail(l.todo) \in Seq(Session) /\ Append(l.done, Head(l.todo)) \in Seq(Session)
  BY <1>f, ListParts
<1>p. l.planned # <<>> => Tail(l.planned) \in Seq(Session) /\ Append(l.done, Head(l.planned)) \in Seq(Session)
  BY <1>f, ListParts
<1>m. CanMint => Mint \in Session \cup {NoSession}
  BY PoolAssumption DEF CanMint, Mint, Session, PoolShape
<1>s. \A s : HasSlot(s) => s \in Session /\ (CHOOSE i \in DOMAIN slots : slots[i] = s) \in Nat
  BY DEF HasSlot, SlotIds, PoolShape
<1>0. CASE UNCHANGED loc
  BY <1>0, <1>t
<1>1. CASE Finish(t) \/ EndIteration(t)
  BY <1>1, <1>t, TypesReset
<1>2. CASE ReconnectStep(t)
  <2>1. CASE ReconnectBegin(t)
    <3>1. CASE HasSlot(l.sid) /\ loc' = [loc EXCEPT ![t].gw = url[l.sid]]
      <4>1. url[l.sid] \in Gateway
        BY <1>t, <1>s, <3>1
      <4> QED
        BY <1>t, <3>1, <4>1, ZenonT(60) DEF LocType
    <3> QED
      BY <1>1, <2>1, <3>1 DEF ReconnectBegin
  <2> QED
    BY <1>0, <1>1, <1>2, <2>1 DEF ReconnectStep, ReconnectClaim, ReconnectTornDown,
          ReconnectDialOk, ReconnectDialFails, ReconnectReady
<1>3. CASE /\ l.todo # <<>>
           /\ loc' = [loc EXCEPT ![t].todo = Tail(@), ![t].sid = Head(l.todo)]
  BY <1>t, <1>h, <1>3, ZenonT(60) DEF LocType
<1>4. CASE DrainStep(t)
  <2>1. CASE DrainNext(t)
    BY <1>1, <1>3, <2>1 DEF DrainNext
  <2> QED
    BY <1>0, <1>1, <1>4, <2>1 DEF DrainStep, DrainRelease, DrainRemove, Release
<1>5. CASE CanMint /\ loc' = [loc EXCEPT ![t].new = Mint]
  BY <1>t, <1>m, <1>5, ZenonT(60) DEF LocType
<1>6. CASE ScaleStep(t)
  <2>1. CASE ScaleNext(t)
    <3>1. CASE l.n # 0 /\ loc' = [loc EXCEPT ![t].n = @ - 1, ![t].gw = primary]
      <4>1. l.n - 1 \in Nat
        BY <1>f, <3>1
      <4> QED
        BY <1>t, <3>1, <4>1, ZenonT(60) DEF LocType
    <3> QED
      BY <1>1, <2>1, <3>1 DEF ScaleNext
  <2>2. CASE ScaleDialOk(t)
    BY <1>5, <2>2 DEF ScaleDialOk, DialFresh
  <2>3. CASE ScaleReady(t)
    <3>1. loc' = [loc EXCEPT ![t].new = NoSession]
      BY <2>3 DEF ScaleReady
    <3> QED
      BY <1>t, <1>e, <3>1, ZenonT(60) DEF LocType
  <2> QED
    BY <1>0, <1>6, <2>1, <2>2, <2>3 DEF ScaleStep, ScaleDialFails
<1>7. CASE l.todo # <<>> /\ loc' = [loc EXCEPT ![t].todo = Tail(@)]
  BY <1>t, <1>h, <1>7, ZenonT(60) DEF LocType
<1>8. CASE RetireStep(t)
  <2>1. CASE RetireNext(t)
    <3>1. CASE loc' = [loc EXCEPT ![t].todo = l.done, ![t].done = <<>>]
      BY <1>t, <1>f, <1>e, <3>1, ZenonT(60) DEF LocType
    <3>2. CASE l.todo # <<>> /\ loc' = [loc EXCEPT ![t].todo = Tail(@), ![t].done = Append(@, Head(l.todo))]
      BY <1>t, <1>h, <3>2, ZenonT(60) DEF LocType
    <3> QED
      BY <1>1, <1>3, <1>7, <2>1, <3>1, <3>2 DEF RetireNext
  <2> QED
    BY <1>0, <1>1, <1>8, <2>1 DEF RetireStep, RetireCheck, RetireRelease, RetireRemove, Release
<1>9. CASE MigrateStep(t)
  <2>1. CASE MigrateNext(t)
    <3> DEFINE i == CHOOSE j \in DOMAIN slots : slots[j] = Head(l.todo)
    <3>1. CASE /\ l.todo # <<>> /\ HasSlot(Head(l.todo))
               /\ loc' = [loc EXCEPT ![t].todo = Tail(@), ![t].sid = Head(l.todo), ![t].n = i]
      <4>1. i \in Nat
        BY <1>s, <3>1
      <4> HIDE DEF i
      <4> QED
        BY <1>t, <1>h, <3>1, <4>1, ZenonT(60) DEF LocType
    <3> QED
      BY <1>0, <1>1, <1>7, <2>1, <3>1 DEF MigrateNext, OnSource
  <2>2. CASE MigrateDialOk(t) \/ DialAheadOk(t)
    BY <1>5, <2>2 DEF MigrateDialOk, DialAheadOk, DialFresh
  <2>3. CASE DialAheadReady(t)
    <3>1. l.planned # <<>>
      BY <2>3 DEF DialAheadReady, Goto, AheadOfOne
    <3>2. loc' = [loc EXCEPT ![t].done = Append(@, Head(l.planned)), ![t].planned = Tail(@), ![t].new = NoSession]
      BY <2>3 DEF DialAheadReady
    <3> QED
      BY <1>t, <1>e, <1>p, <3>1, <3>2, ZenonT(60) DEF LocType
  <2>4. CASE DialAheadFails(t)
    <3>1. CASE loc' = [loc EXCEPT ![t].planned = <<>>]
      BY <1>t, <1>e, <3>1, ZenonT(60) DEF LocType
    <3> QED
      BY <1>1, <2>4, <3>1 DEF DialAheadFails
  <2> QED
    BY <1>0, <1>1, <1>9, <2>1, <2>2, <2>3, <2>4 DEF MigrateStep, MigrateDialFails, MigrateRelease,
          Release, MigrateSwap, MigrateReady, DialAheadDone
<1>10. CASE CloseEnd(t)
  BY <1>1, <1>10 DEF CloseEnd
<1> QED
  BY <1>2, <1>4, <1>6, <1>8, <1>9, <1>10 DEF TaskStep

\* A migration dials ahead only of a busy session it has planned.
LEMMA TaskAhead ==
  ASSUME PoolShape, TaskShape, AheadOfOne, Types, NEW t \in Task, TaskStep(t)
  PROVE  AheadOfOne'
<1>1. /\ \A u \in Task : u # t => pc'[u] = pc[u] /\ loc'[u] = loc[u]
      /\ pc \in [Task -> PC] /\ loc \in [Task -> LocType]
  BY TaskPcs DEF TaskShape, Types
<1>2. ASSUME pc'[t] = "mg_ahead_ready" => loc'[t].planned # <<>> PROVE AheadOfOne'
  BY <1>1, <1>2 DEF AheadOfOne
<1>3. CASE \E q \in PC \ {"mg_ahead_ready"} : pc' = [pc EXCEPT ![t] = q]
  BY <1>1, <1>2, <1>3
<1>4. CASE Finish(t)
  BY <1>3, <1>4 DEF Finish, PC
<1>5. CASE UNCHANGED pc /\ pc[t] # "mg_ahead_ready"
  BY <1>2, <1>5
<1>6. CASE ReconnectStep(t)
  BY <1>3, <1>4, <1>6 DEF ReconnectStep, ReconnectClaim, ReconnectBegin, ReconnectTornDown,
        ReconnectDialOk, ReconnectDialFails, ReconnectReady, Goto, PC, Owning
<1>7. CASE DrainStep(t)
  BY <1>3, <1>4, <1>7 DEF DrainStep, DrainNext, DrainRelease, DrainRemove, Goto, PC
<1>8. CASE ScaleStep(t)
  BY <1>3, <1>4, <1>8 DEF ScaleStep, ScaleNext, ScaleDialOk, ScaleDialFails, ScaleReady, Goto, PC
<1>9. CASE MigrateStep(t)
  <2>1. CASE DialAheadOk(t)
    <3>1. loc[t].planned # <<>> /\ loc' = [loc EXCEPT ![t].new = Mint]
      BY <2>1 DEF DialAheadOk
    <3>2. loc'[t].planned = loc[t].planned
      BY <1>1, <3>1, Zenon DEF LocType
    <3> QED
      BY <1>2, <3>1, <3>2
  <2>2. CASE MigrateNext(t)
    BY <1>3, <1>4, <1>5, <2>2 DEF MigrateNext, PC
  <2>3. CASE DialAheadFails(t)
    BY <1>3, <1>4, <2>3 DEF DialAheadFails, PC
  <2> QED
    BY <1>3, <1>4, <1>9, <2>1, <2>2, <2>3 DEF MigrateStep, MigrateDialOk, MigrateDialFails, MigrateRelease,
          MigrateSwap, MigrateReady, DialAheadReady, DialAheadDone, Goto, PC
<1>10. CASE RetireStep(t)
  <2>1. CASE RetireNext(t)
    BY <1>3, <1>4, <1>5, <2>1 DEF RetireNext, PC
  <2> QED
    BY <1>3, <1>10, <2>1 DEF RetireStep, RetireCheck, RetireRelease, RetireRemove, Goto, PC
<1>11. CASE CloseEnd(t)
  BY <1>4, <1>11 DEF CloseEnd
<1> QED
  BY <1>6, <1>7, <1>8, <1>9, <1>10, <1>11 DEF TaskStep

\* The hold after one of a task's steps.
LEMMA TaskHold ==
  ASSUME Types, NEW t \in Task, TaskStep(t)
  PROVE  hold' \in HoldType
<1>1. hold \in HoldType /\ loc \in [Task -> LocType]
  BY DEF Types
<1>2. CASE UNCHANGED hold
  BY <1>1, <1>2
<1>3. CASE hold' = NoHold
  BY <1>3, FreeTypes
<1>4. ASSUME NEW s, ForgetPending(s) PROVE hold' \in HoldType
  <2>1. CASE hold' = [hold EXCEPT !.pending = @ \ {s}]
    <3>1. hold.pending \ {s} \in SUBSET Session
      BY <1>1 DEF HoldType
    <3> QED
      BY <1>1, <2>1, <3>1, ZenonT(60) DEF HoldType
  <2> QED
    BY <1>3, <1>4, <2>1 DEF ForgetPending
<1>5. ASSUME NEW q \in Seq(Session),
             hold' = [target |-> loc[t].gw, keep |-> loc[t].keep, pending |-> {q[i] : i \in DOMAIN q}]
      PROVE  hold' \in HoldType
  <2>1. loc[t].gw \in Gateway /\ loc[t].keep \in BOOLEAN
    BY <1>1, LocFields
  <2> DEFINE P == {q[i] : i \in DOMAIN q}
  <2>2. P \in SUBSET Session
    BY ListParts
  <2> HIDE DEF P
  <2>3. hold' = [target |-> loc[t].gw, keep |-> loc[t].keep, pending |-> P]
    BY <1>5 DEF P
  <2> QED
    BY <2>1, <2>2, <2>3, ZenonT(60) DEF HoldType
<1>6. loc[t].planned \in Seq(Session) /\ loc[t].done \in Seq(Session)
  BY <1>1, LocFields
<1>7. CASE MigrateStep(t)
  <2>1. CASE MigrateNext(t)
    BY <1>2, <1>5, <1>6, <2>1 DEF MigrateNext
  <2>2. CASE DialAheadFails(t)
    BY <1>3, <1>5, <1>6, <2>2 DEF DialAheadFails
  <2> QED
    BY <1>2, <1>7, <2>1, <2>2 DEF MigrateStep, MigrateDialOk, MigrateDialFails, MigrateRelease, Release,
          MigrateSwap, MigrateReady, DialAheadOk, DialAheadReady, DialAheadDone, poolVars
<1>8. CASE RetireStep(t)
  <2>1. CASE RetireNext(t)
    BY <1>2, <1>4, <2>1 DEF RetireNext
  <2>2. CASE RetireRemove(t)
    BY <1>4, <2>2 DEF RetireRemove
  <2> QED
    BY <1>2, <1>8, <2>1, <2>2 DEF RetireStep, RetireCheck, RetireRelease, Release, poolVars
<1>9. CASE ReconnectStep(t) \/ DrainStep(t) \/ ScaleStep(t) \/ CloseEnd(t)
  <2>1. UNCHANGED hold
    BY <1>9 DEF ReconnectStep, ReconnectClaim, ReconnectBegin, ReconnectTornDown, ReconnectDialOk,
          ReconnectDialFails, ReconnectReady, DrainStep, DrainNext, DrainRelease, Release, DrainRemove,
          ScaleStep, ScaleNext, ScaleDialOk, ScaleDialFails, ScaleReady, CloseEnd, poolVars
  <2> QED
    BY <1>2, <2>1
<1> QED
  BY <1>7, <1>8, <1>9 DEF TaskStep

\* The gateways after one of a task's steps.
LEMMA TaskUrls ==
  ASSUME Types, NEW t \in Task, TaskStep(t)
  PROVE  url' \in [Session -> Gateway] /\ UNCHANGED <<primary, issued>>
<1>1. url \in [Session -> Gateway] /\ loc[t].gw \in Gateway /\ Home \in Gateway
  BY LocFields, PoolAssumption DEF Types
<1>2. UNCHANGED <<primary, issued>>
  BY DEF TaskStep, ReconnectStep, ReconnectClaim, ReconnectBegin, ReconnectTornDown, ReconnectDialOk,
        ReconnectDialFails, ReconnectReady, DrainStep, DrainNext, DrainRelease, Release, DrainRemove,
        ScaleStep, ScaleNext, ScaleDialOk, ScaleDialFails, ScaleReady, CloseEnd, poolVars,
        MigrateStep, MigrateNext, MigrateDialOk, MigrateDialFails, MigrateRelease, MigrateSwap, MigrateReady,
        DialAheadOk, DialAheadReady, DialAheadFails, DialAheadDone,
        RetireStep, RetireNext, RetireCheck, RetireRelease, RetireRemove
<1>3. CASE UNCHANGED url
  BY <1>1, <1>2, <1>3
<1>4. ASSUME NEW s, RemoveSlot(s) PROVE url' \in [Session -> Gateway]
  BY <1>1, <1>4 DEF RemoveSlot
<1>5. ASSUME NEW s, PushSlot(s, loc[t].gw) PROVE url' \in [Session -> Gateway]
  BY <1>1, <1>5 DEF PushSlot
<1>6. CASE MigrateStep(t)
  <2>1. CASE MigrateSwap(t)
    <3>1. CASE url' = [url EXCEPT ![loc[t].new] = loc[t].gw, ![loc[t].sid] = Home]
      BY <1>1, <1>2, <3>1
    <3> QED
      BY <1>2, <1>3, <1>5, <2>1, <3>1 DEF MigrateSwap
  <2>2. CASE DialAheadOk(t)
    BY <1>5, <2>2 DEF DialAheadOk
  <2> QED
    BY <1>3, <1>6, <2>1, <2>2 DEF MigrateStep, MigrateNext, MigrateDialOk, MigrateDialFails, MigrateRelease,
          Release, MigrateReady, DialAheadReady, DialAheadFails, DialAheadDone, poolVars
<1>7. CASE DrainStep(t) \/ RetireStep(t)
  BY <1>3, <1>4, <1>7 DEF DrainStep, DrainNext, DrainRelease, Release, DrainRemove,
        RetireStep, RetireNext, RetireCheck, RetireRelease, RetireRemove, poolVars
<1>8. CASE ScaleStep(t)
  BY <1>3, <1>5, <1>8 DEF ScaleStep, ScaleNext, ScaleDialOk, ScaleDialFails, ScaleReady, poolVars
<1>9. CASE ReconnectStep(t)
  BY <1>3, <1>9 DEF ReconnectStep, ReconnectClaim, ReconnectBegin, ReconnectTornDown, ReconnectDialOk,
        ReconnectDialFails, ReconnectReady, poolVars
<1>10. CASE CloseEnd(t)
  BY <1>1, <1>10 DEF CloseEnd
<1> QED
  BY <1>2, <1>6, <1>7, <1>8, <1>9, <1>10 DEF TaskStep

\* What a drain may be planned from, and a task of a scale has to dial.
LEMMA PlanTypes ==
  ASSUME slots \in Seq(Session)
  PROVE  /\ DrainCandidates \in Seq(Session)
         /\ \A plan \in DrainPlans(Len(DrainCandidates)) : plan.toDrain \in Nat
         /\ \A n \in ScaleTargets : PlanPoolScale(PoolTargetSize, Len(slots), n).toAdd \in Nat
<1>1. DrainCandidates \in Seq(Session)
  BY ElementsAtType, Zenon DEF DrainCandidates, SlotsWhere
<1>2. Len(slots) \in Nat /\ Len(DrainCandidates) \in Nat /\ PoolTargetSize \in Nat
  BY <1>1, PoolAssumption
<1>3. ASSUME NEW c \in DrainCounts
      PROVE  PlanPoolDrainByCount(Len(slots), c, Len(DrainCandidates)).toDrain \in Nat
  <2>1. c \in Nat
    BY PoolAssumption
  <2> QED
    BY <1>2, <2>1, DrainByCount, Zenon
<1>4. ASSUME NEW f \in Fractions
      PROVE  PlanPoolDrainByFraction(PoolTargetSize, Len(slots), f, Len(DrainCandidates)).toDrain \in Nat
  <2>1. f \in Fraction
    BY PoolAssumption
  <2> QED
    BY <1>2, <2>1, DrainByFraction, Zenon
<1>5. ASSUME NEW plan \in DrainPlans(Len(DrainCandidates)) PROVE plan.toDrain \in Nat
  BY <1>3, <1>4, Zenon DEF DrainPlans
<1>6. ASSUME NEW n \in ScaleTargets PROVE PlanPoolScale(PoolTargetSize, Len(slots), n).toAdd \in Nat
  <2>1. n \in Nat
    BY PoolAssumption
  <2>2. PlanPoolScale(PoolTargetSize, Len(slots), n).toAdd \in 0 .. PoolTargetSize
    BY <1>2, <2>1, ScaleBounds, Zenon
  <2> QED
    BY <1>2, <2>2
<1> QED
  BY <1>1, <1>5, <1>6

\* The tasks a scale starts share the sessions to add.
LEMMA ChunkType ==
  ASSUME NEW count \in Nat \ {0}, NEW i \in Nat
  PROVE  Chunk(count, i) \in Nat
<1> DEFINE limit == Smaller(Concurrency, count)
<1>1. limit \in Nat \ {0}
  BY PoolAssumption DEF Smaller
<1> HIDE DEF limit
<1>2. count + limit - 1 \in Nat
  BY <1>1
<1>3. ChunkSize(count) \in Nat
  <2>1. (count + limit - 1) \div limit \in Nat
    BY <1>1, <1>2, SMTT(60)
  <2> QED
    BY <2>1, Zenon DEF ChunkSize, limit
<1> DEFINE c == ChunkSize(count)
<1> HIDE DEF c
<1>4. i * c \in Nat
  BY <1>3 DEF c
<1> DEFINE d == i * c
<1> HIDE DEF d
<1>5. Smaller(c, SaturatingSub(count, d)) \in Nat
  BY <1>3, <1>4 DEF Smaller, SaturatingSub, c, d
<1> QED
  BY <1>5, Zenon DEF Chunk, c, d

\* A task starts with lists from the pool.
LEMMA StartLocals ==
  ASSUME PoolShape, Types, NEW t \in Task, Command(t)
  PROVE  loc' \in [Task -> LocType]
<1>t. loc \in [Task -> LocType] /\ slots \in Seq(Session) /\ Len(slots) \in Nat
  BY DEF Types, PoolShape
<1>e. <<>> \in Seq(Session) /\ NoSession \in Session \cup {NoSession} /\ 0 \in Nat /\ Home \in Gateway
  BY PoolAssumption
<1>0. CASE UNCHANGED loc
  BY <1>0, <1>t
<1>1. CASE DrainStart(t)
  <2>1. PICK plan \in DrainPlans(Len(DrainCandidates)) :
           \/ UNCHANGED loc
           \/ loc' = [loc EXCEPT ![t] = [FreeLoc EXCEPT !.todo = FirstOf(DrainCandidates, plan.toDrain)]]
    BY <1>1 DEF DrainStart
  <2> DEFINE q == FirstOf(DrainCandidates, plan.toDrain)
             r == [FreeLoc EXCEPT !.todo = q]
  <2>2. plan.toDrain \in Nat /\ DrainCandidates \in Seq(Session)
    BY <1>t, PlanTypes, Zenon
  <2>3. q \in Seq(Session)
    <3>1. plan.toDrain \in Int
      BY <2>2
    <3> QED
      BY <2>2, <3>1, FirstOfType, Zenon
  <2> HIDE DEF q
  <2>4. r \in LocType
    BY <2>3, FreeTypes, ZenonT(60) DEF LocType
  <2> HIDE DEF r
  <2>5. CASE loc' = [loc EXCEPT ![t] = r]
    BY <1>t, <2>4, <2>5, Zenon
  <2> QED
    BY <1>0, <2>1, <2>5 DEF q, r
<1>2. ASSUME NEW n \in ScaleTargets, ScaleStart(t, n) PROVE loc' \in [Task -> LocType]
  <2> DEFINE a == PlanPoolScale(PoolTargetSize, Len(slots), n).toAdd
             D == {u \in Task : u >= t /\ Chunk(a, u - t) > 0}
             New(u) == [FreeLoc EXCEPT !.n = Chunk(a, u - t)]
  <2>1. CASE a # 0 /\ loc' = [u \in Task |-> IF u \in D THEN New(u) ELSE loc[u]]
    <3>1. a \in Nat \ {0}
      BY <1>t, <2>1, PlanTypes, Zenon
    <3> HIDE DEF a
    <3>2. ASSUME NEW u \in D PROVE New(u) \in LocType
      <4>1. u - t \in Nat
        BY PoolAssumption DEF Task
      <4>2. Chunk(a, u - t) \in Nat
        BY <3>1, <4>1, ChunkType, Zenon
      <4> QED
        BY <4>2, FreeTypes, ZenonT(60) DEF LocType
    <3> HIDE DEF New, D
    <3> QED
      BY <1>t, <2>1, <3>2, Zenon
  <2> HIDE DEF New, D
  <2> QED
    BY <1>0, <1>2, <2>1 DEF ScaleStart, D, New
<1>3. ASSUME NEW g \in Gateway, NEW f \in Fractions, MigrateStart(t, g, f) PROVE loc' \in [Task -> LocType]
  <2> DEFINE held    == PrunedPending
             onTarget == Len(SlotsWhere(LAMBDA s : url[s] = g))
             logical == SaturatingSub(Len(slots), Cardinality(held))
             move    == PlanGatewayMigration(logical, onTarget, f).toMove
             free(s) == url[s] # g /\ s \notin held
             idle    == FirstOf(SlotsWhere(LAMBDA s : free(s) /\ ~SessionIsBusy(s)), move)
             busy    == SlotsWhere(LAMBDA s : free(s) /\ SessionIsBusy(s))
             ahead   == FirstOf(busy, move - Len(idle))
             r == [FreeLoc EXCEPT !.gw = g, !.keep = f[1] < f[2], !.todo = idle, !.planned = ahead]
  <2>1. UNCHANGED loc \/ loc' = [loc EXCEPT ![t] = r]
    BY <1>3, Zenon DEF MigrateStart
  <2>2. Cardinality(held) \in Nat
    <3>1. held \subseteq Session /\ IsFiniteSet(Session)
      <4>1. hold.pending \subseteq Session
        BY DEF Types, HoldType
      <4>2. IsFiniteSet(Session)
        BY PoolAssumption, FS_Interval DEF Session
      <4> QED
        BY <4>1, <4>2 DEF PrunedPending
    <3> HIDE DEF held
    <3> QED
      BY <3>1, FS_Subset, FS_CardinalityType
  <2>3. logical \in Nat
    <3> HIDE DEF held
    <3> QED
      BY <1>t, <2>2 DEF SaturatingSub
  <2>4. onTarget \in Nat
    <3> DEFINE q == SlotsWhere(LAMBDA s : url[s] = g)
    <3>1. q \in Seq(Session)
      BY <1>t, ElementsAtType, Zenon DEF SlotsWhere
    <3> HIDE DEF q
    <3>2. Len(q) \in Nat
      BY <3>1
    <3> QED
      BY <3>2, Zenon DEF q
  <2>5. f \in Fraction /\ f[1] \in Int /\ f[2] \in Int
    BY PoolAssumption DEF Fraction
  <2>6. move \in Nat /\ move \in Int
    <3> HIDE DEF logical, onTarget
    <3>1. move \in Nat
      BY <2>3, <2>4, <2>5, MigrationBounds, Zenon
    <3> QED
      BY <3>1
  <2>7. busy \in Seq(Session) /\ SlotsWhere(LAMBDA s : free(s) /\ ~SessionIsBusy(s)) \in Seq(Session)
    BY <1>t, ElementsAtType, Zenon DEF SlotsWhere
  <2> HIDE DEF move, busy
  <2>8. idle \in Seq(Session)
    BY <2>6, <2>7, FirstOfType, Zenon
  <2> HIDE DEF idle
  <2>9. ahead \in Seq(Session)
    <3>1. move - Len(idle) \in Int
      BY <2>6, <2>8
    <3> QED
      BY <2>7, <3>1, FirstOfType, Zenon
  <2> HIDE DEF ahead
  <2>10. (f[1] < f[2]) \in BOOLEAN
    BY <2>5
  <2>11. r \in LocType
    <3> DEFINE k == f[1] < f[2]
    <3>1. k \in BOOLEAN
      BY <2>10
    <3> HIDE DEF k
    <3> QED
      BY <2>8, <2>9, <3>1, FreeTypes, ZenonT(60) DEF LocType, k
  <2> HIDE DEF r
  <2>12. CASE loc' = [loc EXCEPT ![t] = r]
    BY <1>t, <2>11, <2>12, Zenon
  <2> QED
    BY <1>0, <2>1, <2>12
<1>4. CASE CloseStart(t)
  BY <1>0, <1>4 DEF CloseStart
<1> QED
  BY <1>1, <1>2, <1>3, <1>4 DEF Command

\* What a command does to the other typed variables.
LEMMA StartTypes ==
  ASSUME PoolShape, Types, NEW t \in Task, Command(t)
  PROVE  Types'
<1>1. loc' \in [Task -> LocType]
  BY StartLocals
<1>2. url \in [Session -> Gateway] /\ primary \in Gateway /\ hold \in HoldType /\ issued \in 0 .. MaxCommands
  BY DEF Types
<1>3. ASSUME NEW cmd, Begin(t, cmd) PROVE issued' \in 0 .. MaxCommands
  <2>1. issued < MaxCommands /\ issued' = issued + 1
    BY <1>3 DEF Begin
  <2> QED
    BY <1>2, <2>1, PoolAssumption
<1>4. issued' \in 0 .. MaxCommands
  BY <1>3 DEF Command, DrainStart, ScaleStart, MigrateStart, CloseStart
<1>5. UNCHANGED url
  BY DEF Command, DrainStart, ScaleStart, MigrateStart, CloseStart, poolVars
<1>6. ASSUME NEW g \in Gateway, NEW f \in Fractions, MigrateStart(t, g, f)
      PROVE  primary' \in Gateway /\ hold' \in HoldType
  <2>1. primary' = g
    BY <1>6 DEF MigrateStart
  <2>2. CASE hold' = [hold EXCEPT !.pending = PrunedPending]
    <3>1. PrunedPending \in SUBSET Session
      BY <1>2 DEF PrunedPending, HoldType
    <3>2. hold' \in HoldType
      BY <1>2, <2>2, <3>1, ZenonT(60) DEF HoldType
    <3> QED
      BY <2>1, <3>2
  <2>3. hold' = NoHold \/ hold' = [hold EXCEPT !.pending = PrunedPending]
    BY <1>6, Zenon DEF MigrateStart
  <2> QED
    BY <2>1, <2>2, <2>3, FreeTypes
<1>7. primary' \in Gateway /\ hold' \in HoldType
  <2>1. CASE DrainStart(t) \/ CloseStart(t) \/ \E n \in ScaleTargets : ScaleStart(t, n)
    <3>1. UNCHANGED <<primary, hold>>
      BY <2>1 DEF DrainStart, ScaleStart, CloseStart, poolVars
    <3> QED
      BY <1>2, <3>1
  <2> QED
    BY <1>6, <2>1 DEF Command
<1> QED
  BY <1>1, <1>2, <1>4, <1>5, <1>7 DEF Types

\* A reconnect is scheduled for a session of the pool or of a worker.
LEMMA ScheduleTypes ==
  ASSUME loc \in [Task -> LocType], NEW s \in Session \cup {NoSession}, ScheduleReconnect(s)
  PROVE  loc' \in [Task -> LocType]
<1> DEFINE r == [FreeLoc EXCEPT !.sid = s]
<1>1. r \in LocType
  BY FreeTypes, ZenonT(60) DEF LocType
<1> HIDE DEF r
<1>2. UNCHANGED loc \/ \E t \in Task : loc' = [loc EXCEPT ![t] = r]
  BY DEF ScheduleReconnect, r
<1> QED
  BY <1>1, <1>2, Zenon

\* The steps that are no task's keep the types, and dial nothing ahead.
LEMMA OtherTypes ==
  ASSUME IInv, Types, AheadOfOne, [Next]_vars, ~\E t \in Task : TaskStep(t)
  PROVE  Types' /\ AheadOfOne'
<1>1. PoolShape /\ TaskShape /\ PlaneShape /\ loc \in [Task -> LocType]
  BY DEF IInv, Types
<1>2. ASSUME IdleStart PROVE AheadOfOne'
  <2>1. \A u \in Task : pc'[u] = "mg_ahead_ready" => pc[u] = "mg_ahead_ready" /\ loc'[u] = loc[u]
    BY <1>2 DEF IdleStart
  <2> QED
    BY <2>1 DEF AheadOfOne
<1>3. ASSUME UNCHANGED <<poolVars, issued>>, loc' \in [Task -> LocType] PROVE Types'
  BY <1>3 DEF Types, poolVars
<1>4. CASE UNCHANGED <<poolVars, pc, loc, issued>>
  <2>1. IdleStart
    BY <1>1, <1>4, Unstarted
  <2> QED
    BY <1>1, <1>2, <1>3, <1>4, <2>1
<1>5. ASSUME NEW s \in Session \cup {NoSession}, ScheduleReconnect(s), UNCHANGED <<poolVars, issued>>
      PROVE  Types' /\ AheadOfOne'
  BY <1>1, <1>2, <1>3, <1>5, Scheduled, ScheduleTypes
<1>6. ASSUME NEW t \in Task, Command(t) PROVE Types' /\ AheadOfOne'
  BY <1>1, <1>2, <1>6, Commanded, StartTypes
<1>7. ASSUME NEW t \in Task, DetachedLost(t) PROVE Types' /\ AheadOfOne'
  BY <1>4, <1>7 DEF DetachedLost
<1>8. ASSUME NEW w \in Worker, WorkerStep(w) PROVE Types' /\ AheadOfOne'
  <2>1. CASE WorkerLost(w)
    <3>1. worker[w].sid \in Session \cup {NoSession}
      BY <1>1 DEF PlaneShape, WorkerRecord
    <3> QED
      BY <1>5, <2>1, <3>1 DEF WorkerLost
  <2> QED
    BY <1>4, <1>8, <2>1 DEF WorkerStep, WorkerTakesWork, WorkerDone, WorkerPostFails, WorkerStops
<1>9. ASSUME NEW s \in Session, Watch(s) \/ TransportLost(s) PROVE Types' /\ AheadOfOne'
  BY <1>4, <1>5, <1>9 DEF Watch, TransportLost
<1>10. CASE UNCHANGED vars
  BY <1>4, <1>10 DEF vars, poolVars
<1> QED
  BY <1>6, <1>7, <1>8, <1>9, <1>10 DEF Next

\* Every step keeps the types.
LEMMA StepTypes ==
  ASSUME IInv, Types, AheadOfOne, [Next]_vars
  PROVE  Types' /\ AheadOfOne'
<1>1. ASSUME NEW t \in Task, TaskStep(t) PROVE Types' /\ AheadOfOne'
  <2>1. PoolShape /\ TaskShape
    BY DEF IInv
  <2>2. loc' \in [Task -> LocType] /\ AheadOfOne' /\ hold' \in HoldType
    BY <1>1, <2>1, TaskLocals, TaskAhead, TaskHold
  <2>3. url' \in [Session -> Gateway] /\ UNCHANGED <<primary, issued>>
    BY <1>1, TaskUrls
  <2> QED
    BY <2>2, <2>3 DEF Types
<1> QED
  BY <1>1, OtherTypes

\* The first state is typed.
LEMMA InitTypes == Init => Types /\ AheadOfOne
<1> SUFFICES ASSUME Init PROVE Types /\ AheadOfOne
  OBVIOUS
<1>1. url \in [Session -> Gateway] /\ primary \in Gateway /\ issued \in 0 .. MaxCommands
  BY PoolAssumption DEF Init
<1>2. hold \in HoldType /\ loc \in [Task -> LocType]
  BY FreeTypes, Zenon DEF Init
<1>3. AheadOfOne
  BY DEF Init, AheadOfOne
<1> QED
  BY <1>1, <1>2, <1>3 DEF Types

\* Type correctness of the pool: every variable keeps its type.
THEOREM TypeCorrect == Spec => []TypeOK
<1>1. Init => TInv
  BY InitInv, InitTypes DEF TInv
<1>2. TInv /\ [Next]_vars => TInv'
  BY StepInv, StepTypes DEF TInv
<1>3. TInv => TypeOK
  BY DEF TInv, IInv, PoolShape, PlaneShape, TaskShape, WorkerRecord, Types, LocType, HoldType, TypeOK
<1> QED
  BY <1>1, <1>2, <1>3, PTL DEF Spec
=============================================================================
