------------------------- MODULE PoolCommandsProofs -------------------------
(***************************************************************************)
(* TLAPS proofs about PoolCommands, for every finite set of sessions, every *)
(* pool size, baseline and limit, and any number of commands.              *)
(***************************************************************************)
EXTENDS PoolCommands, PoolPlanningProofs, FiniteSetTheorems, TLAPS

-----------------------------------------------------------------------------
(* The inductive invariant *)

States == {"idle", "debounce", "decide", "scale", "dial", "drain", "look", "stop", "leave",
           "migrate", "move", "redial", "swap", "ahead", "moved", "retire", "recheck", "done"}

JobRecord == [st : States, n : Nat, missing : Nat, goal : Nat,
              ids : SUBSET Sessions, ahead : SUBSET Sessions, ready : SUBSET Sessions,
              cur : Sessions \cup {None}, new : Sessions \cup {None},
              ok : BOOLEAN, stale : BOOLEAN]

\* A command's record: one that dials has some dials left, at most a pool's,
\* and lacks no more sessions than that unless a dial failed; one that ended
\* well lacks none; one that rewrites a slot has a replacement in hand.
GoodJob(j) ==
    /\ j \in JobRecord
    /\ j.st = "dial" => /\ j.n \in 1..PoolTarget
                        /\ j.missing >= j.n
                        /\ j.ok => j.missing = j.n
    /\ j.st = "done" /\ j.ok => j.missing = 0
    /\ j.st = "swap" => j.new \in Sessions

JobType == job \in [Actors -> JobRecord] /\ \A a \in Actors : GoodJob(job[a])

PoolType ==
    /\ baseline \in Baselines
    /\ live \subseteq Sessions /\ registered \subseteq Sessions /\ working \subseteq Sessions
    /\ polling \subseteq Sessions \ (registered \cup working)
    /\ onTarget \subseteq live /\ primary \in {"home", "target"}
    /\ hold \in [pending : SUBSET Sessions, keep : BOOLEAN]

RestType ==
    /\ file \in [Actors -> Targets \cup {NoFile}]
    /\ desired \in Targets /\ hints \in Seq(Targets) /\ Len(hints) <= MaxHints
    /\ hits \in 0..MaxHits

\* The session of the worker that carries out an ops-control request has that
\* work in hand until the answer is posted: this is what the commands respect.
OwnIsWorking == own = None \/ own \in working

\* A replacement that has no worker yet is nobody else's.
NewIsFree ==
    /\ \A a \in Actors : job[a].new \notin registered \cup polling \cup working
    /\ \A a \in Actors, b \in Actors : a # b => job[a].new = None \/ job[a].new # job[b].new

IInv == PoolType /\ JobType /\ RestType /\ OwnIsWorking /\ NewIsFree /\ OwnSessionSpared

-----------------------------------------------------------------------------
(* What a step makes of the commands *)

\* What a command may have in hand next: what it had, or an idle session.
InHand(a) == job[a].ids \cup {job[a].cur, None} \cup {s \in live : ~Busy(s)}

\* The record j may follow actor a's.
Follows(a, j) ==
    /\ GoodJob(j)
    /\ j.new \in {None, job[a].new}
    /\ j.ids \cup {j.cur} \subseteq InHand(a)

\* The three ways a command's record is replaced.
Puts(a, j) ==
    Put(a, j) \/ PutRemoved(a, j) \/ \E ids \in SUBSET Sessions : PutRetire(a, ids, j)

\* What all steps of the commands but Redialled do to the records.
JobsFollow ==
    /\ JobType'
    /\ \A a \in Actors : job'[a].new \in {None, job[a].new}
    /\ job'["ops"].ids \cup {job'["ops"].cur} \subseteq InHand("ops")

\* A record that starts a command, or ends it, is well-formed.
LEMMA Jobs ==
  /\ \A st \in States \ {"dial", "swap"}, n \in Nat : GoodJob(Job(st, n))
  /\ \A st, n : Job(st, n).new = None /\ Job(st, n).ids = {} /\ Job(st, n).cur = None
  /\ GoodJob(Idle) /\ Idle.new = None /\ Idle.ids = {} /\ Idle.cur = None
<1>1. ASSUME NEW st \in States, NEW n \in Nat, st \notin {"dial", "swap"} PROVE GoodJob(Job(st, n))
  <2>1. Idle \in JobRecord
    BY DEF Idle, JobRecord, States
  <2>2. /\ Job(st, n) \in JobRecord /\ Job(st, n).st = st
        /\ Job(st, n).missing = Idle.missing
    BY <2>1 DEF Job, JobRecord
  <2>3. Idle.missing = 0
    BY DEF Idle
  <2> QED
    BY <1>1, <2>2, <2>3 DEF GoodJob
<1>2. GoodJob(Idle)
  BY DEF Idle, JobRecord, States, GoodJob
<1>3. \A st, n : Job(st, n).new = None /\ Job(st, n).ids = {} /\ Job(st, n).cur = None
  BY DEF Job, Idle
<1> QED
  BY <1>1, <1>2, <1>3 DEF Idle

\* Well-formed records stay so when they are replaced.
LEMMA Replaced ==
  ASSUME JobType, NEW a \in Actors, NEW j, Follows(a, j), Puts(a, j)
  PROVE  JobsFollow
<1>0. /\ \A b \in Actors : GoodJob(job[b]) /\ job[b] \in JobRecord
      /\ GoodJob(j) /\ j \in JobRecord /\ job \in [Actors -> JobRecord]
  BY DEF JobType, Follows, GoodJob
<1>1. CASE Put(a, j)
  <2>1. \A b \in Actors : job'[b] = IF b = a THEN j ELSE job[b]
    BY <1>0, <1>1 DEF Put
  <2>2. job' \in [Actors -> JobRecord]
    BY <1>0, <1>1 DEF Put
  <2>3. \A b \in Actors : GoodJob(job'[b])
    BY <1>0, <2>1
  <2>4. JobType'
    BY <2>2, <2>3 DEF JobType, GoodJob
  <2>5. \A b \in Actors : job'[b].new \in {None, job[b].new}
    BY <2>1 DEF Follows
  <2>6. "ops" \in Actors
    BY DEF Actors
  <2>7. job'["ops"].ids \cup {job'["ops"].cur} \subseteq InHand("ops")
    BY <2>1, <2>6 DEF Follows, InHand
  <2> QED
    BY <2>4, <2>5, <2>7 DEF JobsFollow
<1>2. CASE PutRemoved(a, j)
  <2> DEFINE k(b) == [job[b] EXCEPT !.stale = @ \/ job[b].st \in {"redial", "stop", "swap"}]
  <2>1. job' = [b \in Actors |-> IF b = a THEN j ELSE k(b)]
    BY <1>2 DEF PutRemoved
  <2>2. ASSUME NEW b \in Actors
        PROVE  /\ k(b) \in JobRecord /\ k(b).new = job[b].new /\ k(b).ids = job[b].ids
               /\ k(b).cur = job[b].cur /\ GoodJob(k(b))
    <3>1. job[b] \in JobRecord /\ GoodJob(job[b])
      BY <1>0
    <3>2. \E x \in BOOLEAN : k(b) = [job[b] EXCEPT !.stale = x]
      BY <3>1 DEF JobRecord
    <3>3. ASSUME NEW x \in BOOLEAN, NEW y, y = [job[b] EXCEPT !.stale = x]
          PROVE  /\ y \in JobRecord /\ y.new = job[b].new /\ y.ids = job[b].ids
                 /\ y.cur = job[b].cur /\ y.st = job[b].st /\ y.n = job[b].n
                 /\ y.missing = job[b].missing /\ y.ok = job[b].ok
      BY <3>1, <3>3 DEF JobRecord
    <3> HIDE DEF k
    <3> QED
      BY <3>1, <3>2, <3>3 DEF GoodJob
  <2> HIDE DEF k
  <2>3. \A b \in Actors : job'[b] = IF b = a THEN j ELSE k(b)
    BY <2>1
  <2>4. JobType'
    BY <1>0, <2>1, <2>2, <2>3 DEF JobType, GoodJob
  <2>5. \A b \in Actors : job'[b].new \in {None, job[b].new}
    BY <2>2, <2>3 DEF Follows
  <2>6. "ops" \in Actors
    BY DEF Actors
  <2>7. job'["ops"].ids \cup {job'["ops"].cur} \subseteq InHand("ops")
    BY <2>2, <2>3, <2>6 DEF Follows, InHand
  <2> QED
    BY <2>4, <2>5, <2>7 DEF JobsFollow
<1>3. ASSUME NEW ids \in SUBSET Sessions, PutRetire(a, ids, j)
      PROVE  JobsFollow
  <2> DEFINE x == job["retire"]
             r == [x EXCEPT !.ids = @ \cup ids, !.st = IF @ = "idle" THEN "retire" ELSE @]
             k(b) == IF b = "retire" /\ ids # {} THEN r ELSE job[b]
  <2>0. "retire" \in Actors /\ "ops" \in Actors /\ "ops" # "retire"
    BY DEF Actors
  <2>1. x \in JobRecord /\ GoodJob(x)
    BY <1>0, <2>0
  <2>2. job' = [b \in Actors |-> IF b = a THEN j ELSE k(b)]
    BY <1>3 DEF PutRetire
  <2>3. r \in JobRecord /\ GoodJob(r) /\ r.new = x.new
    <3> HIDE DEF x
    <3>1. /\ r \in JobRecord /\ r.new = x.new /\ r.n = x.n /\ r.missing = x.missing
          /\ r.ok = x.ok /\ r.st = IF x.st = "idle" THEN "retire" ELSE x.st
      BY <2>1 DEF JobRecord, States
    <3> HIDE DEF r
    <3> QED
      BY <2>1, <3>1 DEF GoodJob
  <2> HIDE DEF r
  <2>4. \A b \in Actors : /\ job'[b] = IF b = a THEN j ELSE k(b)
                          /\ k(b) \in JobRecord /\ GoodJob(k(b)) /\ k(b).new = job[b].new
    BY <1>0, <2>2, <2>3
  <2>5. k("ops") = job["ops"]
    BY <2>0
  <2> HIDE DEF k
  <2>6. JobType'
    BY <1>0, <2>2, <2>4 DEF JobType, GoodJob
  <2>7. \A b \in Actors : job'[b].new \in {None, job[b].new}
    BY <2>4 DEF Follows
  <2>8. job'["ops"].ids \cup {job'["ops"].cur} \subseteq InHand("ops")
    BY <2>0, <2>4, <2>5 DEF Follows, InHand
  <2> QED
    BY <2>6, <2>7, <2>8 DEF JobsFollow
<1> QED
  BY <1>1, <1>2, <1>3 DEF Puts

\* A record with nothing in hand may follow any.
LEMMA Blank ==
  ASSUME NEW a, NEW j, GoodJob(j), j.new = None, j.ids = {}, j.cur = None
  PROVE  Follows(a, j)
  BY DEF Follows, InHand

\* How a command ends.
LEMMA Ends ==
  ASSUME JobType, NEW a \in Actors, NEW ok \in BOOLEAN, Done(a, ok)
  PROVE  JobsFollow
<1> DEFINE j == IF a = "hint" THEN Idle ELSE [[Idle EXCEPT !.ok = ok] EXCEPT !.st = "done"]
<1>1. GoodJob(j) /\ j.new = None /\ j.ids = {} /\ j.cur = None
  BY DEF Idle, JobRecord, States, GoodJob
<1>2. Puts(a, j)
  BY DEF Done, End, Puts
<1> HIDE DEF j
<1> QED
  BY <1>1, <1>2, Blank, Replaced

\* What a command starts with.
LEMMA Becomes ==
  ASSUME JobType, NEW a \in Actors, NEW st \in States \ {"dial", "swap"}, NEW n \in Nat,
         Become(a, st, n)
  PROVE  JobsFollow
  BY Jobs, Blank, Replaced DEF Become, Puts

\* The records that do not change.
LEMMA Stays ==
  ASSUME JobType, job' = job
  PROVE  JobsFollow
  BY DEF JobType, GoodJob, JobsFollow, InHand, Actors

\* There are finitely many sessions, so their counts are numbers.
LEMMA Count ==
  ASSUME NEW S \in SUBSET Sessions PROVE IsFiniteSet(S) /\ Cardinality(S) \in Nat
  BY SessionsAssumption, FS_Subset, FS_CardinalityType

\* An id that is fresh is nobody's.
LEMMA FreshIsFree ==
  ASSUME FreshIds # {}
  PROVE  /\ Fresh \in Sessions
         /\ Fresh \notin live \cup registered \cup polling \cup working \cup {own}
         /\ \A a \in Actors : Fresh # job[a].new
<1>1. Fresh \in FreshIds
  BY DEF Fresh
<1>2. \A a \in Actors : job[a].new \in UNION {job[b].ids \cup job[b].ahead \cup job[b].ready
                            \cup {job[b].cur, job[b].new} : b \in Actors}
  OBVIOUS
<1> QED
  BY <1>1, <1>2, Zenon DEF FreshIds

\* The states a command's record passes through.
LEMMA StateNames ==
  /\ "look" \in States /\ "stop" \in States /\ "leave" \in States /\ "move" \in States
  /\ "ahead" \in States /\ "moved" \in States
  /\ "swap" \in States /\ "redial" \in States /\ "retire" \in States /\ "recheck" \in States
  BY DEF States

\* The fields of a record, each within its type.
LEMMA Fields ==
  ASSUME JobType, NEW a \in Actors
  PROVE  /\ job[a] \in JobRecord /\ GoodJob(job[a]) /\ job[a].st \in States
         /\ job[a].n \in Nat /\ job[a].missing \in Nat /\ job[a].ok \in BOOLEAN
         /\ job[a].ids \subseteq Sessions /\ job[a].ahead \subseteq Sessions
         /\ job[a].ready \subseteq Sessions /\ job[a].cur \in Sessions \cup {None}
         /\ job[a].new \in Sessions \cup {None}
<1>1. job[a] \in JobRecord /\ GoodJob(job[a])
  BY DEF JobType
<1> QED
  BY <1>1 DEF JobRecord

\* apply_desired_pool_target and scale_to keep the records well-formed.
LEMMA ScaleJobs ==
  ASSUME PoolType, JobType, NEW a \in Actors,
         ApplyDesiredPoolTarget(a) \/ ScaleTo(a) \/ ConnectOne(a) \/ ConnectFails(a)
  PROVE  JobsFollow
<1> USE SizesAssumption
<1>1. Cardinality(live) \in Nat
  BY Count DEF PoolType
<1>2. baseline \in Nat
  BY DEF PoolType
<1>3. CASE ApplyDesiredPoolTarget(a)
  <2> DEFINE want == ClampDesiredPoolTarget(job[a].n, baseline, PoolTarget)
             current == Cardinality(live)
  <2>1. want \in Nat
    BY <1>2, Fields DEF ClampDesiredPoolTarget, Smaller, Larger
  <2>2. Done(a, TRUE) \/ Become(a, "scale", want) \/ (want < current /\ Become(a, "drain", current - want))
    <3>1. ~(want = current) /\ ~(want > current) => want < current
      BY <1>1, <2>1
    <3> HIDE DEF want, current
    <3> QED
      BY <1>3, <3>1 DEF ApplyDesiredPoolTarget, want, current
  <2> HIDE DEF want, current
  <2>3. want < current => current - want \in Nat
    BY <1>1, <2>1 DEF current
  <2> QED
    BY <2>1, <2>2, <2>3, Becomes, Ends DEF States
<1>4. CASE ScaleTo(a)
  <2> DEFINE p == PlanPoolScale(PoolTarget, Cardinality(live), job[a].n)
             j == [Job("dial", p.toAdd) EXCEPT !.missing = p.toAdd]
  <2>1. p.toAdd \in 0..PoolTarget
    BY <1>1, Fields, ScaleBounds
  <2>2. Done(a, FALSE) \/ Done(a, TRUE) \/ (p.toAdd # 0 /\ Put(a, j))
    BY <1>4, Zenon DEF ScaleTo
  <2> HIDE DEF p
  <2>3. p.toAdd # 0 => p.toAdd \in 1..PoolTarget /\ p.toAdd \in Nat
    BY <2>1
  <2>4. ASSUME p.toAdd # 0 PROVE GoodJob(j) /\ j.new = None /\ j.ids = {} /\ j.cur = None
    <3>1. Idle \in JobRecord /\ Idle.new = None /\ Idle.ids = {} /\ Idle.cur = None
      BY DEF Idle, JobRecord, States
    <3>2. /\ j \in JobRecord /\ j.st = "dial" /\ j.n = p.toAdd /\ j.missing = p.toAdd
          /\ j.new = Idle.new /\ j.ids = Idle.ids /\ j.cur = Idle.cur
      BY <2>3, <2>4, <3>1 DEF Job, JobRecord, States
    <3> HIDE DEF j
    <3> QED
      BY <2>3, <2>4, <3>1, <3>2 DEF GoodJob
  <2> HIDE DEF j
  <2> QED
    BY <2>2, <2>4, Ends, Blank, Replaced DEF Puts
<1>5. ASSUME NEW ok \in BOOLEAN, Dialled(a, ok), job[a].st = "dial" PROVE JobsFollow
  <2> DEFINE j == [job[a] EXCEPT !.n = @ - 1, !.ok = @ /\ ok, !.missing = IF ok THEN @ - 1 ELSE @]
             d == [j EXCEPT !.st = "done"]
  <2>1. /\ job[a].n \in 1..PoolTarget /\ job[a].missing >= job[a].n
        /\ job[a].ok => job[a].missing = job[a].n
    BY <1>5, Fields DEF GoodJob
  <2>2. /\ job[a].n - 1 \in Nat /\ (job[a].n - 1 # 0 => job[a].n - 1 \in 1..PoolTarget)
        /\ job[a].missing - 1 \in Nat
    BY <2>1, Fields
  <2>3. /\ j \in JobRecord /\ j.n = job[a].n - 1
        /\ j.missing = (IF ok THEN job[a].missing - 1 ELSE job[a].missing)
        /\ j.ok = (job[a].ok /\ ok) /\ j.st = "dial" /\ j.new = job[a].new
        /\ j.ids = job[a].ids /\ j.cur = job[a].cur
    <3>1. (job[a].ok /\ ok) \in BOOLEAN
      BY Fields
    <3>2. (IF ok THEN job[a].missing - 1 ELSE job[a].missing) \in Nat
      BY <2>2, Fields
    <3> QED
      BY <1>5, <2>2, <3>1, <3>2, Fields DEF JobRecord
  <2> HIDE DEF j
  <2>4. j.n # 0 => Follows(a, j)
    BY <2>1, <2>2, <2>3, Fields DEF GoodJob, Follows, InHand
  <2>5. /\ d \in JobRecord /\ d.st = "done" /\ d.missing = j.missing /\ d.ok = j.ok
        /\ d.new = j.new /\ d.ids = j.ids /\ d.cur = j.cur
    BY <2>3 DEF JobRecord, States
  <2> HIDE DEF d
  <2>6. j.n = 0 /\ j.ok => j.missing = 0
    BY <2>1, <2>3, Fields
  <2>7. j.n = 0 => Follows(a, d)
    BY <2>3, <2>5, <2>6 DEF GoodJob, Follows, InHand
  <2>8. (j.n = 0 /\ Put(a, IF a = "hint" THEN Idle ELSE d)) \/ (j.n # 0 /\ Put(a, j))
    BY <1>5 DEF Dialled, End, j, d
  <2>9. Follows(a, Idle)
    BY Jobs, Blank
  <2> QED
    BY <2>4, <2>7, <2>8, <2>9, Replaced DEF Puts
<1> QED
  BY <1>3, <1>4, <1>5 DEF ConnectOne, ConnectFails

\* drain_with_plan takes idle sessions only.
LEMMA DrainJobs ==
  ASSUME PoolType, JobType, NEW a \in Actors,
         DrainWithPlan(a) \/ DrainLook(a) \/ StopSession(a) \/ SlotRemoved(a)
  PROVE  JobsFollow
<1>1. CASE DrainWithPlan(a)
  <2> DEFINE j(ids) == [Job("look", 0) EXCEPT !.ids = ids]
  <2>1. Done(a, FALSE) \/ \E ids \in SUBSET DrainCandidates : Put(a, j(ids))
    BY <1>1 DEF DrainWithPlan
  <2>2. ASSUME NEW ids \in SUBSET DrainCandidates PROVE Follows(a, j(ids))
    <3>1. ids \subseteq Sessions /\ ids \subseteq InHand(a)
      BY DEF DrainCandidates, PoolType, InHand
    <3>2. Idle \in JobRecord /\ Idle.new = None /\ Idle.cur = None
      BY DEF Idle, JobRecord, States
    <3>3. /\ j(ids) \in JobRecord /\ j(ids).st = "look" /\ j(ids).ids = ids
          /\ j(ids).new = None /\ j(ids).cur = None
      BY <3>1, <3>2 DEF Job, JobRecord, States
    <3>4. None \in InHand(a)
      BY DEF InHand
    <3> HIDE DEF j
    <3> QED
      BY <3>1, <3>3, <3>4 DEF Follows, GoodJob
  <2> HIDE DEF j
  <2> QED
    BY <2>1, <2>2, Ends, Replaced DEF Puts
<1>2. CASE DrainLook(a)
  <2> DEFINE spared(s) == [job[a] EXCEPT !.ids = @ \ {s}]
             taken(s) == [job[a] EXCEPT !.ids = @ \ {s}, !.cur = s, !.st = "stop"]
  <2>1. job[a].st = "look" /\ (Done(a, TRUE) \/ \E s \in job[a].ids : Put(a, spared(s)) \/ Put(a, taken(s)))
    BY <1>2 DEF DrainLook
  <2>2. ASSUME NEW s \in job[a].ids PROVE Follows(a, spared(s)) /\ Follows(a, taken(s))
    <3>1. s \in Sessions /\ job[a].ids \ {s} \in SUBSET Sessions
      BY Fields
    <3>2. /\ spared(s) \in JobRecord /\ spared(s).st = "look" /\ spared(s).ids = job[a].ids \ {s}
          /\ spared(s).cur = job[a].cur /\ spared(s).new = job[a].new
      BY <2>1, <3>1, Fields DEF JobRecord
    <3>3. /\ taken(s) \in JobRecord /\ taken(s).st = "stop" /\ taken(s).ids = job[a].ids \ {s}
          /\ taken(s).cur = s /\ taken(s).new = job[a].new
      BY <3>1, Fields, StateNames DEF JobRecord
    <3> HIDE DEF spared, taken
    <3> QED
      BY <3>2, <3>3 DEF Follows, GoodJob, InHand
  <2> HIDE DEF spared, taken
  <2> QED
    BY <2>1, <2>2, Ends, Replaced DEF Puts
<1>3. CASE StopSession(a)
  <2> DEFINE j == [job[a] EXCEPT !.st = IF job[a].new = None THEN "leave" ELSE "swap"]
  <2>1. Put(a, j)
    BY <1>3 DEF StopSession
  <2>2. /\ j \in JobRecord /\ j.st = (IF job[a].new = None THEN "leave" ELSE "swap")
        /\ j.ids = job[a].ids /\ j.cur = job[a].cur /\ j.new = job[a].new
    BY Fields, StateNames DEF JobRecord
  <2> HIDE DEF j
  <2>3. Follows(a, j)
    BY <2>2, Fields DEF Follows, GoodJob, InHand
  <2> QED
    BY <2>1, <2>3, Replaced DEF Puts
<1>4. CASE SlotRemoved(a)
  <2> DEFINE j == [job[a] EXCEPT !.cur = None, !.st = IF a = "retire" THEN "retire" ELSE "look"]
  <2>1. PutRemoved(a, j)
    BY <1>4 DEF SlotRemoved
  <2>2. /\ j \in JobRecord /\ j.st \in {"retire", "look"}
        /\ j.ids = job[a].ids /\ j.cur = None /\ j.new = job[a].new
    BY Fields, StateNames DEF JobRecord
  <2> HIDE DEF j
  <2>3. Follows(a, j)
    BY <2>2, Fields DEF Follows, GoodJob, InHand
  <2> QED
    BY <2>1, <2>3, Replaced DEF Puts
<1> QED
  BY <1>1, <1>2, <1>3, <1>4

\* migrate_gateway_pool releases sessions that were idle when it looked.
LEMMA MigrateJobs ==
  ASSUME PoolType, JobType, NEW a \in Actors,
         \/ MigratePlan(a) \/ MoveNext(a) \/ SlotReplaced(a)
         \/ DialAhead(a) \/ MigrateFails(a) \/ MigrateEnds(a)
  PROVE  JobsFollow
<1> USE SizesAssumption
<1>1. CASE MigratePlan(a)
  <2> DEFINE pending == {s \in hold.pending : s \in live \ onTarget}
             source == live \ (onTarget \cup pending)
             idle == {s \in source : ~Busy(s)}
             plan == PlanGatewayMigration(Cardinality(live) - Cardinality(pending),
                                          Cardinality(live \cap onTarget), Share(a))
             goal == IF plan.blocked THEN Cardinality(Sessions) + 1 ELSE plan.targetCount
             j(ids, ahead) == [Job("move", job[a].n) EXCEPT !.ids = ids, !.ahead = ahead, !.goal = goal]
  <2>1. goal \in Nat
    <3>1. pending \in SUBSET live /\ live \in SUBSET Sessions /\ live \cap onTarget \in SUBSET Sessions
      BY DEF PoolType
    <3>2. /\ Cardinality(live) \in Nat /\ Cardinality(pending) \in Nat /\ Cardinality(Sessions) \in Nat
          /\ Cardinality(live \cap onTarget) \in Nat
      BY <3>1, Count
    <3>3. Cardinality(pending) <= Cardinality(live)
      BY <3>1, Count, FS_Subset
    <3> HIDE DEF pending
    <3> DEFINE size == Cardinality(live) - Cardinality(pending)
    <3>4. size \in Nat
      BY <3>2, <3>3
    <3>5. CASE Share(a) \in Fraction
      <4>1. plan.targetCount \in 0..size
        BY <3>2, <3>4, <3>5, MigrationBounds
      <4> QED
        BY <3>2, <3>4, <4>1
    <3>6. CASE Share(a) \notin Fraction
      <4>1. job[a].n = 0
        BY <3>6, Fields DEF Share, Fraction
      <4>2. ~ValidFraction(Share(a))
        BY <4>1 DEF Share, ValidFraction
      <4>3. plan.blocked
        BY <4>2 DEF PlanGatewayMigration, MigrationPlan
      <4> QED
        BY <3>2, <4>3
    <3> QED
      BY <3>5, <3>6
  <2>2. \E ids \in SUBSET idle, ahead \in SUBSET (source \ idle) : Put(a, j(ids, ahead))
    BY <1>1 DEF MigratePlan
  <2>3. source \subseteq Sessions /\ idle \subseteq {s \in live : ~Busy(s)}
    BY DEF PoolType
  <2> HIDE DEF goal
  <2>4. ASSUME NEW ids \in SUBSET idle, NEW ahead \in SUBSET (source \ idle)
        PROVE  Follows(a, j(ids, ahead))
    <3>1. ids \subseteq Sessions /\ ahead \subseteq Sessions /\ ids \subseteq InHand(a) /\ None \in InHand(a)
      BY <2>3 DEF InHand
    <3> HIDE DEF idle, source
    <3>2. Idle \in JobRecord /\ Idle.new = None /\ Idle.cur = None
      BY DEF Idle, JobRecord, States
    <3>3. /\ j(ids, ahead) \in JobRecord /\ j(ids, ahead).st = "move" /\ j(ids, ahead).ids = ids
          /\ j(ids, ahead).new = None /\ j(ids, ahead).cur = None
      BY <2>1, <3>1, <3>2, Fields DEF Job, JobRecord, States
    <3> HIDE DEF j
    <3> QED
      BY <3>1, <3>3 DEF Follows, GoodJob
  <2> HIDE DEF j, idle, source
  <2> QED
    BY <2>2, <2>4, Replaced DEF Puts
<1>2. CASE MoveNext(a)
  <2> DEFINE gone(s) == [job[a] EXCEPT !.ids = @ \ {s}]
             taken(s) == [job[a] EXCEPT !.ids = @ \ {s}, !.cur = s, !.st = "redial", !.stale = FALSE]
             on(st) == [job[a] EXCEPT !.st = st]
  <2>1. /\ job[a].st = "move"
        /\ \/ \E s \in job[a].ids : Put(a, gone(s)) \/ Put(a, taken(s))
           \/ \E st \in {"ahead", "moved"} : Put(a, on(st))
    BY <1>2 DEF MoveNext
  <2>2. ASSUME NEW s \in job[a].ids PROVE Follows(a, gone(s)) /\ Follows(a, taken(s))
    <3>1. s \in Sessions /\ job[a].ids \ {s} \in SUBSET Sessions
      BY Fields
    <3>2. /\ gone(s) \in JobRecord /\ gone(s).st = "move" /\ gone(s).ids = job[a].ids \ {s}
          /\ gone(s).cur = job[a].cur /\ gone(s).new = job[a].new
      BY <2>1, <3>1, Fields DEF JobRecord
    <3>3. /\ taken(s) \in JobRecord /\ taken(s).st = "redial" /\ taken(s).ids = job[a].ids \ {s}
          /\ taken(s).cur = s /\ taken(s).new = job[a].new
      BY <3>1, Fields, StateNames DEF JobRecord
    <3> HIDE DEF gone, taken
    <3> QED
      BY <3>2, <3>3 DEF Follows, GoodJob, InHand
  <2>3. ASSUME NEW st \in {"ahead", "moved"} PROVE Follows(a, on(st))
    <3>1. /\ on(st) \in JobRecord /\ on(st).st = st /\ on(st).ids = job[a].ids
          /\ on(st).cur = job[a].cur /\ on(st).new = job[a].new
      BY Fields, StateNames DEF JobRecord
    <3> HIDE DEF on
    <3> QED
      BY <3>1 DEF Follows, GoodJob, InHand
  <2> HIDE DEF gone, taken, on
  <2> QED
    BY <2>1, <2>2, <2>3, Replaced DEF Puts
<1>3. CASE SlotReplaced(a)
  <2> DEFINE j == [job[a] EXCEPT !.cur = None, !.new = None, !.st = "move"]
  <2>1. Put(a, j)
    BY <1>3 DEF SlotReplaced
  <2>2. j \in JobRecord /\ j.st = "move" /\ j.ids = job[a].ids /\ j.cur = None /\ j.new = None
    BY Fields, StateNames DEF JobRecord
  <2> HIDE DEF j
  <2>3. Follows(a, j)
    BY <2>2 DEF Follows, GoodJob, InHand
  <2> QED
    BY <2>1, <2>3, Replaced DEF Puts
<1>4. CASE DialAhead(a)
  <2> DEFINE j(s) == [job[a] EXCEPT !.ahead = @ \ {s}, !.ready = @ \cup {s}]
             k(s) == [j(s) EXCEPT !.ready = {}, !.st = "moved"]
  <2>1. /\ job[a].st = "ahead"
        /\ \E s \in job[a].ahead : Put(a, j(s)) \/ PutRetire(a, j(s).ready, k(s))
    BY <1>4 DEF DialAhead
  <2>2. ASSUME NEW s \in job[a].ahead
        PROVE  Follows(a, j(s)) /\ Follows(a, k(s)) /\ j(s).ready \in SUBSET Sessions
    <3>1. job[a].ahead \ {s} \in SUBSET Sessions /\ job[a].ready \cup {s} \in SUBSET Sessions
      BY Fields
    <3>2. /\ j(s) \in JobRecord /\ j(s).st = "ahead" /\ j(s).ids = job[a].ids
          /\ j(s).cur = job[a].cur /\ j(s).new = job[a].new /\ j(s).ready \in SUBSET Sessions
      BY <2>1, <3>1, Fields DEF JobRecord
    <3> HIDE DEF j
    <3>3. /\ k(s) \in JobRecord /\ k(s).st = "moved" /\ k(s).ids = job[a].ids
          /\ k(s).cur = job[a].cur /\ k(s).new = job[a].new
      BY <3>2 DEF JobRecord, States
    <3> HIDE DEF k
    <3> QED
      BY <3>2, <3>3 DEF Follows, GoodJob, InHand
  <2> HIDE DEF j, k
  <2> QED
    BY <2>1, <2>2, Replaced DEF Puts
<1>5. CASE MigrateFails(a)
  <2> DEFINE j == [Job("done", 0) EXCEPT !.ok = FALSE]
  <2>1. PutRetire(a, job[a].ready, j)
    BY <1>5 DEF MigrateFails
  <2>2. GoodJob(j) /\ j.new = None /\ j.ids = {} /\ j.cur = None
    <3>1. Idle \in JobRecord /\ Idle.new = None /\ Idle.cur = None /\ Idle.ids = {}
      BY DEF Idle, JobRecord, States
    <3>2. /\ j \in JobRecord /\ j.st = "done" /\ j.ok = FALSE
          /\ j.ids = {} /\ j.cur = None /\ j.new = None
      BY <3>1 DEF Job, JobRecord, States
    <3> HIDE DEF j
    <3> QED
      BY <3>2 DEF GoodJob
  <2> HIDE DEF j
  <2>3. job[a].ready \in SUBSET Sessions
    BY Fields
  <2> QED
    BY <2>1, <2>2, <2>3, Blank, Replaced DEF Puts
<1>6. CASE MigrateEnds(a)
  <2>1. Done(a, TRUE) \/ Become(a, "migrate", job[a].n)
    BY <1>6 DEF MigrateEnds
  <2> QED
    BY <2>1, Ends, Becomes, Fields DEF States
<1> QED
  BY <1>1, <1>2, <1>3, <1>4, <1>5, <1>6

\* The deferred retirement, the hints, ops control and the request files.
LEMMA TaskJobs ==
  ASSUME PoolType, JobType, RestType,
         \/ RetireNext \/ RetireLook \/ HintReceived \/ HintDebounced \/ OpsAnswered
         \/ \E a \in Actors : ControlEnds(a)
         \/ \E a \in {"scale", "drain", "migrate"} : ControlStarts(a, a)
         \/ \E op \in {"force_target", "drain", "migrate", "other"}, n \in Targets, s \in Sessions :
               OpsArrives(op, n, s)
  PROVE  JobsFollow
<1> USE SizesAssumption, TargetsAssumption
<1>0. "retire" \in Actors /\ "hint" \in Actors /\ "ops" \in Actors
  BY DEF Actors
<1>1. ASSUME NEW a \in Actors, Put(a, Idle) PROVE JobsFollow
  BY <1>1, Jobs, Blank, Replaced DEF Puts
<1>2. CASE RetireNext
  <2> DEFINE r == job["retire"]
             gone(s) == [r EXCEPT !.ids = @ \ {s}]
             taken(s) == [r EXCEPT !.ids = @ \ {s}, !.cur = s, !.st = "recheck"]
  <2>1. /\ r.st = "retire"
        /\ Put("retire", Idle) \/ \E s \in r.ids : Put("retire", gone(s)) \/ Put("retire", taken(s))
    BY <1>2 DEF RetireNext
  <2>2. ASSUME NEW s \in r.ids PROVE Follows("retire", gone(s)) /\ Follows("retire", taken(s))
    <3>1. s \in Sessions /\ r.ids \ {s} \in SUBSET Sessions /\ r \in JobRecord
      BY <1>0, Fields
    <3>2. /\ gone(s) \in JobRecord /\ gone(s).st = "retire" /\ gone(s).ids = r.ids \ {s}
          /\ gone(s).cur = r.cur /\ gone(s).new = r.new
      BY <2>1, <3>1 DEF JobRecord
    <3>3. /\ taken(s) \in JobRecord /\ taken(s).st = "recheck" /\ taken(s).ids = r.ids \ {s}
          /\ taken(s).cur = s /\ taken(s).new = r.new
      BY <3>1 DEF JobRecord, States
    <3> HIDE DEF gone, taken
    <3> QED
      BY <3>2, <3>3 DEF Follows, GoodJob, InHand
  <2> HIDE DEF gone, taken
  <2> QED
    BY <1>0, <1>1, <2>1, <2>2, Replaced DEF Puts
<1>3. CASE RetireLook
  <2> DEFINE r == job["retire"]
             spared == [r EXCEPT !.cur = None, !.st = "retire"]
             taken == [r EXCEPT !.st = "stop"]
  <2>1. Put("retire", spared) \/ Put("retire", taken)
    BY <1>3 DEF RetireLook
  <2>2. Follows("retire", spared) /\ Follows("retire", taken)
    <3>1. r \in JobRecord
      BY <1>0, Fields
    <3>2. /\ spared \in JobRecord /\ spared.st = "retire" /\ spared.ids = r.ids
          /\ spared.cur = None /\ spared.new = r.new
      BY <3>1 DEF JobRecord, States
    <3>3. /\ taken \in JobRecord /\ taken.st = "stop" /\ taken.ids = r.ids
          /\ taken.cur = r.cur /\ taken.new = r.new
      BY <3>1 DEF JobRecord, States
    <3> HIDE DEF spared, taken
    <3> QED
      BY <3>2, <3>3 DEF Follows, GoodJob, InHand
  <2> HIDE DEF spared, taken
  <2> QED
    BY <1>0, <2>1, <2>2, Replaced DEF Puts
<1>4. CASE HintReceived
  <2>1. Become("hint", "debounce", Head(hints)) /\ hints # <<>>
    BY <1>4 DEF HintReceived
  <2>2. hints \in Seq(Targets)
    BY DEF RestType
  <2>3. Head(hints) \in Targets
    BY <2>1, <2>2
  <2> QED
    BY <1>0, <2>1, <2>3, Becomes DEF States
<1>5. CASE HintDebounced
  <2>1. PICK n : Become("hint", "decide", n) /\ n = IF hints = <<>> THEN job["hint"].n ELSE Last(hints)
    BY <1>5 DEF HintDebounced
  <2>2. hints \in Seq(Targets)
    BY DEF RestType
  <2>3. hints # <<>> => Last(hints) \in Targets
    BY <2>2 DEF Last
  <2>4. n \in Nat
    BY <1>0, <2>1, <2>3, Fields
  <2> QED
    BY <1>0, <2>1, <2>4, Becomes DEF States
<1>6. ASSUME NEW op \in {"force_target", "drain", "migrate", "other"}, NEW n \in Targets, NEW s,
             OpsArrives(op, n, s)
      PROVE  JobsFollow
  <2>1. PICK st \in {"decide", "drain", "migrate", "done"}, m \in {0, n} : OpsStart(op, n) = Job(st, m)
    BY DEF OpsStart
  <2>2. Done("ops", FALSE) \/ Become("ops", st, m)
    BY <1>6, <2>1 DEF OpsArrives, Become
  <2>3. st \in States \ {"dial", "swap"} /\ m \in Nat
    BY DEF States
  <2> QED
    BY <1>0, <2>2, <2>3, Ends, Becomes
<1>7. ASSUME NEW a \in {"scale", "drain", "migrate"}, ControlStarts(a, a) PROVE JobsFollow
  <2>1. file[a] # NoFile /\ Become(a, a, file[a]) /\ a \in Actors /\ a \in States \ {"dial", "swap"}
    BY <1>7 DEF ControlStarts, Actors, States
  <2>2. file[a] \in Nat
    BY <2>1 DEF RestType
  <2> QED
    BY <2>1, <2>2, Becomes
<1> QED
  BY <1>0, <1>1, <1>2, <1>3, <1>4, <1>5, <1>6, <1>7 DEF OpsAnswered, ControlEnds

-----------------------------------------------------------------------------
(* What a step makes of the sessions *)

\* A step keeps an operation off its own session, and replacements free, when
\* the workers it starts, N, have no work in hand and are no replacement.
LEMMA Kept ==
  ASSUME IInv, JobsFollow, PoolType', NEW N,
         registered' \subseteq registered \cup N,
         polling' \cup working' \subseteq registered \cup polling \cup working \cup N,
         N \cap working = {}, \A a \in Actors : job'[a].new \notin N,
         own' = own, own # None => own \in working'
  PROVE  OwnIsWorking' /\ NewIsFree' /\ OwnSessionSpared'
<1>1. OwnIsWorking'
  BY DEF OwnIsWorking
<1>2. NewIsFree'
  <2>1. None \notin registered' \cup polling' \cup working'
    BY SessionsAssumption DEF PoolType
  <2>2. \A a \in Actors : job'[a].new \in {None, job[a].new}
    BY DEF JobsFollow
  <2>3. \A a \in Actors : job'[a].new \notin registered' \cup polling' \cup working'
    BY <2>1, <2>2 DEF IInv, NewIsFree
  <2>4. \A a \in Actors, b \in Actors : a # b => job'[a].new = None \/ job'[a].new # job'[b].new
    BY <2>2 DEF IInv, NewIsFree
  <2> QED
    BY <2>3, <2>4 DEF NewIsFree
<1>3. OwnSessionSpared'
  <2> SUFFICES ASSUME own \in registered' PROVE own \notin job'["ops"].ids \cup {job'["ops"].cur}
    BY DEF OwnSessionSpared
  <2>1. own # None
    BY SessionsAssumption DEF PoolType
  <2>2. own \in working /\ own \in registered
    BY <2>1 DEF IInv, OwnIsWorking
  <2>3. own \notin InHand("ops")
    BY <2>1, <2>2 DEF IInv, OwnSessionSpared, InHand, Busy
  <2> QED
    BY <2>3 DEF JobsFollow
<1> QED
  BY <1>1, <1>2, <1>3

\* What every step but Redialled keeps of the sessions.
Sound == PoolType' /\ OwnIsWorking' /\ NewIsFree' /\ OwnSessionSpared'

\* Steps that leave the sessions alone.
LEMMA Untouched ==
  ASSUME IInv, JobsFollow, UNCHANGED <<pool, working, own>>
  PROVE  Sound
<1>1. PoolType'
  BY DEF IInv, PoolType, pool
<1>2. UNCHANGED <<registered, polling, working, own>>
  BY DEF pool
<1>7. /\ registered' \subseteq registered \cup {}
      /\ polling' \cup working' \subseteq registered \cup polling \cup working \cup {}
      /\ {} \cap working = {} /\ own' = own /\ \A b \in Actors : job'[b].new \notin {}
  BY <1>1, <1>2
<1>8. own # None => own \in working'
  BY <1>1, <1>2 DEF IInv, OwnIsWorking
<1> QED
  BY <1>1, <1>2, <1>7, <1>8, Kept DEF Sound

\* Steps that touch only the hold and the primary gateway.
LEMMA HoldOnly ==
  ASSUME IInv, JobsFollow, hold' \in [pending : SUBSET Sessions, keep : BOOLEAN],
         primary' \in {"home", "target"},
         UNCHANGED <<baseline, live, registered, polling, onTarget, working, own>>
  PROVE  Sound
<1>1. PoolType'
  BY DEF IInv, PoolType
<1>7. /\ registered' \subseteq registered \cup {}
      /\ polling' \cup working' \subseteq registered \cup polling \cup working \cup {}
      /\ {} \cap working = {} /\ own' = own /\ \A b \in Actors : job'[b].new \notin {}
  BY <1>1
<1>8. own # None => own \in working'
  BY <1>1 DEF IInv, OwnIsWorking
<1> QED
  BY <1>1, <1>7, <1>8, Kept DEF Sound

\* A hold with part of its pending sessions, or armed anew, is a hold.
LEMMA Holds ==
  ASSUME PoolType, NEW ids \in SUBSET Sessions
  PROVE  /\ Keeping(ids) \in [pending : SUBSET Sessions, keep : BOOLEAN]
         /\ \A a : Armed(a, ids) \in [pending : SUBSET Sessions, keep : BOOLEAN]
  BY DEF PoolType, Keeping, Armed, NoHold

\* A new session joins the pool.
LEMMA JoinSound ==
  ASSUME IInv, JobsFollow, FreshIds # {}, NEW g, Joins(Fresh, g), UNCHANGED <<hold, working, own>>
  PROVE  Sound
<1>1. /\ Fresh \in Sessions /\ Fresh \notin registered \cup polling \cup working
      /\ \A a \in Actors : Fresh # job[a].new
  BY FreshIsFree
<1>2. /\ live' = live \cup {Fresh} /\ registered' = registered \cup {Fresh}
      /\ onTarget' \subseteq onTarget \cup {Fresh} /\ UNCHANGED <<baseline, polling, primary>>
  BY DEF Joins
<1> HIDE DEF Fresh
<1>3. PoolType'
  BY <1>1, <1>2 DEF IInv, PoolType
<1>4. \A a \in Actors : job'[a].new # Fresh
  BY <1>1, SessionsAssumption DEF JobsFollow
<1>7. /\ registered' \subseteq registered \cup {Fresh}
      /\ polling' \cup working' \subseteq registered \cup polling \cup working \cup {Fresh}
      /\ {Fresh} \cap working = {} /\ own' = own /\ \A b \in Actors : job'[b].new \notin {Fresh}
  BY <1>1, <1>2, <1>3, <1>4
<1>8. own # None => own \in working'
  BY <1>1, <1>2, <1>3, <1>4 DEF IInv, OwnIsWorking
<1> QED
  BY <1>1, <1>2, <1>3, <1>4, <1>7, <1>8, Kept DEF Sound

\* A session is stopped, and its slot removed.
LEMMA ReleaseSound ==
  ASSUME IInv, JobsFollow, NEW a \in Actors, StopSession(a) \/ SlotRemoved(a)
  PROVE  Sound
<1> DEFINE s == job[a].cur
<1>1. CASE StopSession(a)
  <2>1. /\ registered' = registered \ {s}
        /\ polling' = (IF s \in registered \ working THEN polling \cup {s} ELSE polling)
        /\ UNCHANGED <<baseline, live, onTarget, primary, hold, working, own>>
    BY <1>1 DEF StopSession
  <2> HIDE DEF s
  <2>2. PoolType'
    BY <2>1 DEF IInv, PoolType
  <2>7. /\ registered' \subseteq registered \cup {}
        /\ polling' \cup working' \subseteq registered \cup polling \cup working \cup {}
        /\ {} \cap working = {} /\ own' = own /\ \A b \in Actors : job'[b].new \notin {}
    BY <2>1, <2>2
  <2>8. own # None => own \in working'
    BY <2>1, <2>2 DEF IInv, OwnIsWorking
  <2> QED
    BY <2>1, <2>2, <2>7, <2>8, Kept DEF Sound
<1>2. CASE SlotRemoved(a)
  <2>1. /\ live' = live \ {s} /\ onTarget' = onTarget \ {s} /\ polling' = polling \ {s}
        /\ hold' = hold \/ hold' = Keeping(hold.pending \ {s})
        /\ UNCHANGED <<baseline, registered, primary, working, own>>
    BY <1>2 DEF SlotRemoved
  <2> HIDE DEF s
  <2>2. hold' \in [pending : SUBSET Sessions, keep : BOOLEAN]
    <3>1. PoolType /\ hold.pending \ {s} \in SUBSET Sessions
      BY DEF IInv, PoolType
    <3> QED
      BY <2>1, <3>1, Holds DEF PoolType
  <2>3. PoolType'
    BY <2>1, <2>2 DEF IInv, PoolType
  <2>7. /\ registered' \subseteq registered \cup {}
        /\ polling' \cup working' \subseteq registered \cup polling \cup working \cup {}
        /\ {} \cap working = {} /\ own' = own /\ \A b \in Actors : job'[b].new \notin {}
    BY <2>1, <2>3
  <2>8. own # None => own \in working'
    BY <2>1, <2>3 DEF IInv, OwnIsWorking
  <2> QED
    BY <2>1, <2>3, <2>7, <2>8, Kept DEF Sound
<1> QED
  BY <1>1, <1>2

\* A migrated session's slot is rewritten.
LEMMA ReplaceSound ==
  ASSUME IInv, JobsFollow, NEW a \in Actors, SlotReplaced(a)
  PROVE  Sound
<1> DEFINE s == job[a].cur
           t == job[a].new
<1>1. /\ t \in Sessions /\ t \notin registered \cup polling \cup working
      /\ \A b \in Actors : a # b => t = None \/ t # job[b].new
  BY Fields DEF IInv, SlotReplaced, GoodJob, NewIsFree
<1>2. /\ live' \in {(live \ {s}) \cup {t}, live, live \cup {t}}
      /\ registered' = registered \cup {t}
      /\ onTarget' = (onTarget \cup {t}) \cap live' /\ polling' = polling \ {s}
      /\ UNCHANGED <<baseline, primary, hold, working, own>>
  BY DEF SlotReplaced
<1>3. job'[a].new = None
  <2>1. JobType /\ job \in [Actors -> JobRecord]
    BY DEF IInv, JobType
  <2>2. job'[a] = [job[a] EXCEPT !.cur = None, !.new = None, !.st = "move"]
    BY <2>1 DEF SlotReplaced, Put
  <2> QED
    BY <2>1, <2>2, Fields DEF JobRecord
<1> HIDE DEF s, t
<1>4. PoolType'
  BY <1>1, <1>2 DEF IInv, PoolType
<1>5. \A b \in Actors : job'[b].new # t
  BY <1>1, <1>3, SessionsAssumption DEF JobsFollow
<1>7. /\ registered' \subseteq registered \cup {t}
      /\ polling' \cup working' \subseteq registered \cup polling \cup working \cup {t}
      /\ {t} \cap working = {} /\ own' = own /\ \A b \in Actors : job'[b].new \notin {t}
  BY <1>1, <1>2, <1>4, <1>5
<1>8. own # None => own \in working'
  BY <1>1, <1>2, <1>4, <1>5 DEF IInv, OwnIsWorking
<1> QED
  BY <1>1, <1>2, <1>4, <1>5, <1>7, <1>8, Kept DEF Sound

\* A worker takes work, or has done it.
LEMMA WorkSound ==
  ASSUME IInv, JobsFollow, NEW s \in Sessions,
         (Takes(s) /\ own' = own) \/ WorkEnds(s)
  PROVE  Sound
<1>1. CASE Takes(s) /\ own' = own
  <2>1. /\ s \in registered \cup polling /\ working' = working \cup {s} /\ polling' = polling \ {s}
        /\ UNCHANGED <<baseline, live, registered, onTarget, primary, hold, own>>
    BY <1>1 DEF Takes
  <2>2. PoolType'
    BY <2>1 DEF IInv, PoolType
  <2>7. /\ registered' \subseteq registered \cup {}
        /\ polling' \cup working' \subseteq registered \cup polling \cup working \cup {}
        /\ {} \cap working = {} /\ own' = own /\ \A b \in Actors : job'[b].new \notin {}
    BY <2>1, <2>2
  <2>8. own # None => own \in working'
    BY <2>1, <2>2 DEF IInv, OwnIsWorking
  <2> QED
    BY <2>1, <2>2, <2>7, <2>8, Kept DEF Sound
<1>2. CASE WorkEnds(s)
  <2>1. /\ s # own /\ working' = working \ {s}
        /\ UNCHANGED <<baseline, live, registered, polling, onTarget, primary, hold, own>>
    BY <1>2 DEF WorkEnds, pool
  <2>2. PoolType'
    BY <2>1 DEF IInv, PoolType
  <2>7. /\ registered' \subseteq registered \cup {}
        /\ polling' \cup working' \subseteq registered \cup polling \cup working \cup {}
        /\ {} \cap working = {} /\ own' = own /\ \A b \in Actors : job'[b].new \notin {}
    BY <2>1, <2>2
  <2>8. own # None => own \in working'
    BY <2>1, <2>2 DEF IInv, OwnIsWorking
  <2> QED
    BY <2>1, <2>2, <2>7, <2>8, Kept DEF Sound
<1> QED
  BY <1>1, <1>2

\* An ops-control request is taken by a worker and answered.
LEMMA OpsSound ==
  ASSUME IInv, JobsFollow,
         \/ OpsAnswered
         \/ \E op \in {"force_target", "drain", "migrate", "other"}, n \in Targets, s \in Sessions :
               OpsArrives(op, n, s)
  PROVE  Sound
<1>0. /\ \A a \in Actors : job'[a].new \in {None, job[a].new}
      /\ None \notin Sessions
  BY SessionsAssumption DEF JobsFollow
<1>1. ASSUME PoolType', registered' \cup polling' \cup working' \subseteq registered \cup polling \cup working
      PROVE  NewIsFree'
  <2>1. None \notin registered' \cup polling' \cup working'
    BY <1>0, <1>1 DEF PoolType
  <2>2. \A a \in Actors : job'[a].new \notin registered' \cup polling' \cup working'
    BY <1>0, <1>1, <2>1 DEF IInv, NewIsFree
  <2>3. \A a \in Actors, b \in Actors : a # b => job'[a].new = None \/ job'[a].new # job'[b].new
    BY <1>0 DEF IInv, NewIsFree
  <2> QED
    BY <2>2, <2>3 DEF NewIsFree
<1>2. CASE OpsAnswered
  <2>1. working' = working \ {own} /\ own' = None
        /\ UNCHANGED <<baseline, live, registered, polling, onTarget, primary, hold>>
    BY <1>2 DEF OpsAnswered, pool
  <2>2. PoolType'
    BY <2>1 DEF IInv, PoolType
  <2>3. NewIsFree'
    BY <1>1, <2>1, <2>2
  <2>4. own' \notin registered'
    BY <1>0, <2>1, <2>2 DEF PoolType
  <2> QED
    BY <2>1, <2>2, <2>3, <2>4 DEF Sound, OwnIsWorking, OwnSessionSpared
<1>3. ASSUME NEW op \in {"force_target", "drain", "migrate", "other"}, NEW n \in Targets,
             NEW s \in Sessions, OpsArrives(op, n, s)
      PROVE  Sound
  <2>1. /\ s \in registered \cup polling /\ working' = working \cup {s} /\ polling' = polling \ {s}
        /\ own' = s /\ UNCHANGED <<baseline, live, registered, onTarget, primary, hold>>
    BY <1>3 DEF OpsArrives, Takes
  <2>2. PoolType'
    BY <2>1 DEF IInv, PoolType
  <2>3. NewIsFree'
    BY <1>1, <2>1, <2>2
  <2>4. job'["ops"].ids = {} /\ job'["ops"].cur = None
    <3>1. job \in [Actors -> JobRecord] /\ "ops" \in Actors
      BY DEF IInv, JobType, Actors
    <3>2. Done("ops", FALSE) \/ Put("ops", OpsStart(op, n))
      BY <1>3 DEF OpsArrives
    <3>3. \E st, m : OpsStart(op, n) = Job(st, m)
      BY DEF OpsStart
    <3>4. CASE Put("ops", OpsStart(op, n))
      BY <3>1, <3>3, <3>4, Jobs DEF Put
    <3>5. CASE Done("ops", FALSE)
      <4>1. job'["ops"] = [[Idle EXCEPT !.ok = FALSE] EXCEPT !.st = "done"]
        BY <3>1, <3>5 DEF Done, End, Put
      <4> QED
        BY <4>1 DEF Idle
    <3> QED
      BY <3>2, <3>4, <3>5
  <2> QED
    BY <1>0, <2>1, <2>2, <2>3, <2>4 DEF Sound, OwnIsWorking, OwnSessionSpared
<1> QED
  BY <1>2, <1>3

\* A replacement is connected: a fresh session without a worker.
LEMMA RedialSound ==
  ASSUME IInv, NEW a \in Actors, Redialled(a)
  PROVE  JobType' /\ Sound
<1> DEFINE j == [job[a] EXCEPT !.new = Fresh, !.st = "stop"]
<1>0. JobType /\ job \in [Actors -> JobRecord]
  BY DEF IInv, JobType
<1>1. /\ Fresh \in Sessions /\ Fresh \notin registered \cup polling \cup working
      /\ \A b \in Actors : Fresh # job[b].new
  BY FreshIsFree DEF Redialled
<1> HIDE DEF Fresh
<1>2. j \in JobRecord /\ j.st = "stop" /\ j.new = Fresh /\ j.ids = job[a].ids /\ j.cur = job[a].cur
  BY <1>0, <1>1, Fields, StateNames DEF JobRecord
<1>3. \A b \in Actors : job'[b] = IF b = a THEN j ELSE job[b]
  BY <1>0 DEF Redialled, Put
<1>4. UNCHANGED <<baseline, live, registered, polling, onTarget, primary, hold, working, own>>
  BY DEF Redialled, pool
<1>5. job' \in [Actors -> JobRecord]
  BY <1>0, <1>2 DEF Redialled, Put
<1> HIDE DEF j
<1>6. JobType'
  <2>1. GoodJob(j) /\ \A b \in Actors : GoodJob(job[b])
    BY <1>0, <1>2 DEF GoodJob, JobType
  <2> QED
    BY <1>3, <1>5, <2>1 DEF JobType, GoodJob
<1>7. PoolType' /\ OwnIsWorking'
  BY <1>4 DEF IInv, PoolType, OwnIsWorking
<1>8. NewIsFree'
  BY <1>1, <1>2, <1>3, <1>4 DEF IInv, NewIsFree
<1>9. OwnSessionSpared'
  BY <1>2, <1>3, <1>4 DEF IInv, OwnSessionSpared, Actors
<1> QED
  BY <1>6, <1>7, <1>8, <1>9 DEF Sound

-----------------------------------------------------------------------------
(* The invariant is inductive *)

\* The pool at its floor and at rest.
LEMMA InitInv == Init => IInv
<1> SUFFICES ASSUME Init PROVE IInv
  OBVIOUS
<1> USE SizesAssumption, SessionsAssumption
<1>1. live \in SUBSET Sessions
  BY DEF Init
<1>2. PoolType
  BY <1>1 DEF Init, PoolType, NoHold
<1>3. \A a \in Actors : job[a] = Idle
  BY DEF Init
<1>4. JobType
  BY <1>3, Jobs DEF Init, JobType, GoodJob
<1>5. RestType
  BY DEF Init, RestType
<1>6. OwnIsWorking /\ NewIsFree
  BY <1>1, <1>3, Jobs DEF Init, OwnIsWorking, NewIsFree
<1>7. OwnSessionSpared
  BY <1>1 DEF Init, OwnSessionSpared
<1> QED
  BY <1>2, <1>4, <1>5, <1>6, <1>7 DEF IInv

\* Commands stay well-formed, and the sessions sound.
LEMMA StepSound ==
  ASSUME IInv, [Next]_vars
  PROVE  JobType' /\ Sound
<1>0. JobType /\ PoolType /\ RestType
  BY DEF IInv
<1>1. JobsFollow => JobType'
  BY DEF JobsFollow
<1>2. ASSUME NEW a \in Actors, Carry(a) \/ ConnectFails(a) \/ MigrateFails(a) PROVE JobType' /\ Sound
  <2>1. CASE ApplyDesiredPoolTarget(a) \/ ScaleTo(a) \/ ConnectFails(a)
    <3>1. UNCHANGED <<pool, working, own>>
      BY <2>1 DEF ApplyDesiredPoolTarget, ScaleTo, ConnectFails
    <3> QED
      BY <1>0, <1>1, <2>1, <3>1, ScaleJobs, Untouched
  <2>2. CASE ConnectOne(a)
    <3>1. FreshIds # {} /\ Joins(Fresh, primary) /\ UNCHANGED <<hold, working, own>>
      BY <2>2 DEF ConnectOne
    <3> QED
      BY <1>0, <1>1, <2>2, <3>1, ScaleJobs, JoinSound
  <2>3. CASE DrainWithPlan(a) \/ DrainLook(a)
    <3>1. UNCHANGED <<pool, working, own>>
      BY <2>3 DEF DrainWithPlan, DrainLook
    <3> QED
      BY <1>0, <1>1, <2>3, <3>1, DrainJobs, Untouched
  <2>4. CASE StopSession(a) \/ SlotRemoved(a)
    BY <1>0, <1>1, <2>4, DrainJobs, ReleaseSound
  <2>5. CASE MigratePlan(a)
    <3> DEFINE ids == {s \in hold.pending : s \in live \ onTarget}
    <3>1. /\ hold' = Keeping(ids) /\ primary' = "target"
          /\ UNCHANGED <<baseline, live, registered, polling, onTarget, working, own>>
      BY <2>5 DEF MigratePlan
    <3>2. ids \in SUBSET Sessions
      BY <1>0 DEF PoolType
    <3> HIDE DEF ids
    <3> QED
      BY <1>0, <1>1, <2>5, <3>1, <3>2, Holds, MigrateJobs, HoldOnly
  <2>6. CASE MoveNext(a)
    <3>1. /\ hold' = hold \/ hold' = Armed(a, job[a].ahead)
          /\ UNCHANGED <<baseline, live, registered, polling, onTarget, primary, working, own>>
      BY <2>6 DEF MoveNext
    <3>2. job[a].ahead \in SUBSET Sessions
      BY <1>0, Fields
    <3>3. /\ hold' \in [pending : SUBSET Sessions, keep : BOOLEAN]
          /\ primary' \in {"home", "target"}
      BY <1>0, <3>1, <3>2, Holds DEF PoolType
    <3> QED
      BY <1>0, <1>1, <2>6, <3>1, <3>3, MigrateJobs, HoldOnly
  <2>7. CASE MigrateFails(a)
    <3>1. /\ hold' = hold \/ hold' = Armed(a, job[a].ready)
          /\ UNCHANGED <<baseline, live, registered, polling, onTarget, primary, working, own>>
      BY <2>7 DEF MigrateFails
    <3>2. job[a].ready \in SUBSET Sessions
      BY <1>0, Fields
    <3>3. /\ hold' \in [pending : SUBSET Sessions, keep : BOOLEAN]
          /\ primary' \in {"home", "target"}
      BY <1>0, <3>1, <3>2, Holds DEF PoolType
    <3> QED
      BY <1>0, <1>1, <2>7, <3>1, <3>3, MigrateJobs, HoldOnly
  <2>8. CASE Redialled(a)
    BY <2>8, RedialSound
  <2>9. CASE SlotReplaced(a)
    BY <1>0, <1>1, <2>9, MigrateJobs, ReplaceSound
  <2>10. CASE DialAhead(a)
    <3>1. FreshIds # {} /\ Joins(Fresh, "target") /\ UNCHANGED <<hold, working, own>>
      BY <2>10 DEF DialAhead
    <3> QED
      BY <1>0, <1>1, <2>10, <3>1, MigrateJobs, JoinSound
  <2>11. CASE MigrateEnds(a)
    <3>1. UNCHANGED <<pool, working, own>>
      BY <2>11 DEF MigrateEnds
    <3> QED
      BY <1>0, <1>1, <2>11, <3>1, MigrateJobs, Untouched
  <2>12. CASE ControlEnds(a)
    <3>1. UNCHANGED <<pool, working, own>>
      BY <2>12 DEF ControlEnds
    <3> QED
      BY <1>0, <1>1, <2>12, <3>1, TaskJobs, Untouched
  <2> QED
    BY <1>2, <2>1, <2>2, <2>3, <2>4, <2>5, <2>6, <2>7, <2>8, <2>9, <2>10, <2>11, <2>12
       DEF Carry, Migrate
<1>3. CASE RetireNext
  <2>1. /\ hold' = hold \/ \E s : hold' = Keeping(hold.pending \ {s})
        /\ UNCHANGED <<baseline, live, registered, polling, onTarget, primary, working, own>>
    BY <1>3 DEF RetireNext
  <2>2. \A s : hold.pending \ {s} \in SUBSET Sessions
    BY <1>0 DEF PoolType
  <2>3. hold' \in [pending : SUBSET Sessions, keep : BOOLEAN] /\ primary' \in {"home", "target"}
    BY <1>0, <2>1, <2>2, Holds DEF PoolType
  <2> QED
    BY <1>0, <1>1, <1>3, <2>1, <2>3, TaskJobs, HoldOnly
<1>4. CASE \/ RetireLook \/ HintReceived \/ HintDebounced
           \/ \E a \in {"scale", "drain", "migrate"} : ControlStarts(a, a)
  <2>1. UNCHANGED <<pool, working, own>>
    BY <1>4 DEF RetireLook, HintReceived, HintDebounced, ControlStarts
  <2> QED
    BY <1>0, <1>1, <1>4, <2>1, TaskJobs, Untouched
<1>5. CASE \/ HintArrives \/ GatewayChangesItsMind \/ WindowSlides \/ UNCHANGED vars
           \/ \E a \in {"scale", "drain", "migrate"}, n \in Targets : RequestWritten(a, n)
  <2>1. UNCHANGED <<pool, working, job, own>>
    BY <1>5 DEF HintArrives, GatewayChangesItsMind, WindowSlides, RequestWritten, vars
  <2> QED
    BY <1>0, <1>1, <2>1, Stays, Untouched
<1>6. CASE \/ OpsAnswered
           \/ \E op \in {"force_target", "drain", "migrate", "other"}, n \in Targets, s \in Sessions :
                 OpsArrives(op, n, s)
  BY <1>0, <1>1, <1>6, TaskJobs, OpsSound
<1>7. ASSUME NEW s \in Sessions, WorkStarts(s) \/ WorkEnds(s) PROVE JobType' /\ Sound
  <2>1. job' = job /\ ((Takes(s) /\ own' = own) \/ WorkEnds(s))
    BY <1>7 DEF WorkStarts, WorkEnds
  <2> QED
    BY <1>0, <1>1, <2>1, Stays, WorkSound
<1>8. "hint" \in Actors /\ "ops" \in Actors /\ "scale" \in Actors /\ "retire" \in Actors
      /\ {"drain", "migrate"} \subseteq Actors
  BY DEF Actors
<1> QED
  BY <1>2, <1>3, <1>4, <1>5, <1>6, <1>7, <1>8
     DEF Next, HintTask, OpsTask, ScaleTask, RetireTask

\* The steps that change a request file: the operator writes it, and a control
\* removes it when its command ended well (the drain's in any case).
LEMMA FileSteps ==
  ASSUME IInv, [Next]_vars, file' # file
  PROVE  \/ \E a \in {"scale", "drain", "migrate"}, n \in Targets : RequestWritten(a, n)
         \/ \E a \in Actors : /\ ControlEnds(a) /\ (job[a].ok \/ a = "drain")
                              /\ file' = [file EXCEPT ![a] = NoFile]
<1>1. ASSUME NEW a \in Actors, Carry(a) \/ ConnectFails(a) \/ MigrateFails(a) PROVE ControlEnds(a)
  BY <1>1 DEF Carry, Migrate, ApplyDesiredPoolTarget, ScaleTo, ConnectOne, ConnectFails,
              DrainWithPlan, DrainLook, StopSession, SlotRemoved, MigratePlan, MoveNext,
              Redialled, SlotReplaced, DialAhead, MigrateFails, MigrateEnds, outside
<1>2. ASSUME NEW a \in Actors, ControlEnds(a)
      PROVE  (job[a].ok \/ a = "drain") /\ file' = [file EXCEPT ![a] = NoFile]
  <2>1. file' = [file EXCEPT ![a] = IF job[a].ok \/ a = "drain" THEN NoFile ELSE file[a]]
    BY <1>2 DEF ControlEnds
  <2>2. file \in [Actors -> Targets \cup {NoFile}]
    BY DEF IInv, RestType
  <2> QED
    BY <2>1, <2>2
<1>3. ASSUME \/ RetireNext \/ RetireLook \/ HintReceived \/ HintDebounced \/ OpsAnswered
             \/ HintArrives \/ GatewayChangesItsMind \/ WindowSlides \/ UNCHANGED vars
      PROVE  FALSE
  BY <1>3 DEF RetireNext, RetireLook, HintReceived, HintDebounced, OpsAnswered, HintArrives,
              GatewayChangesItsMind, WindowSlides, vars, outside
<1>4. ASSUME NEW a, ControlStarts(a, a) PROVE FALSE
  BY <1>4 DEF ControlStarts, outside
<1>5. ASSUME NEW s, WorkStarts(s) \/ WorkEnds(s) PROVE FALSE
  BY <1>5 DEF WorkStarts, WorkEnds, outside
<1>6. ASSUME NEW op, NEW n, NEW s, OpsArrives(op, n, s) PROVE FALSE
  BY <1>6 DEF OpsArrives
<1>7. "hint" \in Actors /\ "ops" \in Actors /\ "scale" \in Actors /\ "retire" \in Actors
      /\ {"drain", "migrate"} \subseteq Actors
  BY DEF Actors
<1>8. \/ \E a \in Actors : ControlEnds(a)
      \/ \E a \in {"scale", "drain", "migrate"}, n \in Targets : RequestWritten(a, n)
  BY <1>1, <1>3, <1>4, <1>5, <1>6, <1>7 DEF Next, HintTask, OpsTask, ScaleTask, RetireTask
<1> QED
  BY <1>2, <1>8

\* The limiter's window, the applier's channel and the request files stay
\* within their bounds.
LEMMA StepRest ==
  ASSUME IInv, [Next]_vars
  PROVE  RestType'
<1> USE SizesAssumption
<1>0. RestType
  BY DEF IInv
<1>1. file' \in [Actors -> Targets \cup {NoFile}]
  <2>1. CASE file' = file
    BY <1>0, <2>1 DEF RestType
  <2>2. CASE \E a \in Actors : file' = [file EXCEPT ![a] = NoFile]
    BY <1>0, <2>2 DEF RestType
  <2>3. ASSUME NEW a \in {"scale", "drain", "migrate"}, NEW n \in Targets, RequestWritten(a, n)
        PROVE  file' \in [Actors -> Targets \cup {NoFile}]
    BY <1>0, <2>3 DEF RestType, RequestWritten
  <2> QED
    BY <2>1, <2>2, <2>3, FileSteps
<1>2. CASE UNCHANGED <<desired, hints, hits>>
  BY <1>0, <1>1, <1>2 DEF RestType
<1>3. CASE HintArrives
  <2>1. Len(hints) < MaxHints /\ hints' = Append(hints, desired) /\ UNCHANGED <<desired, hits>>
    BY <1>3 DEF HintArrives
  <2>2. hints' \in Seq(Targets) /\ Len(hints') = Len(hints) + 1 /\ Len(hints) \in Nat
    BY <1>0, <2>1 DEF RestType
  <2> QED
    BY <1>0, <1>1, <2>1, <2>2 DEF RestType
<1>4. CASE HintReceived
  <2>1. hints # <<>> /\ hints' = Tail(hints) /\ UNCHANGED <<desired, hits>>
    BY <1>4 DEF HintReceived
  <2>2. hints' \in Seq(Targets) /\ Len(hints') = Len(hints) - 1 /\ Len(hints) \in Nat
    BY <1>0, <2>1 DEF RestType
  <2> QED
    BY <1>0, <1>1, <2>1, <2>2 DEF RestType
<1>5. CASE HintDebounced
  <2>1. hints' = <<>> /\ UNCHANGED <<desired, hits>>
    BY <1>5 DEF HintDebounced
  <2> QED
    BY <1>0, <1>1, <2>1 DEF RestType
<1>6. CASE GatewayChangesItsMind
  <2>1. desired' \in Targets /\ UNCHANGED <<hints, hits>>
    BY <1>6 DEF GatewayChangesItsMind
  <2> QED
    BY <1>0, <1>1, <2>1 DEF RestType
<1>7. ASSUME NEW op \in {"force_target", "drain", "migrate", "other"}, NEW n, NEW s, OpsArrives(op, n, s)
      PROVE  RestType'
  <2>1. UNCHANGED <<desired, hints>>
    BY <1>7 DEF OpsArrives
  <2>2. hits' = hits \/ (hits' = hits + 1 /\ ~(hits >= MaxHits))
    BY <1>7 DEF OpsArrives, RateLimited
  <2>3. hits' \in 0..MaxHits
    BY <1>0, <2>2 DEF RestType
  <2> QED
    BY <1>0, <1>1, <2>1, <2>3 DEF RestType
<1>8. CASE WindowSlides
  <2>1. hits > 0 /\ hits' = hits - 1 /\ UNCHANGED <<desired, hints>>
    BY <1>8 DEF WindowSlides
  <2>2. hits' \in 0..MaxHits
    BY <1>0, <2>1 DEF RestType
  <2> QED
    BY <1>0, <1>1, <2>1, <2>2 DEF RestType
<1>9. ASSUME NEW a \in Actors, Carry(a) \/ ConnectFails(a) \/ MigrateFails(a) PROVE RestType'
  BY <1>2, <1>9 DEF Carry, Migrate, ApplyDesiredPoolTarget, ScaleTo, ConnectOne, ConnectFails,
              DrainWithPlan, DrainLook, StopSession, SlotRemoved, MigratePlan, MoveNext, ControlEnds,
              Redialled, SlotReplaced, DialAhead, MigrateFails, MigrateEnds, outside
<1>10. CASE RetireNext \/ RetireLook \/ OpsAnswered \/ UNCHANGED vars
  BY <1>2, <1>10 DEF RetireNext, RetireLook, OpsAnswered, vars, outside
<1>11. ASSUME NEW a, NEW n, ControlStarts(a, n) \/ RequestWritten(a, n) PROVE RestType'
  BY <1>2, <1>11 DEF ControlStarts, RequestWritten, outside
<1>12. ASSUME NEW s, WorkStarts(s) \/ WorkEnds(s) PROVE RestType'
  BY <1>2, <1>12 DEF WorkStarts, WorkEnds, outside
<1>13. "hint" \in Actors /\ "ops" \in Actors /\ "scale" \in Actors /\ "retire" \in Actors
       /\ {"drain", "migrate"} \subseteq Actors
  BY DEF Actors
<1> QED
  BY <1>3, <1>4, <1>5, <1>6, <1>7, <1>8, <1>9, <1>10, <1>11, <1>12, <1>13
     DEF Next, HintTask, OpsTask, ScaleTask, RetireTask

\* The invariant holds in every reachable state.
LEMMA Invariance == Spec => []IInv
<1>1. IInv /\ [Next]_vars => IInv'
  BY StepSound, StepRest DEF IInv, Sound
<1> QED
  BY <1>1, InitInv, PTL DEF Spec

-----------------------------------------------------------------------------
(* Theorems *)

\* However commands interleave, the limiter admits no more than MaxHits
\* requests to its window, a command dials at most the pool's target, and a
\* stopped worker's last poll is out only while it has no work.
THEOREM TypeCorrect == Spec => []TypeOK
<1>1. IInv => TypeOK
  <2> SUFFICES ASSUME IInv PROVE TypeOK
    OBVIOUS
  <2>1. PoolType /\ JobType /\ RestType /\ OwnIsWorking
    BY DEF IInv
  <2>2. own \in Sessions \cup {None}
    BY <2>1 DEF PoolType, OwnIsWorking
  <2>3. \A a \in Actors : file[a] \in Targets \cup {NoFile}
    BY <2>1 DEF RestType
  <2>4. ASSUME NEW a \in Actors
        PROVE  /\ job[a].st \in States
               /\ job[a].n \in Nat /\ job[a].missing \in Nat
               /\ job[a].ids \subseteq Sessions /\ job[a].ok \in BOOLEAN
               /\ job[a].st = "dial" => job[a].n \in 1..PoolTarget
    BY <2>1, Fields DEF GoodJob
  <2> QED
    BY <2>1, <2>2, <2>3, <2>4 DEF TypeOK, PoolType, RestType, States
<1> QED
  BY <1>1, Invariance, PTL

\* Whatever other commands do meanwhile, an ops-control drain or migration
\* never lists the session of the worker that carries it out, nor takes it
\* down, unless another command had stopped that session before.
THEOREM OwnSessionSurvives == Spec => []OwnSessionSpared
<1>1. IInv => OwnSessionSpared
  BY DEF IInv
<1> QED
  BY <1>1, Invariance, PTL

\* The scale control's request file outlives every pass in which a dial
\* failed: it is removed only when no session of the plan is missing.
THEOREM ScaleFileKept == Spec => RemovedWhenMet
<1>1. ASSUME IInv, [Next]_vars, file["scale"] # NoFile, file'["scale"] = NoFile
      PROVE  job["scale"].missing = 0
  <2>1. file \in [Actors -> Targets \cup {NoFile}] /\ JobType /\ "scale" \in Actors
    BY <1>1 DEF IInv, RestType, Actors
  <2>2. ASSUME NEW a \in {"scale", "drain", "migrate"}, NEW n \in Targets, RequestWritten(a, n)
        PROVE  FALSE
    <3>1. file' = [file EXCEPT ![a] = n]
      BY <2>2 DEF RequestWritten
    <3> QED
      BY <1>1, <2>1, <3>1, TargetsAssumption
  <2>3. PICK a \in Actors : /\ ControlEnds(a) /\ (job[a].ok \/ a = "drain")
                            /\ file' = [file EXCEPT ![a] = NoFile]
    BY <1>1, <2>2, FileSteps
  <2>4. a = "scale"
    BY <1>1, <2>1, <2>3
  <2>5. job["scale"].st = "done" /\ job["scale"].ok
    BY <2>3, <2>4 DEF ControlEnds
  <2> QED
    BY <2>1, <2>5, Fields DEF GoodJob
<1>2. IInv /\ [Next]_vars => [file["scale"] # NoFile /\ file'["scale"] = NoFile => job["scale"].missing = 0]_vars
  BY <1>1
<1> QED
  BY <1>2, Invariance, PTL DEF Spec, RemovedWhenMet

=============================================================================
