---------------------------- MODULE PoolCommands ----------------------------
(***************************************************************************)
(* Who may resize the pool, and how their commands interleave: the         *)
(* debounced applier of the gateway's desired-pool hints (desired_pool.rs),*)
(* attested ops-control work (plane/ops_control.rs), the operator's        *)
(* request files (controls/scale.rs, drain.rs, migrate.rs), and the        *)
(* deferred retirement a migration leaves behind (pool.rs).                *)
(*                                                                         *)
(* Every actor plans from what it reads and then acts session by session,  *)
(* without a lock over the whole command.  Claims, reconnects and the      *)
(* transports themselves are SupervisedPool's.  All migrations name the    *)
(* same target gateway, and the deferred retirements are one task.         *)
(***************************************************************************)
EXTENDS PoolPlanning, Sequences, SequencesExt, FiniteSets

CONSTANTS
    Sessions,        \* session ids
    PoolTarget,      \* config.pool_target_size
    Baselines,       \* values of config.pool_baseline
    Targets,         \* sizes the gateway and the operator may ask for
    MaxHits,         \* OpsControlRateLimiter.max_hits
    MaxCommands,     \* bound: ops-control requests and request files
    MaxWork,         \* bound: requests the sessions serve
    MaxEvents,       \* bound: changes of the gateway's target, failed
                     \* dials and repeated migrations, together
    MaxHints,        \* bound: hints waiting in the applier's channel
    None,            \* no session
    NoFile           \* no request file

ASSUME TargetsAssumption == Targets \subseteq Nat \ {0} /\ NoFile \notin Targets
ASSUME SizesAssumption ==
    PoolTarget \in Nat \ {0} /\ Baselines \subseteq Nat \ {0} /\ MaxHits \in Nat /\ MaxHints \in Nat

\* Ids enough for the pool at its floor.
ASSUME SessionsAssumption ==
    /\ IsFiniteSet(Sessions) /\ None \notin Sessions
    /\ \A b \in Baselines : \E s \in SUBSET Sessions : Cardinality(s) = Smaller(b, PoolTarget)

Actors == {"hint", "ops", "scale", "drain", "migrate", "retire"}

VARIABLES
    baseline,        \* config.pool_baseline
    live,            \* sessions with a slot
    registered,      \* sessions whose pull worker is in the registry
    polling,         \* sessions whose stopped worker still has its last poll out
    working,         \* sessions whose worker has work in hand
    onTarget,        \* those dialled onto the migration's target
    primary,         \* where new sessions are dialled: "home" or "target"
    hold,            \* migration_hold: [pending, keep]
    job,             \* job[a]: the command actor a is carrying out
    own,             \* the session whose worker carries out "ops", or None
    desired,         \* the size the gateway wants
    hints,           \* the applier's channel
    hits,            \* hits in the rate limiter's window
    file,            \* file[a]: the operator's request file
    budget           \* how much of each bounded kind of event is left

pool == <<baseline, live, registered, polling, onTarget, primary, hold>>
outside == <<desired, hints, hits, file, budget>>
vars == <<pool, working, job, own, outside>>

\* st: where the command is; n: its number; missing (history): sessions its
\* scale plan still lacks; goal: a migration's target_count; ids, ahead: its
\* idle and its busy sessions; ready: busy sessions already replaced; cur: the
\* session being released; new: its replacement; stale: a slot was removed
\* since cur's index was read.
Idle == [st |-> "idle", n |-> 0, missing |-> 0, goal |-> 0, ids |-> {}, ahead |-> {},
         ready |-> {}, cur |-> None, new |-> None, ok |-> TRUE, stale |-> FALSE]
Job(st, n) == [Idle EXCEPT !.st = st, !.n = n]
Put(a, j) == job' = [job EXCEPT ![a] = j]
Become(a, st, n) == Put(a, Job(st, n))

\* A command ends as j; the applier of hints only logs how.
End(a, j) == Put(a, IF a = "hint" THEN Idle ELSE [j EXCEPT !.st = "done"])
Done(a, ok) == End(a, [Idle EXCEPT !.ok = ok])
Spend(kind) == budget[kind] > 0 /\ budget' = [budget EXCEPT ![kind] = @ - 1]

NoHold == [pending |-> {}, keep |-> FALSE]

\* session_is_busy: a session without a registered worker counts as idle.
Busy(s) == s \in registered /\ s \in working

\* A fresh uuid: an id nothing refers to.
FreshIds ==
    Sessions \ (live \cup registered \cup polling \cup working \cup hold.pending \cup {own}
                \cup UNION {job[a].ids \cup job[a].ahead \cup job[a].ready
                            \cup {job[a].cur, job[a].new} : a \in Actors})

Fresh == CHOOSE s \in FreshIds : TRUE

\* The pool at its floor and at rest, with requests of the last minute already
\* in the limiter's window.
Init ==
    /\ baseline \in Baselines
    /\ live = CHOOSE s \in SUBSET Sessions : Cardinality(s) = Smaller(baseline, PoolTarget)
    /\ registered = live
    /\ polling = {} /\ working = {} /\ onTarget = {}
    /\ primary = "home"
    /\ hold = NoHold
    /\ job = [a \in Actors |-> Idle]
    /\ own = None
    /\ desired \in Targets
    /\ hints = <<>>
    /\ hits \in 0..MaxHits
    /\ file = [a \in Actors |-> NoFile]
    /\ budget = [command |-> MaxCommands, work |-> MaxWork, event |-> MaxEvents]

-----------------------------------------------------------------------------
(* apply_desired_pool_target and scale_to, by any actor.                   *)

\* One read of the live count decides between nothing, scale and drain.
ApplyDesiredPoolTarget(a) ==
    LET want == ClampDesiredPoolTarget(job[a].n, baseline, PoolTarget)
        current == Cardinality(live)
    IN  /\ job[a].st = "decide"
        /\ IF want = current THEN Done(a, TRUE)
           ELSE IF want > current THEN Become(a, "scale", want)
           ELSE Become(a, "drain", current - want)
        /\ UNCHANGED <<pool, working, own, outside>>

ScaleTo(a) ==
    LET plan == PlanPoolScale(PoolTarget, Cardinality(live), job[a].n)
    IN  /\ job[a].st = "scale"
        /\ IF plan.blocked THEN Done(a, FALSE)
           ELSE IF plan.toAdd = 0 THEN Done(a, TRUE)
           ELSE Put(a, [Job("dial", plan.toAdd) EXCEPT !.missing = plan.toAdd])
        /\ UNCHANGED <<pool, working, own, outside>>

\* A dial of the command ends; a failure is reported once all ended.
Dialled(a, ok) ==
    LET j == [job[a] EXCEPT !.n = @ - 1, !.ok = @ /\ ok,
                            !.missing = IF ok THEN @ - 1 ELSE @]
    IN  IF j.n = 0 THEN End(a, j) ELSE Put(a, j)

\* A new session on gateway g gets its slot and its worker.
Joins(s, g) ==
    /\ live' = live \cup {s}
    /\ registered' = registered \cup {s}
    /\ onTarget' = IF g = "target" THEN onTarget \cup {s} ELSE onTarget \ {s}
    /\ UNCHANGED <<baseline, polling, primary>>

ConnectOne(a) ==
    /\ job[a].st = "dial"
    /\ FreshIds # {}
    /\ Joins(Fresh, primary)
    /\ Dialled(a, TRUE)
    /\ UNCHANGED <<hold, working, own, outside>>

ConnectFails(a) ==
    /\ job[a].st = "dial"
    /\ Spend("event")
    /\ Dialled(a, FALSE)
    /\ UNCHANGED <<pool, working, own, desired, hints, hits, file>>

-----------------------------------------------------------------------------
(* drain_with_plan: list the idle, then look again, stop, disconnect and    *)
(* remove the slot, one after the other.                                   *)

\* A migration that keeps its source blocks the drain; one that does not
\* protects the sessions on its target.
DrainCandidates ==
    {s \in live : ~Busy(s) /\ (hold.pending # {} => s \notin onTarget)}

DrainWithPlan(a) ==
    LET plan == PlanPoolDrainByCount(Cardinality(live), job[a].n, Cardinality(DrainCandidates))
    IN  /\ job[a].st = "drain"
        /\ IF (hold.keep /\ hold.pending # {}) \/ plan.toDrain = 0 THEN Done(a, FALSE)
           ELSE \E ids \in SUBSET DrainCandidates :
                    /\ Cardinality(ids) = plan.toDrain
                    /\ Put(a, [Job("look", 0) EXCEPT !.ids = ids])
        /\ UNCHANGED <<pool, working, own, outside>>

\* The next candidate is spared if it is busy by now.
DrainLook(a) ==
    /\ job[a].st = "look"
    /\ \/ \E s \in job[a].ids :
             Put(a, IF Busy(s) THEN [job[a] EXCEPT !.ids = @ \ {s}]
                    ELSE [job[a] EXCEPT !.ids = @ \ {s}, !.cur = s, !.st = "stop"])
       \/ job[a].ids = {} /\ Done(a, TRUE)
    /\ UNCHANGED <<pool, working, own, outside>>

\* suppress_reconnect and stop_session, then the disconnect starts: the worker
\* leaves the registry, and takes what its last poll may still bring.
StopSession(a) ==
    LET s == job[a].cur
    IN  /\ job[a].st = "stop"
        /\ registered' = registered \ {s}
        /\ polling' = IF s \in registered \ working THEN polling \cup {s} ELSE polling
        /\ Put(a, [job[a] EXCEPT !.st = IF job[a].new = None THEN "leave" ELSE "swap"])
        /\ UNCHANGED <<baseline, live, onTarget, primary, hold, working, own, outside>>

\* A slot is removed under the commands that have read another's index.
PutRemoved(a, j) ==
    job' = [b \in Actors |-> IF b = a THEN j ELSE
               [job[b] EXCEPT !.stale = @ \/ job[b].st \in {"redial", "stop", "swap"}]]

\* prune_migration_hold, forget_migration_pending: an empty hold is none.
Keeping(ids) == IF ids = {} THEN NoHold ELSE [hold EXCEPT !.pending = ids]

\* The disconnect has ended (an answer, an error or its 120 s) and the slot is
\* removed; a retirement also leaves the hold.
SlotRemoved(a) ==
    LET s == job[a].cur
    IN  /\ job[a].st = "leave"
        /\ live' = live \ {s}
        /\ onTarget' = onTarget \ {s}
        /\ polling' = polling \ {s}
        /\ hold' = IF a = "retire" THEN Keeping(hold.pending \ {s}) ELSE hold
        /\ PutRemoved(a, [job[a] EXCEPT !.cur = None,
                                        !.st = IF a = "retire" THEN "retire" ELSE "look"])
        /\ UNCHANGED <<baseline, registered, primary, working, own, outside>>

-----------------------------------------------------------------------------
(* migrate_gateway_pool, by ops control or the migrate control: the idle    *)
(* sources are replaced one by one, the busy ones dialled ahead and left to *)
(* the deferred retirement.  A command's n stands for the fraction 1/n.     *)

Share(a) == <<1, job[a].n>>

\* Mutant: the sources to replace are not looked at for work in hand.
MigrateListsAll(a) ==
    LET pending == {s \in hold.pending : s \in live \ onTarget}
        source == live \ (onTarget \cup pending)
        plan == PlanGatewayMigration(Cardinality(live) - Cardinality(pending),
                                     Cardinality(live \cap onTarget), Share(a))
    IN  /\ job[a].st = "migrate"
        /\ primary' = "target"
        /\ hold' = Keeping(pending)
        /\ \E ids \in SUBSET source :
              /\ Cardinality(ids) = Smaller(plan.toMove, Cardinality(source))
              /\ Put(a, [Job("move", job[a].n) EXCEPT !.ids = ids, !.goal = plan.targetCount])
        /\ UNCHANGED <<baseline, live, registered, polling, onTarget, working, own, outside>>

\* The busy flags are looked at once, here.
MigratePlan(a) ==
    LET pending == {s \in hold.pending : s \in live \ onTarget}
        source == live \ (onTarget \cup pending)
        idle == {s \in source : ~Busy(s)}
        plan == PlanGatewayMigration(Cardinality(live) - Cardinality(pending),
                                     Cardinality(live \cap onTarget), Share(a))
        moves == Smaller(plan.toMove, Cardinality(idle))
    IN  /\ job[a].st = "migrate"
        /\ primary' = "target"
        /\ hold' = Keeping(pending)
        /\ \E ids \in SUBSET idle, ahead \in SUBSET (source \ idle) :
              /\ Cardinality(ids) = moves
              /\ Cardinality(ahead) = Smaller(plan.toMove - moves, Cardinality(source \ idle))
              /\ Put(a, [Job("move", job[a].n) EXCEPT !.ids = ids, !.ahead = ahead,
                             !.goal = IF plan.blocked THEN Cardinality(Sessions) + 1
                                      ELSE plan.targetCount])
        /\ UNCHANGED <<baseline, live, registered, polling, onTarget, working, own, outside>>

\* arm_migration_hold, over any other migration's.
Armed(a, ids) == IF ids = {} THEN NoHold ELSE [pending |-> ids, keep |-> job[a].n > 1]

\* The next idle source, if it still is one; after them the hold is armed for
\* the busy ones.
MoveNext(a) ==
    /\ job[a].st = "move"
    /\ \/ /\ \E s \in job[a].ids :
                Put(a, IF s \in live \ onTarget
                       THEN [job[a] EXCEPT !.ids = @ \ {s}, !.cur = s, !.st = "redial", !.stale = FALSE]
                       ELSE [job[a] EXCEPT !.ids = @ \ {s}])
          /\ UNCHANGED hold
       \/ /\ job[a].ids = {} /\ job[a].ahead # {}
          /\ hold' = Armed(a, job[a].ahead)
          /\ Put(a, [job[a] EXCEPT !.st = "ahead"])
       \/ /\ job[a].ids = {} /\ job[a].ahead = {}
          /\ Put(a, [job[a] EXCEPT !.st = "moved"])
          /\ UNCHANGED hold
    /\ UNCHANGED <<baseline, live, registered, polling, onTarget, primary, working, own, outside>>

\* migrate_session_to: the replacement is connected, then the source stopped,
\* without another look at its flag.
Redialled(a) ==
    /\ job[a].st = "redial"
    /\ FreshIds # {}
    /\ Put(a, [job[a] EXCEPT !.new = Fresh, !.st = "stop"])
    /\ UNCHANGED <<pool, working, own, outside>>

\* The slot is rewritten at the index read before the dial.  Where slots were
\* removed or replaced since, it may be another session's (the new one is
\* appended), or none (the new one gets no slot).  Its worker is started in any
\* case.
SlotReplaced(a) ==
    LET j == job[a]
        replaced == (live \ {j.cur}) \cup {j.new}
    IN  /\ j.st = "swap"
        /\ \/ j.cur \in live /\ live' = replaced
           \/ (j.stale \/ j.cur \notin live) /\ live' = live \cup {j.new}
           \/ j.stale /\ live' = live
        /\ registered' = registered \cup {j.new}
        /\ onTarget' = (onTarget \cup {j.new}) \cap live'
        /\ polling' = polling \ {j.cur}
        /\ Put(a, [j EXCEPT !.cur = None, !.new = None, !.st = "move"])
        /\ UNCHANGED <<baseline, primary, hold, working, own, outside>>

\* The deferred retirement takes over what is replaced; the command goes on as j.
PutRetire(a, ids, j) ==
    job' = [b \in Actors |->
               IF b = a THEN j
               ELSE IF b = "retire" /\ ids # {}
               THEN [job[b] EXCEPT !.ids = @ \cup ids, !.st = IF @ = "idle" THEN "retire" ELSE @]
               ELSE job[b]]

\* dial_session_onto for the next busy source.
DialAhead(a) ==
    /\ job[a].st = "ahead"
    /\ FreshIds # {}
    /\ \E s \in job[a].ahead :
          LET j == [job[a] EXCEPT !.ahead = @ \ {s}, !.ready = @ \cup {s}]
          IN  IF j.ahead # {} THEN Put(a, j)
              ELSE PutRetire(a, j.ready, [j EXCEPT !.ready = {}, !.st = "moved"])
    /\ Joins(Fresh, "target")
    /\ UNCHANGED <<hold, working, own, outside>>

\* A dial of the migration fails: it ends with an error, the hold shrinks to
\* the sessions already replaced, and these are retired.
MigrateFails(a) ==
    /\ job[a].st \in {"redial", "ahead"}
    /\ Spend("event")
    /\ hold' = IF job[a].st = "ahead" THEN Armed(a, job[a].ready) ELSE hold
    /\ PutRetire(a, job[a].ready, [Job("done", 0) EXCEPT !.ok = FALSE])
    /\ UNCHANGED <<baseline, live, registered, polling, onTarget, primary, working, own,
                   desired, hints, hits, file>>

\* The migrate control starts over until the target has its share, or 360 s
\* are over; ops control answers at once.
MigrateEnds(a) ==
    /\ job[a].st = "moved"
    /\ \/ Done(a, TRUE) /\ UNCHANGED budget
       \/ /\ a = "migrate" /\ Cardinality(live \cap onTarget) < job[a].goal
          /\ Spend("event")
          /\ Become(a, "migrate", job[a].n)
    /\ UNCHANGED <<pool, working, own, desired, hints, hits, file>>

\* retire_source_when_idle: what is no source any more is forgotten, what is
\* busy waits.
RetireNext ==
    LET j == job["retire"]
    IN  /\ j.st = "retire"
        /\ \/ \E s \in j.ids :
                 \/ /\ s \notin live \ onTarget
                    /\ hold' = Keeping(hold.pending \ {s})
                    /\ Put("retire", [j EXCEPT !.ids = @ \ {s}])
                 \/ /\ s \in live \ onTarget /\ ~Busy(s)
                    /\ Put("retire", [j EXCEPT !.ids = @ \ {s}, !.cur = s, !.st = "recheck"])
                    /\ UNCHANGED hold
           \/ j.ids = {} /\ Put("retire", Idle) /\ UNCHANGED hold
        /\ UNCHANGED <<baseline, live, registered, polling, onTarget, primary, working, own, outside>>

\* retire_session looks again; if the session turned busy it is not waited for
\* any more, and the hold keeps it.
RetireLook ==
    LET j == job["retire"]
    IN  /\ j.st = "recheck"
        /\ Put("retire", IF Busy(j.cur) THEN [j EXCEPT !.cur = None, !.st = "retire"]
                         ELSE [j EXCEPT !.st = "stop"])
        /\ UNCHANGED <<pool, working, own, outside>>

-----------------------------------------------------------------------------
(* Desired-pool hints.                                                     *)

\* Every answer to a work pull carries the gateway's current target.
HintArrives ==
    /\ registered \ working # {}
    /\ Len(hints) < MaxHints
    /\ hints' = Append(hints, desired)
    /\ UNCHANGED <<pool, working, job, own, desired, hits, file, budget>>

GatewayChangesItsMind ==
    /\ Spend("event")
    /\ desired' \in Targets
    /\ UNCHANGED <<pool, working, job, own, hints, hits, file>>

HintReceived ==
    /\ job["hint"] = Idle
    /\ hints # <<>>
    /\ Become("hint", "debounce", Head(hints))
    /\ hints' = Tail(hints)
    /\ UNCHANGED <<pool, working, own, desired, hits, file, budget>>

\* Mutant: hints only ever make the pool grow.
HintsOnlyGrow ==
    /\ job["hint"].st = "debounce"
    /\ Become("hint", "decide", Larger(job["hint"].n, Cardinality(live)))
    /\ hints' = <<>>
    /\ UNCHANGED <<pool, working, own, desired, hits, file, budget>>

\* After 2 s the last of the hints that came in meanwhile counts.
HintDebounced ==
    /\ job["hint"].st = "debounce"
    /\ Become("hint", "decide", IF hints = <<>> THEN job["hint"].n ELSE Last(hints))
    /\ hints' = <<>>
    /\ UNCHANGED <<pool, working, own, desired, hits, file, budget>>

-----------------------------------------------------------------------------
(* Ops control: a pull worker gets the request and carries it out itself.  *)

\* Mutant: one request more than the window allows.
LimitedTooLate(op) == op \in {"force_target", "drain"} /\ hits > MaxHits

\* OpsControlRateLimiter::check: force_target and drain count, the rest not.
RateLimited(op) == op \in {"force_target", "drain"} /\ hits >= MaxHits

\* What an operation starts with; "other" is a status request, or one that
\* validate_ops_control_request refuses.
OpsStart(op, n) ==
    CASE op = "force_target" -> Job("decide", n)
      [] op = "drain" -> Job("drain", n)
      [] op = "migrate" -> Job("migrate", n)
      [] OTHER -> Job("done", 0)

\* Work is handed to a worker that polls, also to a stopped one's last poll.
Takes(s) ==
    /\ s \in (registered \cup polling) \ working
    /\ working' = working \cup {s}
    /\ polling' = polling \ {s}
    /\ UNCHANGED <<baseline, live, registered, onTarget, primary, hold>>

\* The worker's session is busy for the time of the operation.
OpsArrives(op, n, s) ==
    /\ job["ops"] = Idle
    /\ Spend("command")
    /\ Takes(s)
    /\ own' = s
    /\ IF RateLimited(op)
       THEN /\ Done("ops", FALSE)
            /\ UNCHANGED hits
       ELSE /\ Put("ops", OpsStart(op, n))
            /\ hits' = IF op \in {"force_target", "drain"} THEN hits + 1 ELSE hits
    /\ UNCHANGED <<desired, hints, file>>

\* The result is posted on the worker's own session; whether that succeeds or
\* not the flag is cleared.
OpsAnswered ==
    /\ job["ops"].st = "done"
    /\ Put("ops", Idle)
    /\ working' = working \ {own}
    /\ own' = None
    /\ UNCHANGED <<pool, outside>>

WindowSlides ==
    /\ hits > 0
    /\ hits' = hits - 1
    /\ UNCHANGED <<pool, working, job, own, desired, hints, file, budget>>

-----------------------------------------------------------------------------
(* The operator's request files.                                           *)

\* The operator writes a file, also over one that is being handled.
RequestWritten(a, n) ==
    /\ Spend("command")
    /\ file' = [file EXCEPT ![a] = n]
    /\ UNCHANGED <<pool, working, job, own, desired, hints, hits>>

\* The 2 s poll (scale) or a signal (drain, migrate) starts the handler,
\* unless it is at work: then the signal is lost.
ControlStarts(a, st) ==
    /\ job[a] = Idle
    /\ file[a] # NoFile
    /\ Become(a, st, file[a])
    /\ UNCHANGED <<pool, working, own, outside>>

\* Mutant: the request file is removed whatever became of the command.
ControlForgets(a) ==
    /\ a \in {"scale", "drain", "migrate"} /\ job[a].st = "done"
    /\ Put(a, Idle)
    /\ file' = [file EXCEPT ![a] = NoFile]
    /\ UNCHANGED <<pool, working, own, desired, hints, hits, budget>>

\* The file is removed unless the command failed (a blocked drain counts as
\* done); what was written into it meanwhile goes with it.
ControlEnds(a) ==
    /\ a \in {"scale", "drain", "migrate"} /\ job[a].st = "done"
    /\ Put(a, Idle)
    /\ file' = [file EXCEPT ![a] = IF job[a].ok \/ a = "drain" THEN NoFile ELSE @]
    /\ UNCHANGED <<pool, working, own, desired, hints, hits, budget>>

-----------------------------------------------------------------------------
WorkStarts(s) ==
    /\ Takes(s)
    /\ Spend("work")
    /\ UNCHANGED <<job, own, desired, hints, hits, file>>

\* The worker's flag is cleared.  Nothing says when: a request may last, and a
\* failed result post leaves the flag set until the next one is served.
WorkEnds(s) ==
    /\ s \in working \ {own}
    /\ working' = working \ {s}
    /\ UNCHANGED <<pool, job, own, outside>>

Migrate(a) ==
    \/ MigratePlan(a) \/ MoveNext(a) \/ Redialled(a) \/ SlotReplaced(a)
    \/ DialAhead(a) \/ MigrateEnds(a)

Carry(a) ==
    \/ ApplyDesiredPoolTarget(a) \/ ScaleTo(a) \/ ConnectOne(a)
    \/ DrainWithPlan(a) \/ DrainLook(a) \/ StopSession(a) \/ SlotRemoved(a)
    \/ Migrate(a) \/ ControlEnds(a)

\* The tasks, one per actor.
HintTask == HintReceived \/ HintDebounced \/ Carry("hint")
OpsTask == OpsAnswered \/ Carry("ops")
ScaleTask == ControlStarts("scale", "scale") \/ Carry("scale")
RetireTask == RetireNext \/ RetireLook \/ Carry("retire")

Next ==
    \/ HintTask \/ OpsTask \/ ScaleTask \/ RetireTask
    \/ \E a \in {"drain", "migrate"} : Carry(a) \/ ControlStarts(a, a)
    \/ \E a \in Actors : ConnectFails(a) \/ MigrateFails(a)
    \/ HintArrives \/ GatewayChangesItsMind
    \/ \E op \in {"force_target", "drain", "migrate", "other"}, n \in Targets, s \in Sessions :
          OpsArrives(op, n, s)
    \/ \E a \in {"scale", "drain", "migrate"}, n \in Targets : RequestWritten(a, n)
    \/ WindowSlides
    \/ \E s \in Sessions : WorkStarts(s) \/ WorkEnds(s)

\* The tasks run, dials and disconnects end (PlaneSession), the gateway repeats
\* its hint, and the scale file is polled.  Nothing is assumed of work in hand
\* and of the holds it keeps up, or of signals.
Fairness ==
    /\ WF_vars(HintArrives)
    /\ WF_vars(HintTask) /\ WF_vars(OpsTask) /\ WF_vars(ScaleTask) /\ WF_vars(RetireTask)
    /\ WF_vars(Carry("drain")) /\ WF_vars(Carry("migrate"))

Spec == Init /\ [][Next]_vars
FairSpec == Spec /\ Fairness

-----------------------------------------------------------------------------
(* Properties.                                                             *)

\* The state is well-formed: no more hits than the limiter's window allows, no
\* command dials more than the pool's target, and a stopped worker's last poll
\* brings nothing while it has work.
TypeOK ==
    /\ baseline \in Baselines
    /\ live \subseteq Sessions /\ registered \subseteq Sessions /\ working \subseteq Sessions
    /\ polling \subseteq Sessions \ (registered \cup working)
    /\ onTarget \subseteq live /\ primary \in {"home", "target"}
    /\ hold \in [pending : SUBSET Sessions, keep : BOOLEAN]
    /\ \A a \in Actors :
          /\ job[a].st \in {"idle", "debounce", "decide", "scale", "dial", "drain", "look", "stop",
                            "leave", "migrate", "move", "redial", "swap", "ahead", "moved",
                            "retire", "recheck", "done"}
          /\ job[a].n \in Nat /\ job[a].missing \in Nat
          /\ job[a].ids \subseteq Sessions /\ job[a].ok \in BOOLEAN
          /\ job[a].st = "dial" => job[a].n \in 1..PoolTarget
          /\ file[a] \in Targets \cup {NoFile}
    /\ own \in Sessions \cup {None}
    /\ desired \in Targets /\ hints \in Seq(Targets) /\ Len(hints) <= MaxHints
    /\ hits \in 0..MaxHits

\* A pull worker that carries out an ops-control request does not take its own
\* session down: the command never has that session in hand or on the list of
\* those it releases (a migration leaves it to the deferred retirement), so
\* that it neither waits for its own result to be posted nor closes the
\* transport the result goes to.  The exception is a session another command
\* had already stopped when the request came in with its last poll.
OwnSessionSpared ==
    own \in registered => own \notin job["ops"].ids \cup {job["ops"].cur}

\* What the gateway's target comes to: a target above pool_target_size (the
\* baseline may be) is refused by scale_to, and only drained down to.
Settled ==
    LET want == ClampDesiredPoolTarget(desired, baseline, PoolTarget)
    IN  Cardinality(live) = want \/ (want > PoolTarget /\ Cardinality(live) < want)

\* However the commands of the gateway and the operator overlap, and however
\* far they overshoot together, the repeated hints bring the pool to the
\* gateway's target once the disturbances end, provided that some worker is
\* left to receive a hint, that every session is idle time and again, and that
\* no migration hold stays for ever (the code guarantees none of the three).
HintConverges ==
    /\ []<>(registered # {})
    /\ \A s \in Sessions : []<>~Busy(s)
    /\ []<>(hold.pending = {})
    => <>[]Settled

\* The scale control removes its request file only after a pass all of whose
\* dials succeeded.
RemovedWhenMet ==
    [][file["scale"] # NoFile /\ file'["scale"] = NoFile => job["scale"].missing = 0]_vars

\* A scale request the pool can meet is retried until it succeeds: its file is
\* not removed before, and does not stay.  (What is written over it during the
\* successful pass goes with it, unread.)
ScaleServed == RemovedWhenMet /\ []<>(file["scale"] \notin 1..PoolTarget)
=============================================================================
