--------------------------- MODULE SupervisedPool ---------------------------
(***************************************************************************)
(* The supervised session pool (pool.rs) with the parts it drives: the     *)
(* connector's session map (plane/connector.rs), the pull-worker registry  *)
(* (pull_workers.rs) and the pull workers' loop (plane/pull.rs).           *)
(*                                                                         *)
(* A task of the runtime (a reconnect, a drain, a scale, a migration, the  *)
(* deferred retirement of migrated sessions, the shutdown) is a program    *)
(* counter with local variables; its steps end where the code waits for    *)
(* the network or for time.  Lock-only awaits in a row are one step.       *)
(*                                                                         *)
(* Simplifications:                                                        *)
(*  - the behaviour starts when boot has connected Boot sessions and       *)
(*    started their workers;                                               *)
(*  - back-off, circuit breaker and connect throttle only delay: a waiting *)
(*    task may resume at any time;                                         *)
(*  - failures of the attestation refresh and of the dial are one failure; *)
(*  - a plan reads the pool in one step.                                   *)
(***************************************************************************)
EXTENDS PoolPlanning, Sequences, FiniteSets

CONSTANTS
    MaxSession,     \* bound on session ids ever dialled (uuids in the code)
    Boot,           \* sessions connected when the behaviour starts
    Gateway,        \* gateway base urls
    Home,           \* the gateway the pool booted on
    MaxTask,        \* bound on tasks alive at once
    MaxWorker,      \* bound on pull workers alive at once
    PoolTargetSize, \* config.pool_target_size
    Concurrency,    \* connect_throttle.concurrency()
    Commands,       \* the operator commands issued: drain, scale, migrate, close
    MaxCommands,    \* bound on how many are issued
    DrainCounts,    \* arguments of a drain by count
    ScaleTargets,   \* arguments of a scale
    Fractions,      \* arguments of a migration
    Faults          \* what the network may do: loss, dial, timeout, post

Session == 1 .. MaxSession
Task    == 1 .. MaxTask
Worker  == 1 .. MaxWorker

ASSUME PoolAssumption ==
    /\ MaxSession \in Nat /\ MaxTask \in Nat /\ MaxWorker \in Nat
    /\ Boot \in 1 .. MaxSession /\ Boot <= MaxWorker
    /\ Home \in Gateway
    /\ PoolTargetSize \in Nat \ {0} /\ Concurrency \in Nat \ {0}
    /\ MaxCommands \in Nat
    /\ DrainCounts \subseteq Nat \ {0} /\ ScaleTargets \subseteq Nat \ {0}
    /\ Fractions \subseteq Fraction
    /\ Commands \subseteq {"drain", "scale", "migrate", "close"}
    /\ Faults \subseteq {"loss", "dial", "timeout", "post"}

NoSession == 0
NoWorker  == 0
Current   == 0      \* a worker's transport is the one in the connector's map
Dead      == -1     \* a worker's transport is closed; t \in Task: t closes it

\* The pool.
VARIABLES
    slots,      \* ids of state.slots, in order
    url,        \* slot.session.gateway_base_url
    pending,    \* slot.reconnect_pending
    suppress,   \* slot.suppress_reconnect
    primary,    \* gateway_base_url, and the connector's default dial url
    hold,       \* migration_hold; none when its pending set is empty
    closed      \* closed

\* The connector and the pull workers.
VARIABLES
    conn,       \* entry of the session in the connector's map
    minted,     \* number of session ids handed out
    registry,   \* PullWorkerRegistry.workers
    worker      \* the spawned pull-worker loops

\* The tasks.
VARIABLES
    pc,         \* where each task waits
    loc,        \* its local variables
    issued      \* operator commands issued so far

poolVars  == <<slots, url, pending, suppress, primary, hold, closed>>
planeVars == <<conn, minted, registry, worker>>
vars      == <<slots, url, pending, suppress, primary, hold, closed,
               conn, minted, registry, worker, pc, loc, issued>>

-----------------------------------------------------------------------------
(* Types *)

NoHold     == [target |-> Home, pending |-> {}, keep |-> FALSE]
FreeWorker == [st |-> "free", sid |-> NoSession, busy |-> FALSE,
               stop |-> FALSE, link |-> Dead]
FreeLoc    == [sid |-> NoSession, new |-> NoSession, gw |-> Home, n |-> 0,
               todo |-> <<>>, planned |-> <<>>, done |-> <<>>, keep |-> FALSE]

Owning == {"rc_sleep", "rc_closing", "rc_dial", "rc_ready"}

PC == {"idle", "rc_sched",
       "dr_next", "dr_release", "dr_closing",
       "sc_next", "sc_dial", "sc_ready",
       "mg_next", "mg_dial", "mg_release", "mg_closing", "mg_ready",
       "mg_ahead", "mg_ahead_ready",
       "rt_next", "rt_check", "rt_release", "rt_closing",
       "cl_wait"} \cup Owning

Link == {Current, Dead} \cup Task

TypeOK ==
    /\ slots \in Seq(Session)
    /\ url \in [Session -> Gateway]
    /\ pending \in [Session -> BOOLEAN]
    /\ suppress \in [Session -> BOOLEAN]
    /\ primary \in Gateway
    /\ hold \in [target : Gateway, pending : SUBSET Session, keep : BOOLEAN]
    /\ closed \in BOOLEAN
    /\ conn \in [Session -> {"none", "open", "lost"}]
    /\ minted \in 0 .. MaxSession
    /\ registry \in [Session -> Worker \cup {NoWorker}]
    /\ worker \in [Worker -> [st : {"free", "poll", "work", "exited"},
                              sid : Session \cup {NoSession}, busy : BOOLEAN,
                              stop : BOOLEAN, link : Link]]
    /\ pc \in [Task -> PC]
    /\ loc \in [Task -> [sid : Session \cup {NoSession},
                         new : Session \cup {NoSession}, gw : Gateway, n : Nat,
                         todo : Seq(Session), planned : Seq(Session),
                         done : Seq(Session), keep : BOOLEAN]]
    /\ issued \in 0 .. MaxCommands

-----------------------------------------------------------------------------
(* Reading the pool *)

SlotIds    == {slots[i] : i \in DOMAIN slots}
HasSlot(s) == s \in SlotIds

\* EnginePlaneConnector::is_session_closed: unknown sessions count as closed
IsSessionClosed(s) == conn[s] # "open"

\* session_is_busy: the registered worker's flag, else the slot's (never set)
SessionIsBusy(s) == registry[s] # NoWorker /\ worker[registry[s]].busy

OnSource(s, g) == HasSlot(s) /\ url[s] # g

\* The elements of seq at the indices in I, in order
ElementsAt(seq, I) ==
    LET upTo[i \in 0 .. Len(seq)] ==
            IF i = 0 THEN <<>>
            ELSE IF i \in I THEN Append(upTo[i - 1], seq[i]) ELSE upTo[i - 1]
    IN  upTo[Len(seq)]

\* The slots for which P holds, in slot order
SlotsWhere(P(_)) == ElementsAt(slots, {i \in DOMAIN slots : P(slots[i])})

FirstOf(seq, n) == SubSeq(seq, 1, Smaller(n, Len(seq)))

\* slots.remove(position of s)
Without(seq, s) ==
    LET i == CHOOSE j \in DOMAIN seq : seq[j] = s
    IN  IF \E j \in DOMAIN seq : seq[j] = s
        THEN [j \in 1 .. Len(seq) - 1 |-> IF j < i THEN seq[j] ELSE seq[j + 1]]
        ELSE seq

-----------------------------------------------------------------------------
(* Steps shared by the tasks *)

Goto(t, from, to) == pc[t] = from /\ pc' = [pc EXCEPT ![t] = to]

Finish(t) == /\ pc' = [pc EXCEPT ![t] = "idle"]
             /\ loc' = [loc EXCEPT ![t] = FreeLoc]

FirstFree(t) == pc[t] = "idle" /\ \A u \in Task : pc[u] = "idle" => t <= u

\* schedule_reconnect, up to the spawn: nothing happens on a closed pool
ScheduleReconnect(s) ==
    IF closed THEN UNCHANGED <<pc, loc>>
    ELSE \E t \in Task :
            /\ FirstFree(t)
            /\ pc' = [pc EXCEPT ![t] = "rc_sched"]
            /\ loc' = [loc EXCEPT ![t] = [FreeLoc EXCEPT !.sid = s]]

Mint == minted + 1      \* the next fresh session id
CanMint == minted < MaxSession

\* Mutant: dropping the handle is taken to end the loop
DroppedOnly(w) == IF worker[w].st = "exited" THEN FreeWorker ELSE worker[w]

\* PullWorkerRegistry::stop_session: the handle is dropped, the loop sees
\* its stop flag only once its current pull returns
Stopped(w) == IF worker[w].st = "exited" THEN FreeWorker
              ELSE [worker[w] EXCEPT !.stop = TRUE]

\* suppress_reconnect
SuppressReconnect(s) ==
    /\ suppress' = [suppress EXCEPT ![s] = HasSlot(s) \/ suppress[s]]
    /\ pending' = [pending EXCEPT ![s] = pending[s] /\ ~HasSlot(s)]

\* stop_session, then the connector takes the session out of its map and
\* starts the graceful disconnect of its transport on behalf of task t
StopAndDetach(t, s) ==
    /\ registry' = [registry EXCEPT ![s] = NoWorker]
    /\ conn' = [conn EXCEPT ![s] = "none"]
    /\ worker' = [w \in Worker |->
                    LET v == IF w = registry[s] THEN Stopped(w) ELSE worker[w]
                    IN  IF v.sid = s /\ v.link = Current
                        THEN [v EXCEPT !.link = t] ELSE v]

\* Mutant: the disconnect does not wait for ready_to_close
CloseAtOnce(t) == t \in Task

\* graceful_disconnect_attested_session may end: the gateway reports the
\* session ready_to_close (nothing in flight), or the poll fails or times out
MayClose(t) == \/ \A w \in Worker : ~(worker[w].link = t /\ worker[w].st = "work")
               \/ "timeout" \in Faults

\* session.close(): workers on the transport find it closed
CloseDetached(t) ==
    worker' = [w \in Worker |->
                 IF worker[w].link = t THEN [worker[w] EXCEPT !.link = Dead]
                 ELSE worker[w]]

\* PullWorkerRegistry::ensure_started after session_ready
EnsureStarted(s) ==
    IF registry[s] # NoWorker \/ conn[s] = "none"
    THEN UNCHANGED <<registry, worker>>
    ELSE \E w \in Worker :
            /\ worker[w].st = "free"
            /\ \A v \in Worker : worker[v].st = "free" => w <= v
            /\ registry' = [registry EXCEPT ![s] = w]
            /\ worker' = [worker EXCEPT ![w] =
                   [st |-> "poll", sid |-> s, busy |-> FALSE, stop |-> FALSE,
                    link |-> IF conn[s] = "open" THEN Current ELSE Dead]]

\* A fresh session is dialled (connect / connect_to) and enters the map
DialFresh == /\ CanMint
             /\ minted' = Mint
             /\ conn' = [conn EXCEPT ![Mint] = "open"]

DialFails == "dial" \in Faults

\* slots.push(SessionSlot { url: g, ..default })
PushSlot(s, g) ==
    /\ slots' = Append(slots, s)
    /\ url' = [url EXCEPT ![s] = g]
    /\ pending' = [pending EXCEPT ![s] = FALSE]
    /\ suppress' = [suppress EXCEPT ![s] = FALSE]

\* forget_migration_pending
ForgetPending(s) ==
    hold' = IF hold.pending \subseteq {s} THEN NoHold
            ELSE [hold EXCEPT !.pending = @ \ {s}]

-----------------------------------------------------------------------------
(* Reconnect of one session: schedule_reconnect and reconnect_slot *)

\* Mutant: a session the connector does not know is taken for connected
ClaimKnownOnly(t) ==
    LET s == loc[t].sid IN
    /\ pc[t] = "rc_sched"
    /\ IF HasSlot(s) /\ conn[s] # "none" /\ ~suppress[s] /\ ~pending[s]
       THEN /\ pending' = [pending EXCEPT ![s] = TRUE]
            /\ pc' = [pc EXCEPT ![t] = "rc_sleep"]
            /\ UNCHANGED loc
       ELSE Finish(t) /\ UNCHANGED pending
    /\ UNCHANGED <<slots, url, suppress, primary, hold, closed, planeVars, issued>>

\* Mutant: reconnect_pending is set but not tested
ClaimUntested(t) ==
    LET s == loc[t].sid IN
    /\ pc[t] = "rc_sched"
    /\ IF HasSlot(s) /\ ~suppress[s]
       THEN /\ pending' = [pending EXCEPT ![s] = TRUE]
            /\ pc' = [pc EXCEPT ![t] = "rc_sleep"]
            /\ UNCHANGED loc
       ELSE Finish(t) /\ UNCHANGED pending
    /\ UNCHANGED <<slots, url, suppress, primary, hold, closed, planeVars, issued>>

\* The spawned task claims the slot (compare_exchange on reconnect_pending)
ReconnectClaim(t) ==
    LET s == loc[t].sid IN
    /\ pc[t] = "rc_sched"
    /\ IF HasSlot(s) /\ ~suppress[s] /\ ~pending[s]
       THEN /\ pending' = [pending EXCEPT ![s] = TRUE]
            /\ pc' = [pc EXCEPT ![t] = "rc_sleep"]
            /\ UNCHANGED loc
       ELSE Finish(t) /\ UNCHANGED pending
    /\ UNCHANGED <<slots, url, suppress, primary, hold, closed, planeVars, issued>>

\* After the back-off: re-check the slot, stop its worker, tear the old
\* transport down.  A closed pool leaves reconnect_pending set.
ReconnectBegin(t) ==
    LET s == loc[t].sid IN
    /\ pc[t] = "rc_sleep"
    /\ IF closed \/ ~HasSlot(s) \/ suppress[s]
       THEN /\ pending' = [pending EXCEPT ![s] =
                             pending[s] /\ ~(~closed /\ HasSlot(s) /\ suppress[s])]
            /\ Finish(t)
            /\ UNCHANGED <<conn, registry, worker>>
       ELSE /\ StopAndDetach(t, s)
            /\ pc' = [pc EXCEPT ![t] = "rc_closing"]
            /\ loc' = [loc EXCEPT ![t].gw = url[s]]
            /\ UNCHANGED pending
    /\ UNCHANGED <<slots, url, suppress, primary, hold, closed, minted, issued>>

ReconnectTornDown(t) ==
    /\ Goto(t, "rc_closing", "rc_dial")
    /\ MayClose(t)
    /\ CloseDetached(t)
    /\ UNCHANGED <<poolVars, conn, minted, registry, loc, issued>>

\* connector.reconnect under the same session id, at the slot's gateway
ReconnectDialOk(t) ==
    LET s == loc[t].sid IN
    /\ Goto(t, "rc_dial", "rc_ready")
    /\ conn' = [conn EXCEPT ![s] = "open"]
    /\ worker' = [w \in Worker |->
                    IF worker[w].sid = s /\ worker[w].link = Current
                    THEN [worker[w] EXCEPT !.link = Dead] ELSE worker[w]]
    /\ UNCHANGED <<poolVars, minted, registry, loc, issued>>

\* Mutant: the claim is not released before the retry is scheduled
RetryKeepsClaim(t) ==
    /\ pc[t] = "rc_dial"
    /\ DialFails
    /\ IF closed THEN Finish(t)
       ELSE pc' = [pc EXCEPT ![t] = "rc_sched"] /\ UNCHANGED loc
    /\ UNCHANGED <<poolVars, planeVars, issued>>

\* No template, attestation refresh failed or dial failed: release the slot
\* and schedule again
ReconnectDialFails(t) ==
    LET s == loc[t].sid IN
    /\ pc[t] = "rc_dial"
    /\ DialFails
    /\ pending' = [pending EXCEPT ![s] = pending[s] /\ ~HasSlot(s)]
    /\ IF closed THEN Finish(t)
       ELSE pc' = [pc EXCEPT ![t] = "rc_sched"] /\ UNCHANGED loc
    /\ UNCHANGED <<slots, url, suppress, primary, hold, closed, planeVars, issued>>

\* session_ready, ensure_started, clear_reconnect_pending
ReconnectReady(t) ==
    LET s == loc[t].sid IN
    /\ pc[t] = "rc_ready"
    /\ EnsureStarted(s)
    /\ pending' = [pending EXCEPT ![s] = pending[s] /\ ~HasSlot(s)]
    /\ Finish(t)
    /\ UNCHANGED <<slots, url, suppress, primary, hold, closed, conn, minted, issued>>

\* The 5s watch finds the transport of a pooled session closed
Watch(s) ==
    /\ ~closed
    /\ HasSlot(s)
    /\ IsSessionClosed(s)
    /\ ScheduleReconnect(s)
    /\ UNCHANGED <<poolVars, planeVars, issued>>

-----------------------------------------------------------------------------
(* Drain, retire and migrate release a session the same way: suppress its  *)
(* reconnect, stop its worker, disconnect it gracefully.                   *)

Release(t, s) ==
    /\ SuppressReconnect(s)
    /\ StopAndDetach(t, s)
    /\ UNCHANGED <<slots, url, primary, hold, closed, minted, loc, issued>>

\* slots.remove: the slot and its flags are gone
RemoveSlot(s) ==
    /\ slots' = Without(slots, s)
    /\ pending' = [pending EXCEPT ![s] = FALSE]
    /\ suppress' = [suppress EXCEPT ![s] = FALSE]
    /\ url' = [url EXCEPT ![s] = Home]

\* The iteration's variables go out of scope
EndIteration(t) == loc' = [loc EXCEPT ![t].sid = NoSession, ![t].new = NoSession,
                                      ![t].n = 0]

Begin(t, cmd) == /\ cmd \in Commands
                 /\ FirstFree(t)
                 /\ issued < MaxCommands
                 /\ issued' = issued + 1

(* Drain: drain_with_plan *)

DrainCandidates ==
    SlotsWhere(LAMBDA s : /\ ~SessionIsBusy(s)
                          /\ hold.pending = {} \/ url[s] # hold.target)

\* drain_idle_sessions(count) and drain_idle_pool(fraction)
DrainPlans(idle) ==
    {PlanPoolDrainByCount(Len(slots), c, idle) : c \in DrainCounts}
    \cup {PlanPoolDrainByFraction(PoolTargetSize, Len(slots), f, idle) : f \in Fractions}

DrainStart(t) ==
    \E plan \in DrainPlans(Len(DrainCandidates)) :
    /\ Begin(t, "drain")
    /\ IF hold.keep /\ hold.pending # {} THEN UNCHANGED <<pc, loc>>  \* migration_hold
       ELSE /\ pc' = [pc EXCEPT ![t] = "dr_next"]
            /\ loc' = [loc EXCEPT ![t] =
                         [FreeLoc EXCEPT !.todo = FirstOf(DrainCandidates, plan.toDrain)]]
    /\ UNCHANGED <<poolVars, planeVars>>

\* Next candidate; one that became busy is skipped
DrainNext(t) ==
    /\ pc[t] = "dr_next"
    /\ IF loc[t].todo = <<>> THEN Finish(t)
       ELSE LET s == Head(loc[t].todo) IN
            /\ loc' = [loc EXCEPT ![t].todo = Tail(@), ![t].sid = s]
            /\ pc' = [pc EXCEPT ![t] =
                        IF SessionIsBusy(s) THEN "dr_next" ELSE "dr_release"]
    /\ UNCHANGED <<poolVars, planeVars, issued>>

DrainRelease(t) == Goto(t, "dr_release", "dr_closing") /\ Release(t, loc[t].sid)

\* Mutant: a drained session keeps its slot
DrainKeepsSlot(t) ==
    /\ Goto(t, "dr_closing", "dr_next")
    /\ MayClose(t)
    /\ CloseDetached(t)
    /\ EndIteration(t)
    /\ UNCHANGED <<poolVars, conn, minted, registry, issued>>

DrainRemove(t) ==
    /\ Goto(t, "dr_closing", "dr_next")
    /\ MayClose(t)
    /\ CloseDetached(t)
    /\ RemoveSlot(loc[t].sid)
    /\ EndIteration(t)
    /\ UNCHANGED <<primary, hold, closed, conn, minted, registry, issued>>

(* Scale: scale_to *)

\* map_with_concurrency: the dials are cut into chunks, one task each; the
\* chunk of the i-th task (from 0)
ChunkSize(count) == LET limit == Smaller(Concurrency, count)
                    IN  (count + limit - 1) \div limit

Chunk(count, i) == Smaller(ChunkSize(count), SaturatingSub(count, i * ChunkSize(count)))

ScaleStart(t, target) ==
    LET plan == PlanPoolScale(PoolTargetSize, Len(slots), target)
        dialling == {u \in Task : u >= t /\ Chunk(plan.toAdd, u - t) > 0}
    IN
    /\ Begin(t, "scale")
    /\ IF plan.blocked \/ plan.toAdd = 0 THEN UNCHANGED <<pc, loc>>
       ELSE /\ \A u \in dialling : pc[u] = "idle"
            /\ pc' = [u \in Task |-> IF u \in dialling THEN "sc_next" ELSE pc[u]]
            /\ loc' = [u \in Task |->
                         IF u \in dialling
                         THEN [FreeLoc EXCEPT !.n = Chunk(plan.toAdd, u - t)] ELSE loc[u]]
    /\ UNCHANGED <<poolVars, planeVars>>

\* Mutant: the chunk's range includes its end
ScaleOneMore(t) ==
    /\ pc[t] = "sc_next"
    /\ IF loc[t].n < 0 THEN Finish(t)
       ELSE /\ loc' = [loc EXCEPT ![t].n = @ - 1, ![t].gw = primary]
            /\ pc' = [pc EXCEPT ![t] = "sc_dial"]
    /\ UNCHANGED <<poolVars, planeVars, issued>>

\* connect_one notes the pool's gateway before it dials the connector's default
ScaleNext(t) ==
    /\ pc[t] = "sc_next"
    /\ IF loc[t].n = 0 THEN Finish(t)
       ELSE /\ loc' = [loc EXCEPT ![t].n = @ - 1, ![t].gw = primary]
            /\ pc' = [pc EXCEPT ![t] = "sc_dial"]
    /\ UNCHANGED <<poolVars, planeVars, issued>>

ScaleDialOk(t) ==
    /\ Goto(t, "sc_dial", "sc_ready")
    /\ DialFresh
    /\ PushSlot(Mint, loc[t].gw)
    /\ loc' = [loc EXCEPT ![t].new = Mint]
    /\ UNCHANGED <<primary, hold, closed, registry, worker, issued>>

\* A failed dial (or an open circuit) does not stop the remaining ones: the
\* first error is only returned once all have been tried
ScaleDialFails(t) ==
    /\ Goto(t, "sc_dial", "sc_next")
    /\ DialFails
    /\ UNCHANGED <<poolVars, planeVars, loc, issued>>

ScaleReady(t) ==
    /\ Goto(t, "sc_ready", "sc_next")
    /\ EnsureStarted(loc[t].new)
    /\ loc' = [loc EXCEPT ![t].new = NoSession]
    /\ UNCHANGED <<poolVars, conn, minted, issued>>

-----------------------------------------------------------------------------
(* Gateway migration: migrate_gateway_pool *)

\* prune_migration_hold: the held sessions still on the hold's source side
PrunedPending == {s \in hold.pending : OnSource(s, hold.target)}

\* Sticky primary, prune the hold, plan, split the source sessions into idle
\* ones to redial in place and busy ones to dial ahead of
MigrateStart(t, g, f) ==
    LET held    == PrunedPending
        onTarget == Len(SlotsWhere(LAMBDA s : url[s] = g))
        logical == SaturatingSub(Len(slots), Cardinality(held))
        plan    == PlanGatewayMigration(logical, onTarget, f)
        free(s) == url[s] # g /\ s \notin held
        idle    == FirstOf(SlotsWhere(LAMBDA s : free(s) /\ ~SessionIsBusy(s)), plan.toMove)
        busy    == SlotsWhere(LAMBDA s : free(s) /\ SessionIsBusy(s))
    IN
    /\ Begin(t, "migrate")
    /\ primary' = g
    /\ hold' = IF held = {} THEN NoHold ELSE [hold EXCEPT !.pending = held]
    /\ IF plan.blocked THEN UNCHANGED <<pc, loc>>
       ELSE /\ pc' = [pc EXCEPT ![t] = "mg_next"]
            /\ loc' = [loc EXCEPT ![t] =
                 [FreeLoc EXCEPT !.gw = g, !.keep = f[1] < f[2], !.todo = idle,
                                 !.planned = FirstOf(busy, plan.toMove - Len(idle))]]
    /\ UNCHANGED <<slots, url, pending, suppress, closed, planeVars>>

\* migrate_session_to notes the slot's index; a session that left the pool or
\* already sits on the target is skipped.  After the last idle session the
\* hold is armed for the busy ones.
MigrateNext(t) ==
    LET l == loc[t] IN
    /\ pc[t] = "mg_next"
    /\ IF l.todo # <<>>
       THEN LET s == Head(l.todo) IN
            /\ IF OnSource(s, l.gw)
               THEN /\ pc' = [pc EXCEPT ![t] = "mg_dial"]
                    /\ loc' = [loc EXCEPT ![t].todo = Tail(@), ![t].sid = s,
                         ![t].n = CHOOSE i \in DOMAIN slots : slots[i] = s]
               ELSE loc' = [loc EXCEPT ![t].todo = Tail(@)] /\ UNCHANGED pc
            /\ UNCHANGED hold
       ELSE IF l.planned = <<>> THEN Finish(t) /\ UNCHANGED hold
       ELSE /\ hold' = [target |-> l.gw, keep |-> l.keep,
                        pending |-> {l.planned[i] : i \in DOMAIN l.planned}]
            /\ pc' = [pc EXCEPT ![t] = "mg_ahead"]
            /\ UNCHANGED loc
    /\ UNCHANGED <<slots, url, pending, suppress, primary, closed, planeVars, issued>>

MigrateDialOk(t) ==
    /\ Goto(t, "mg_dial", "mg_release")
    /\ DialFresh
    /\ loc' = [loc EXCEPT ![t].new = Mint]
    /\ UNCHANGED <<poolVars, registry, worker, issued>>

\* A failed dial ends the migration: no hold, no replacement for busy ones
MigrateDialFails(t) ==
    /\ pc[t] = "mg_dial"
    /\ DialFails
    /\ Finish(t)
    /\ UNCHANGED <<poolVars, planeVars, issued>>

MigrateRelease(t) == Goto(t, "mg_release", "mg_closing") /\ Release(t, loc[t].sid)

\* slots.get_mut(index): replaced in place when it still holds the old id,
\* else the new session is pushed; past the end it gets no slot at all
MigrateSwap(t) ==
    LET l == loc[t] IN
    /\ Goto(t, "mg_closing", "mg_ready")
    /\ MayClose(t)
    /\ CloseDetached(t)
    /\ \/ /\ l.n \in DOMAIN slots /\ slots[l.n] = l.sid
          /\ slots' = [slots EXCEPT ![l.n] = l.new]
          /\ url' = [url EXCEPT ![l.new] = l.gw, ![l.sid] = Home]
          /\ pending' = [pending EXCEPT ![l.new] = FALSE, ![l.sid] = FALSE]
          /\ suppress' = [suppress EXCEPT ![l.new] = FALSE, ![l.sid] = FALSE]
       \/ /\ l.n \in DOMAIN slots /\ slots[l.n] # l.sid
          /\ PushSlot(l.new, l.gw)
       \/ /\ l.n \notin DOMAIN slots
          /\ UNCHANGED <<slots, url, pending, suppress>>
    /\ UNCHANGED <<primary, hold, closed, conn, minted, registry, loc, issued>>

MigrateReady(t) ==
    /\ Goto(t, "mg_ready", "mg_next")
    /\ EnsureStarted(loc[t].new)
    /\ EndIteration(t)
    /\ UNCHANGED <<poolVars, conn, minted, issued>>

\* dial_session_onto: a replacement for the next busy session
DialAheadOk(t) ==
    /\ Goto(t, "mg_ahead", "mg_ahead_ready")
    /\ loc[t].planned # <<>>
    /\ DialFresh
    /\ PushSlot(Mint, loc[t].gw)
    /\ loc' = [loc EXCEPT ![t].new = Mint]
    /\ UNCHANGED <<primary, hold, closed, registry, worker, issued>>

DialAheadReady(t) ==
    /\ Goto(t, "mg_ahead_ready", "mg_ahead")
    /\ EnsureStarted(loc[t].new)
    /\ loc' = [loc EXCEPT ![t].done = Append(@, Head(loc[t].planned)),
                          ![t].planned = Tail(@), ![t].new = NoSession]
    /\ UNCHANGED <<poolVars, conn, minted, issued>>

\* Mutant: a failed dial-ahead retires the sessions it has no replacement for
RetireUnreplaced(t) ==
    LET l == loc[t] IN
    /\ pc[t] = "mg_ahead"
    /\ l.planned # <<>>
    /\ DialFails
    /\ pc' = [pc EXCEPT ![t] = "rt_next"]
    /\ loc' = [loc EXCEPT ![t].done = l.done \o l.planned, ![t].planned = <<>>]
    /\ UNCHANGED <<poolVars, planeVars, issued>>

\* A failed dial re-arms the hold for the sessions already replaced and still
\* retires those; with none it drops the hold
DialAheadFails(t) ==
    LET l == loc[t] IN
    /\ pc[t] = "mg_ahead"
    /\ l.planned # <<>>
    /\ DialFails
    /\ IF l.done = <<>> THEN hold' = NoHold /\ Finish(t)
       ELSE /\ hold' = [target |-> l.gw, keep |-> l.keep,
                        pending |-> {l.done[i] : i \in DOMAIN l.done}]
            /\ pc' = [pc EXCEPT ![t] = "rt_next"]
            /\ loc' = [loc EXCEPT ![t].planned = <<>>]
    /\ UNCHANGED <<slots, url, pending, suppress, primary, closed, planeVars, issued>>

\* spawn_deferred_source_retire: the migration is over, its task retires
DialAheadDone(t) ==
    /\ Goto(t, "mg_ahead", "rt_next")
    /\ loc[t].planned = <<>>
    /\ UNCHANGED <<poolVars, planeVars, loc, issued>>

-----------------------------------------------------------------------------
(* Deferred retirement: retire_source_when_idle and retire_session *)

\* One round visits every id; busy ones stay for the next round, which starts
\* unless the pool closed
RetireNext(t) ==
    LET l == loc[t]
        s == Head(l.todo)
    IN
    /\ pc[t] = "rt_next"
    /\ IF l.todo = <<>>
       THEN /\ IF l.done = <<>> \/ closed THEN Finish(t)
               ELSE /\ loc' = [loc EXCEPT ![t].todo = l.done, ![t].done = <<>>]
                    /\ UNCHANGED pc
            /\ UNCHANGED hold
       ELSE IF ~OnSource(s, primary)
       THEN /\ ForgetPending(s)
            /\ loc' = [loc EXCEPT ![t].todo = Tail(@)]
            /\ UNCHANGED pc
       ELSE IF SessionIsBusy(s)
       THEN /\ loc' = [loc EXCEPT ![t].todo = Tail(@), ![t].done = Append(@, s)]
            /\ UNCHANGED <<pc, hold>>
       ELSE /\ loc' = [loc EXCEPT ![t].todo = Tail(@), ![t].sid = s]
            /\ pc' = [pc EXCEPT ![t] = "rt_check"]
            /\ UNCHANGED hold
    /\ UNCHANGED <<slots, url, pending, suppress, primary, closed, planeVars, issued>>

\* retire_session looks at the busy flag again and returns if it is now set
RetireCheck(t) ==
    /\ Goto(t, "rt_check", IF SessionIsBusy(loc[t].sid) THEN "rt_next" ELSE "rt_release")
    /\ UNCHANGED <<poolVars, planeVars, loc, issued>>

RetireRelease(t) == Goto(t, "rt_release", "rt_closing") /\ Release(t, loc[t].sid)

RetireRemove(t) ==
    /\ Goto(t, "rt_closing", "rt_next")
    /\ MayClose(t)
    /\ CloseDetached(t)
    /\ RemoveSlot(loc[t].sid)
    /\ ForgetPending(loc[t].sid)
    /\ EndIteration(t)
    /\ UNCHANGED <<primary, closed, conn, minted, registry, issued>>

-----------------------------------------------------------------------------
(* Shutdown: close_all_with_timeout *)

\* closed is set, every slot is suppressed, its worker stopped and its
\* session disconnected in parallel with the others
CloseStart(t) ==
    /\ Begin(t, "close")
    /\ closed' = TRUE
    /\ suppress' = [s \in Session |-> suppress[s] \/ HasSlot(s)]
    /\ pending' = [s \in Session |-> pending[s] /\ ~HasSlot(s)]
    /\ registry' = [s \in Session |-> IF HasSlot(s) THEN NoWorker ELSE registry[s]]
    /\ conn' = [s \in Session |-> IF HasSlot(s) THEN "none" ELSE conn[s]]
    /\ worker' = [w \in Worker |->
                    LET reg == \E s \in SlotIds : registry[s] = w
                        v == IF reg THEN Stopped(w) ELSE worker[w]
                    IN  IF v.sid \in SlotIds /\ v.link = Current
                        THEN [v EXCEPT !.link = t] ELSE v]
    /\ pc' = [pc EXCEPT ![t] = "cl_wait"]
    /\ UNCHANGED <<slots, url, primary, hold, minted, loc>>

\* All disconnects done, or the 15s bound hit: force_close_all, stop_all, clear
CloseEnd(t) ==
    /\ pc[t] = "cl_wait"
    /\ MayClose(t)
    /\ conn' = [s \in Session |-> "none"]
    /\ registry' = [s \in Session |-> NoWorker]
    /\ worker' = [w \in Worker |->
                    LET reg == \E s \in Session : registry[s] = w
                        v == IF reg THEN Stopped(w) ELSE worker[w]
                    IN  IF v.link \in {Current, t} THEN [v EXCEPT !.link = Dead] ELSE v]
    /\ slots' = <<>>
    /\ pending' = [s \in Session |-> FALSE]
    /\ suppress' = [s \in Session |-> FALSE]
    /\ url' = [s \in Session |-> Home]
    /\ Finish(t)
    /\ UNCHANGED <<primary, hold, closed, minted, issued>>

-----------------------------------------------------------------------------
(* The pull worker's loop: start_pull_worker and pull_once *)

\* The loop returns; a registered handle keeps the busy flag as it was left
Exit(w) == worker' = [worker EXCEPT ![w] =
                        IF registry[worker[w].sid] = w
                        THEN [worker[w] EXCEPT !.st = "exited"] ELSE FreeWorker]

\* A long poll returns work; the stop flag is not looked at meanwhile
WorkerTakesWork(w) ==
    /\ worker[w].st = "poll"
    /\ worker[w].link # Dead
    /\ worker' = [worker EXCEPT ![w].st = "work", ![w].busy = TRUE]
    /\ UNCHANGED <<poolVars, conn, minted, registry, pc, loc, issued>>

\* The response is posted, the busy flag cleared, the stop flag looked at
WorkerDone(w) ==
    /\ worker[w].st = "work"
    /\ worker[w].link # Dead
    /\ IF worker[w].stop THEN Exit(w)
       ELSE worker' = [worker EXCEPT ![w].st = "poll", ![w].busy = FALSE]
    /\ UNCHANGED <<poolVars, conn, minted, registry, pc, loc, issued>>

\* Posting the response fails on a live transport: pull_once returns early
\* and the busy flag stays set
WorkerPostFails(w) ==
    /\ "post" \in Faults
    /\ worker[w].st = "work"
    /\ worker[w].link # Dead
    /\ IF worker[w].stop THEN Exit(w) ELSE worker' = [worker EXCEPT ![w].st = "poll"]
    /\ UNCHANGED <<poolVars, conn, minted, registry, pc, loc, issued>>

\* The loop head sees the stop flag
WorkerStops(w) ==
    /\ worker[w].st = "poll"
    /\ worker[w].stop
    /\ Exit(w)
    /\ UNCHANGED <<poolVars, conn, minted, registry, pc, loc, issued>>

\* A pull or a post failed and the transport is closed: tell the pool, whether
\* or not this worker was stopped, and return
WorkerLost(w) ==
    /\ worker[w].st \in {"poll", "work"}
    /\ worker[w].link = Dead
    /\ Exit(w)
    /\ ScheduleReconnect(worker[w].sid)
    /\ UNCHANGED <<poolVars, conn, minted, registry, issued>>

-----------------------------------------------------------------------------
(* The network *)

\* The transport of a mapped session dies
TransportLost(s) ==
    /\ "loss" \in Faults
    /\ conn[s] = "open"
    /\ conn' = [conn EXCEPT ![s] = "lost"]
    /\ worker' = [w \in Worker |->
                    IF worker[w].sid = s /\ worker[w].link = Current
                    THEN [worker[w] EXCEPT !.link = Dead] ELSE worker[w]]
    /\ UNCHANGED <<poolVars, minted, registry, pc, loc, issued>>

\* The transport a task is disconnecting dies: the poll of the disconnect
\* fails and the task closes what is left of it
DetachedLost(t) ==
    /\ "loss" \in Faults
    /\ \E w \in Worker : worker[w].link = t
    /\ CloseDetached(t)
    /\ UNCHANGED <<poolVars, conn, minted, registry, pc, loc, issued>>

-----------------------------------------------------------------------------
(* Specification *)

Init ==
    /\ slots = [i \in 1 .. Boot |-> i]
    /\ url = [s \in Session |-> Home]
    /\ pending = [s \in Session |-> FALSE]
    /\ suppress = [s \in Session |-> FALSE]
    /\ primary = Home
    /\ hold = NoHold
    /\ closed = FALSE
    /\ conn = [s \in Session |-> IF s <= Boot THEN "open" ELSE "none"]
    /\ minted = Boot
    /\ registry = [s \in Session |-> IF s <= Boot THEN s ELSE NoWorker]
    /\ worker = [w \in Worker |->
                   IF w <= Boot
                   THEN [st |-> "poll", sid |-> w, busy |-> FALSE,
                         stop |-> FALSE, link |-> Current]
                   ELSE FreeWorker]
    /\ pc = [t \in Task |-> "idle"]
    /\ loc = [t \in Task |-> FreeLoc]
    /\ issued = 0

ReconnectStep(t) == \/ ReconnectClaim(t) \/ ReconnectBegin(t) \/ ReconnectTornDown(t)
                    \/ ReconnectDialOk(t) \/ ReconnectDialFails(t) \/ ReconnectReady(t)

DrainStep(t) == DrainNext(t) \/ DrainRelease(t) \/ DrainRemove(t)

ScaleStep(t) == ScaleNext(t) \/ ScaleDialOk(t) \/ ScaleDialFails(t) \/ ScaleReady(t)

MigrateStep(t) == \/ MigrateNext(t) \/ MigrateDialOk(t) \/ MigrateDialFails(t)
                  \/ MigrateRelease(t) \/ MigrateSwap(t) \/ MigrateReady(t)
                  \/ DialAheadOk(t) \/ DialAheadReady(t) \/ DialAheadFails(t)
                  \/ DialAheadDone(t)

RetireStep(t) == \/ RetireNext(t) \/ RetireCheck(t)
                 \/ RetireRelease(t) \/ RetireRemove(t)

TaskStep(t) == \/ ReconnectStep(t) \/ DrainStep(t) \/ ScaleStep(t)
               \/ MigrateStep(t) \/ RetireStep(t) \/ CloseEnd(t)

Command(t) == \/ DrainStart(t)
              \/ \E n \in ScaleTargets : ScaleStart(t, n)
              \/ \E g \in Gateway, f \in Fractions : MigrateStart(t, g, f)
              \/ CloseStart(t)

WorkerStep(w) == \/ WorkerTakesWork(w) \/ WorkerDone(w) \/ WorkerPostFails(w)
                 \/ WorkerStops(w) \/ WorkerLost(w)

Next == \/ \E t \in Task : TaskStep(t) \/ Command(t) \/ DetachedLost(t)
        \/ \E w \in Worker : WorkerStep(w)
        \/ \E s \in Session : Watch(s) \/ TransportLost(s)

Spec == Init /\ [][Next]_vars

\* The runtime runs every ready task and the watch timer; a request a worker
\* has taken is eventually answered or fails; a gateway that is redialled for
\* ever accepts in the end.  Commands, work and losses need not happen.
\* WorkerLost is strongly fair because the bound MaxTask makes its spawn wait,
\* which the runtime never does.
Fairness ==
    /\ \A t \in Task : WF_vars(TaskStep(t)) /\ SF_vars(ReconnectDialOk(t))
    /\ \A w \in Worker : /\ WF_vars(WorkerDone(w) \/ WorkerStops(w))
                         /\ SF_vars(WorkerLost(w))
    /\ \A s \in Session : WF_vars(Watch(s))

FairSpec == Spec /\ Fairness

-----------------------------------------------------------------------------
(* Properties that hold *)

Owner(t, s) == pc[t] \in Owning /\ loc[t].sid = s

\* At most one task at a time is re-dialling a session: the claim on
\* reconnect_pending (schedule_reconnect) excludes a second one, although
\* drains, retirements and the shutdown clear that flag under its feet.
OneReconnectPerSession ==
    \A s \in Session, t, u \in Task : Owner(t, s) /\ Owner(u, s) => t = u

\* reconnect_pending is never left set without a task that will clear it: a
\* flag nobody owns would make schedule_reconnect give the session up for good.
PendingHasOwner ==
    \A s \in SlotIds : pending[s] /\ ~closed => \E t \in Task : Owner(t, s)

\* A worker's live transport is only taken from a request in flight by the
\* network or by the shutdown: drain, retire, migrate and reconnect disconnect
\* gracefully, even when the worker picked work up after the busy check.  (As
\* long as no disconnect waits for ready_to_close past its 120s timeout.)  The
\* steps of the network are those that move no task.
NoWorkCut ==
    [][\A w \in Worker :
         /\ worker[w].st = "work" /\ worker[w].link # Dead
         /\ worker[w]'.st = "work" /\ worker[w]'.link = Dead
         => closed' \/ UNCHANGED pc]_vars

\* Make-before-break: migrations, concurrent ones and failing dials included,
\* never leave fewer sessions connected than the pool booted with.
MakeBeforeBreak == Cardinality({s \in Session : conn[s] = "open"}) >= Boot

\* A pooled session whose transport is gone is connected again, unless it is
\* released or the pool closes (the watch, the claim and the retries).
EventuallyReconnected ==
    \A s \in Session :
        HasSlot(s) /\ IsSessionClosed(s)
            ~> ~IsSessionClosed(s) \/ ~HasSlot(s) \/ suppress[s] \/ closed

\* A session a drain has suppressed leaves the pool: the slot is removed even
\* when a reconnect or a second drain works on it at the same time.
SuppressedSlotLeaves ==
    \A s \in Session : HasSlot(s) /\ suppress[s] ~> ~HasSlot(s)

\* Taking a worker's handle out of the registry does not end its loop: a
\* stopped one may still wait in its long poll, or serve, when the reconnected
\* session gets a new worker.  But at most one loop of a session will pull
\* again, and two never pull from the same transport.
OnePullerPerSession ==
    \A v, w \in Worker :
        /\ v # w /\ worker[v].sid = worker[w].sid
        /\ worker[v].st \in {"poll", "work"} /\ worker[w].st \in {"poll", "work"}
        => /\ worker[v].stop \/ worker[w].stop
           /\ ~(worker[v].link = Current /\ worker[w].link = Current)

-----------------------------------------------------------------------------
(* Statements of the repository the code does not keep *)

\* "timed out waiting for half-migrate retire" (a test's panic, pool.rs): once
\* the chat on a replaced source session is over, the session is retired.  So
\* one stays pending for ever only if its worker is busy again and again.
RetiredOnceIdle ==
    \A s \in Session : <>[](s \in hold.pending) => []<>SessionIsBusy(s)

\* "Notify supervised pool that an H2 transport died (triggers per-slot
\* reconnect)" (pull_workers.rs): only a session whose transport died is torn
\* down and re-dialled.
ReconnectOnlyClosed ==
    [][\A t \in Task : pc[t] = "rc_sleep" /\ pc'[t] = "rc_closing"
                          => IsSessionClosed(loc[t].sid)]_vars

\* "migrate_gateway_pool dials connect_to with new session_id, updates slot"
\* (docs/PORTING.md): the session a migration dialled in place has a slot.
MigrateUpdatesSlot ==
    [][\A t \in Task : pc[t] = "mg_closing" /\ pc'[t] = "mg_ready"
                          => \E i \in DOMAIN slots' : slots'[i] = loc[t].new]_vars
=============================================================================
