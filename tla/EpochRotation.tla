--------------------------- MODULE EpochRotation ----------------------------
(***************************************************************************)
(* Ephemeral epochs: the rotator that mints and registers them             *)
(* (epoch/rotator.rs), the decryptor that keeps their keys through the     *)
(* overlap (epoch/rotating_decryptor.rs), the prune timer and the wiring   *)
(* of main.rs, the sessions that join meanwhile (pool.rs), and the         *)
(* requests that use a key for as long as they last (ope_inference.rs).    *)
(*                                                                         *)
(* Epochs are numbered in minting order.  A clock tick is the unit of Ttl, *)
(* Lead and Grace.  The behaviour starts when the initial epoch has been   *)
(* registered on the boot sessions.  Locks held across no await are one    *)
(* step; add_epoch and prune_retired take two locks in turn, so each is    *)
(* two steps.                                                              *)
(***************************************************************************)
EXTENDS Naturals, FiniteSets

CONSTANTS
    MaxEpoch,   \* bound on epochs ever minted
    MaxTime,    \* bound on the clock
    Ttl,        \* rotation_interval_ms, the validity of an epoch
    Lead,       \* TEECHAT_OPE_EPOCH_ROTATION_LEAD_MIN
    Grace,      \* overlap_grace_ms
    Session,    \* gateway sessions
    BootSession,    \* those connected at boot
    Request,    \* requests served concurrently
    Faults      \* what may fail: mint, post

Epoch == 1 .. MaxEpoch
Time  == 0 .. MaxTime

ASSUME EpochAssumption ==
    /\ MaxEpoch \in Nat \ {0} /\ MaxTime \in Nat
    /\ Ttl \in Nat \ {0} /\ Lead \in Nat \ {0} /\ Grace \in Nat \ {0}
    /\ BootSession \subseteq Session
    /\ Faults \subseteq {"mint", "post"}

NoEpoch    == 0
ProcessKey == 0     \* options.usage_signing_key, the engine's identity key

VARIABLES
    now,
    notAfter,   \* not_after of each minted epoch
    minted      \* number of epochs minted

\* EpochRotator
VARIABLES
    current,    \* current
    rotating,   \* rotating
    stopped,    \* stopped; the schedule loop is aborted
    loop,       \* where the schedule loop is
    next,       \* the epoch rotate_internal has created
    todo,       \* sessions of the snapshot it has not posted to yet
    lastError   \* some post failed

\* RotatingEpochDecryptor and the prune timer
VARIABLES
    epochs,     \* ids in the decryptor's map
    currentId,  \* current_epoch_id
    freed,      \* epochs whose handle was given back (dispose_engine_epoch)
    prune       \* prune_retired: [pc, current, now]

\* Sessions, and what the gateway has accepted on each
VARIABLES
    connected,  \* sessions in the connector's map
    live,       \* live_sessions, which list_sessions reads
    joining,    \* the epoch session_ready is posting, or NoEpoch
    gateway     \* epochs registered on the session

\* Requests: [pc, epoch, handle, signer]
VARIABLE request

vars == <<now, notAfter, minted, current, rotating, stopped, loop, next, todo,
          lastError, epochs, currentId, freed, prune,
          connected, live, joining, gateway, request>>

rotatorVars   == <<minted, notAfter, current, rotating, loop, next, todo, lastError>>
decryptorVars == <<epochs, currentId, freed, prune>>
sessionVars   == <<connected, live, joining, gateway>>

NoRequest == [pc |-> "none", epoch |-> NoEpoch, handle |-> NoEpoch, signer |-> NoEpoch]
NoPrune   == [pc |-> "idle", current |-> NoEpoch, now |-> 0]

RequestRecord == [pc : {"none", "resolve", "decrypt", "reresolve", "begin", "stream",
                        "failed", "signed"},
                  epoch : Epoch \cup {NoEpoch}, handle : Epoch \cup {NoEpoch},
                  signer : Epoch \cup {NoEpoch}]

TypeOK ==
    /\ now \in Time
    /\ notAfter \in [Epoch -> Nat]
    /\ minted \in Epoch
    /\ current \in Epoch
    /\ rotating \in BOOLEAN
    /\ stopped \in BOOLEAN
    /\ loop \in {"sleep", "post", "adding", "added", "retry", "stopped"}
    /\ next \in Epoch \cup {NoEpoch}
    /\ todo \in SUBSET Session
    /\ lastError \in BOOLEAN
    /\ epochs \in SUBSET Epoch
    /\ currentId \in Epoch
    /\ freed \in SUBSET Epoch
    /\ prune \in [pc : {"idle", "remove"}, current : Epoch \cup {NoEpoch}, now : Time]
    /\ connected \in SUBSET Session
    /\ live \in SUBSET Session
    /\ joining \in [Session -> Epoch \cup {NoEpoch}]
    /\ gateway \in [Session -> SUBSET Epoch]
    /\ request \in [Request -> RequestRecord]

-----------------------------------------------------------------------------
(* Rotation policy *)

\* compute_epoch_rotate_at_ms
RotateAt(e) == LET at == IF notAfter[e] >= Lead THEN notAfter[e] - Lead ELSE 0
               IN  IF now >= at THEN now ELSE at

\* now_ms > not_after + grace, at time t
PastGrace(e, t) == t > notAfter[e] + Grace

-----------------------------------------------------------------------------
(* The schedule loop and rotate_internal *)

\* rotate_internal fails: `?` returns without resetting `rotating`, the loop
\* sleeps 30s
RotateFails == /\ loop' = "retry"
               /\ UNCHANGED <<current, rotating, epochs, currentId>>

\* Mutant: the validity is subtracted from the clock
RotateBackdates ==
    /\ loop = "sleep"
    /\ RotateAt(current) = now
    /\ ~rotating
    /\ rotating' = TRUE
    /\ minted < MaxEpoch
    /\ minted' = minted + 1
    /\ next' = minted + 1
    /\ notAfter' = [notAfter EXCEPT ![minted + 1] = now - Ttl]
    /\ todo' = live
    /\ lastError' = FALSE
    /\ loop' = IF live = {} THEN "retry" ELSE "post"
    /\ UNCHANGED <<now, current, stopped, decryptorVars, sessionVars, request>>

\* The timer fires.  A rotation already marked as running is left alone and
\* reported as Ok; else the next epoch is created and the live sessions are
\* listed (none is an error).
RotateBegin ==
    /\ loop = "sleep"
    /\ RotateAt(current) = now
    /\ ~rotating
    /\ rotating' = TRUE
    /\ \/ /\ minted < MaxEpoch
          /\ minted' = minted + 1
          /\ next' = minted + 1
          /\ notAfter' = [notAfter EXCEPT ![minted + 1] = now + Ttl]
          /\ todo' = live
          /\ lastError' = FALSE
          /\ loop' = IF live = {} THEN "retry" ELSE "post"
       \/ /\ "mint" \in Faults          \* create_engine_epoch fails
          /\ loop' = "retry"
          /\ UNCHANGED <<minted, next, notAfter, todo, lastError>>
    /\ UNCHANGED <<now, current, stopped, decryptorVars, sessionVars, request>>

\* post_epoch_to_sessions: every session of the snapshot is posted to, also
\* after a failure; one the connector no longer knows fails
PostEpoch(s) ==
    /\ loop = "post"
    /\ s \in todo
    /\ todo' = todo \ {s}
    /\ \/ /\ s \in connected
          /\ gateway' = [gateway EXCEPT ![s] = @ \cup {next}]
          /\ UNCHANGED lastError
       \/ /\ s \notin connected \/ "post" \in Faults
          /\ lastError' = TRUE
          /\ UNCHANGED gateway
    /\ UNCHANGED <<now, notAfter, minted, current, rotating, stopped, loop, next,
                   decryptorVars, connected, live, joining, request>>

\* All posts answered: on_epoch_rotated inserts the epoch in the decryptor
PostsEnd ==
    /\ loop = "post"
    /\ todo = {}
    /\ IF lastError THEN RotateFails
       ELSE /\ epochs' = epochs \cup {next}
            /\ loop' = "adding"
            /\ UNCHANGED <<current, rotating, currentId>>
    /\ UNCHANGED <<now, notAfter, minted, stopped, next, todo, lastError, freed, prune,
                   sessionVars, request>>

\* add_epoch makes it current in the decryptor
MakeCurrent ==
    /\ loop = "adding"
    /\ currentId' = next
    /\ loop' = "added"
    /\ UNCHANGED <<now, notAfter, minted, current, rotating, stopped, next, todo, lastError,
                   epochs, freed, prune, sessionVars, request>>

\* The rotator makes it current and clears `rotating`
RotateEnd ==
    /\ loop = "added"
    /\ current' = next
    /\ rotating' = FALSE
    /\ next' = NoEpoch
    /\ loop' = "sleep"
    /\ UNCHANGED <<now, notAfter, minted, stopped, todo, lastError, decryptorVars,
                   sessionVars, request>>

\* 30s after a failure the loop starts over
RetryWakes ==
    /\ loop = "retry"
    /\ loop' = "sleep"
    /\ UNCHANGED <<now, notAfter, minted, current, rotating, stopped, next, todo,
                   lastError, decryptorVars, sessionVars, request>>

\* stop: the loop is aborted at an await
Stop ==
    /\ ~stopped
    /\ loop \notin {"adding", "added"}
    /\ stopped' = TRUE
    /\ loop' = "stopped"
    /\ UNCHANGED <<now, notAfter, minted, current, rotating, next, todo, lastError,
                   decryptorVars, sessionVars, request>>

-----------------------------------------------------------------------------
(* prune_retired, every 60s *)

PruneBegin ==
    /\ prune.pc = "idle" /\ ~stopped
    /\ prune' = [pc |-> "remove", current |-> currentId, now |-> now]
    /\ UNCHANGED <<now, rotatorVars, stopped, epochs, currentId, freed, sessionVars, request>>

\* Mutant: prune_retired does not spare the current epoch
RetiredWithCurrent == {e \in epochs : PastGrace(e, prune.now)}

Retired == {e \in epochs : e # prune.current /\ PastGrace(e, prune.now)}

PruneRemove ==
    /\ prune.pc = "remove"
    /\ epochs' = epochs \ Retired
    /\ freed' = freed \cup Retired
    /\ prune' = NoPrune
    /\ UNCHANGED <<now, rotatorVars, stopped, currentId, sessionVars, request>>

-----------------------------------------------------------------------------
(* Sessions that come and go *)

\* Mutant: session_ready registers the epoch a rotation is about to adopt
ReadyWithNext(s) ==
    /\ s \notin connected
    /\ connected' = connected \cup {s}
    /\ joining' = [joining EXCEPT ![s] = IF next = NoEpoch THEN current ELSE next]
    /\ UNCHANGED <<now, rotatorVars, stopped, decryptorVars, live, gateway, request>>

\* A session is dialled (scale, migration) or redialled: session_ready reads
\* the rotator's current epoch
SessionReady(s) ==
    /\ s \notin connected
    /\ connected' = connected \cup {s}
    /\ joining' = [joining EXCEPT ![s] = current]
    /\ UNCHANGED <<now, rotatorVars, stopped, decryptorVars, live, gateway, request>>

\* Its slot is in the pool by then, so that the notify_sessions_changed of
\* another operation lists it
SessionListed(s) ==
    /\ s \in connected \ live
    /\ live' = live \cup {s}
    /\ UNCHANGED <<now, rotatorVars, stopped, decryptorVars, connected, joining, gateway, request>>

\* The post of session_ready is answered; its failure is only logged.  The
\* session is listed (notify_sessions_changed) after it.
SessionRegistered(s) ==
    /\ joining[s] # NoEpoch
    /\ joining' = [joining EXCEPT ![s] = NoEpoch]
    /\ live' = live \cup {s}
    /\ \/ gateway' = [gateway EXCEPT ![s] = @ \cup {joining[s]}]
       \/ "post" \in Faults /\ UNCHANGED gateway
    /\ UNCHANGED <<now, rotatorVars, stopped, decryptorVars, connected, request>>

\* A drain, a migration, a reconnect or the network takes the transport: it
\* leaves the connector's map with what was registered on it
SessionDisconnects(s) ==
    /\ s \in connected
    /\ joining[s] = NoEpoch
    /\ connected' = connected \ {s}
    /\ gateway' = [gateway EXCEPT ![s] = {}]
    /\ UNCHANGED <<now, rotatorVars, stopped, decryptorVars, live, joining, request>>

\* The operation that released the session ends with notify_sessions_changed
SessionUnlisted(s) ==
    /\ s \in live \ connected
    /\ live' = live \ {s}
    /\ UNCHANGED <<now, rotatorVars, stopped, decryptorVars, connected, joining, gateway, request>>

-----------------------------------------------------------------------------
(* Requests: run_ope_inference_on_envelope *)

\* resolve_handle: the named epoch's handle, else the current one's
ResolveHandle(e) == IF e \in epochs THEN e
                    ELSE IF currentId \in epochs THEN currentId ELSE NoEpoch

\* Mutant: usage is signed by whatever epoch is current by then
SignerOfCurrent(e) == IF e \in epochs THEN currentId ELSE ProcessKey

\* resolve_usage_signing_key: the named epoch's key, else the engine's own
UsageSigner(e) == IF e \in epochs THEN e ELSE ProcessKey

OnlyRequest == UNCHANGED <<now, rotatorVars, stopped, decryptorVars, sessionVars>>

\* The gateway hands out a request sealed to an epoch registered on a session,
\* while that epoch has not expired
RequestArrives(r, s, e) ==
    /\ request[r].pc \in {"none", "failed", "signed"}
    /\ e \in gateway[s] /\ now <= notAfter[e]
    /\ request' = [request EXCEPT ![r] = [NoRequest EXCEPT !.pc = "resolve", !.epoch = e]]
    /\ OnlyRequest

Resolve(r) ==
    LET h == ResolveHandle(request[r].epoch) IN
    /\ request[r].pc = "resolve"
    /\ request' = [request EXCEPT ![r] =
            [@ EXCEPT !.handle = h, !.pc = IF h = NoEpoch THEN "failed" ELSE "decrypt"]]
    /\ OnlyRequest

\* decrypt_request: the handle must be alive and of the epoch sealed to; an
\* embeddings request then resolves its handle once more
Decrypt(r) ==
    LET q == request[r] IN
    /\ q.pc = "decrypt"
    /\ \E to \in IF q.handle \in freed \/ q.handle # q.epoch THEN {"failed"}
                 ELSE {"begin", "reresolve"} :
          request' = [request EXCEPT ![r].pc = to]
    /\ OnlyRequest

Reresolve(r) ==
    LET h == ResolveHandle(request[r].epoch) IN
    /\ request[r].pc = "reresolve"
    /\ request' = [request EXCEPT ![r] =
            [@ EXCEPT !.handle = h, !.pc = IF h = NoEpoch THEN "failed" ELSE "begin"]]
    /\ OnlyRequest

\* begin_response looks the handle up again (for embeddings, after the
\* upstream answered)
BeginResponse(r) ==
    /\ request[r].pc = "begin"
    /\ request' = [request EXCEPT ![r].pc =
                     IF request[r].handle \in freed THEN "failed" ELSE "stream"]
    /\ OnlyRequest

\* The upstream's stream is over: the usage report is signed
SignUsage(r) ==
    /\ request[r].pc = "stream"
    /\ request' = [request EXCEPT ![r] =
            [@ EXCEPT !.pc = "signed", !.signer = UsageSigner(request[r].epoch)]]
    /\ OnlyRequest

-----------------------------------------------------------------------------
(* The clock.  Assumption: a rotation does not stay in its posts for longer *)
(* than the validity and the grace of the epoch it posts.                   *)

Tick ==
    /\ now < MaxTime
    /\ loop \in {"post", "adding"} => now < notAfter[next] + Grace
    /\ now' = now + 1
    /\ UNCHANGED <<rotatorVars, stopped, decryptorVars, sessionVars, request>>

Init ==
    /\ now = 0
    /\ notAfter = [e \in Epoch |-> IF e = 1 THEN Ttl ELSE 0]
    /\ minted = 1
    /\ current = 1
    /\ rotating = FALSE
    /\ stopped = FALSE
    /\ loop = "sleep"
    /\ next = NoEpoch
    /\ todo = {}
    /\ lastError = FALSE
    /\ epochs = {1}
    /\ currentId = 1
    /\ freed = {}
    /\ prune = NoPrune
    /\ connected = BootSession
    /\ live = BootSession
    /\ joining = [s \in Session |-> NoEpoch]
    /\ gateway = [s \in Session |-> IF s \in BootSession THEN {1} ELSE {}]
    /\ request = [r \in Request |-> NoRequest]

Rotate == \/ RotateBegin \/ PostsEnd \/ MakeCurrent \/ RotateEnd \/ RetryWakes
          \/ \E s \in Session : PostEpoch(s)

Prune == PruneBegin \/ PruneRemove

Serve(r) == \/ Resolve(r) \/ Decrypt(r) \/ Reresolve(r)
            \/ BeginResponse(r) \/ SignUsage(r)

Next == \/ Rotate \/ Stop \/ Prune \/ Tick
        \/ \E s \in Session : \/ SessionReady(s) \/ SessionListed(s) \/ SessionRegistered(s)
                              \/ SessionDisconnects(s) \/ SessionUnlisted(s)
        \/ \E r \in Request : \/ Serve(r)
                              \/ \E s \in Session, e \in Epoch : RequestArrives(r, s, e)

Spec == Init /\ [][Next]_vars

\* The runtime runs the schedule loop, and time passes
Fairness == WF_vars(Rotate) /\ WF_vars(Tick)

FairSpec == Spec /\ Fairness

-----------------------------------------------------------------------------
(* Properties that hold *)

\* The decryptor's current epoch always has its key (handle() never reports
\* "missing epoch"), although prune_retired compares with a current id it read
\* before a rotation changed it, and although the current epoch itself may be
\* long past its grace when rotations keep failing.
CurrentHasKey == currentId \in epochs

Installed == epochs \cup freed

\* Overlap: until its epoch's grace is over, a request that resolves its
\* handle after the epoch was added keeps that epoch's key to the end,
\* whatever rotations and prunes run meanwhile: it does not fail for a missing
\* key, answers under it and has its usage signed by it.
KeyHeldThroughGrace ==
    [][\A r \in Request :
         LET q == request[r]
             p == request'[r]
         IN  /\ q.pc \in {"resolve", "decrypt", "reresolve", "begin", "stream"}
             /\ q.epoch \in Installed
             /\ q.pc = "resolve" \/ q.handle = q.epoch
             /\ ~PastGrace(q.epoch, now)
             => \/ p = q
                \/ /\ p.pc # "failed"
                   /\ p.handle = q.epoch
                   /\ p.pc = "signed" => p.signer = q.epoch]_vars

\* The epoch session_ready posts to the gateway has its key in the decryptor,
\* from the rotator's read to the answer of the post and until the epoch's
\* grace is over, although the rotator and the decryptor change their current
\* epoch one after the other and prunes run meanwhile.  (Past the grace the key
\* may be pruned while the post is under way; the gateway hands out nothing
\* sealed to an expired epoch.)
JoinsKnownEpoch ==
    \A s \in Session :
        joining[s] # NoEpoch => joining[s] \in epochs \/ PastGrace(joining[s], now)

-----------------------------------------------------------------------------
(* Statements of the repository the code does not keep *)

\* "epoch rotation failed; retry in 30s" (rotator.rs): a failed rotation is
\* followed by another attempt, which mints another epoch.
RotationRetried ==
    \A n \in Epoch \ {MaxEpoch} : loop = "retry" /\ minted = n ~> minted > n \/ stopped

\* "Metering has to be signed by the same epoch the gateway attested, not by a
\* process-lifetime key" (rotating_decryptor.rs).
UsageSignedByEpoch ==
    \A r \in Request : request[r].pc = "signed" => request[r].signer = request[r].epoch

\* "Register the current epoch on a single session (scale / reconnect)."
\* (rotator.rs): with no rotation running, a listed session has the rotator's
\* current epoch.
ListedSessionHasCurrent ==
    loop = "sleep" /\ ~rotating =>
        \A s \in live \cap connected : joining[s] = NoEpoch => current \in gateway[s]
=============================================================================
