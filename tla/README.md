# A TLA+ verification of the TeeChat inference engine

The repository is a Rust program that runs inside a confidential VM beside a
language model. It dials out to one or more gateways, keeps a pool of attested
HTTP/2 sessions open, long-polls each session for sealed requests, decrypts
them with the key of a short-lived *epoch*, asks the upstream model, and posts
the encrypted answer back with a signed usage report. Nothing is persisted:
a restart begins from nothing, so crash recovery of state is not a concern here.
Concurrency is: every session has a worker task, every lost transport spawns a
reconnect task, operators and the gateway itself issue drains, scales and
migrations at any time, and epochs rotate on a timer under all of it.

Paths below are relative to `src/crates/`.

## 1. Inventory

| Component | State it keeps | Operations | Talks to | Hard parts | Correct when |
|---|---|---|---|---|---|
| Supervised pool, `ie-engine/src/pool.rs` | slots (session, `reconnect_pending`, `suppress_reconnect`), primary gateway, migration hold, `closed`, failure window, circuit | boot, `schedule_reconnect`, watch, `drain_*`, `scale_to`, `migrate_gateway_pool`, deferred retire, `close_all` | connector, worker registry, `session_ready` and `sessions_changed` callbacks | every operation awaits the network between reading the slots and changing them | one reconnect per session, no session stranded, no capacity lost by a migration, no request cut off |
| Planning, `cutover.rs`, `gateway_migration.rs`, `desired_pool.rs` | none (the throttle: a semaphore and last-dial times) | plans for boot, drain, scale, migrate; clamp; back-off | pool | rounding, saturation, invalid inputs | plans never exceed what exists or is allowed |
| Connector, `plane/connector.rs`, `plane/disconnect.rs` | map session id → transport | connect, reconnect, disconnect, `is_session_closed`, force close | pool, transport | graceful disconnect waits up to 120 s for `ready_to_close` | a transport is taken from a request only by the network or at shutdown |
| Pull workers, `pull_workers.rs`, `plane/pull.rs` | registry id → (stop, busy, handle) | start, stop, long poll, serve work, report a lost transport | pool, request processing, ops control | the stop flag is seen only between pulls; the busy flag is read by others | a busy session is not drained or retired |
| Ops control, `plane/ops_control.rs` | rate-limit window | validate, dispatch drain/scale/migrate/status | pool, from inside a worker | a worker that drains the pool it belongs to | no wait cycle; limits hold at their edge |
| Desired-pool applier, `desired_pool.rs` | channel of hints | clamp, scale up or drain down | pool | hints coalesce while one is applied | the pool ends at the last hint |
| Epoch rotator, `epoch/rotator.rs`, `policy.rs`, `engine_epoch.rs` | current epoch, `rotating`, `stopped` | schedule loop, mint, post to every session, register on one session | connector, decryptor, attestation | sessions join and leave during the posts; posts fail | a new epoch replaces the old before it expires; retries work |
| Rotating decryptor, `epoch/rotating_decryptor.rs` | map epoch → handle, current id | `add_epoch`, `resolve_handle`, usage key, `prune_retired` | rotator, prune timer, requests | two locks taken in turn | the current key is never lost; old keys live through their grace |
| Request processing, `infer/*` | per request: handle, response stream | admit, decrypt, call upstream, stream, sign usage | decryptor, upstream | the key is looked up again long after it was resolved | one epoch's key serves a request to its end |
| GPU idle recollect, `epoch/gpu_idle_recollect.rs` | cached evidence | check idle, collect, store | attestation | idleness may end during the collection | recollection goes on; failures keep the last good evidence |
| Admission, `ie-crypto/src/admit.rs` | replay store | admit an envelope | request processing | one envelope at two workers at once | an envelope is admitted once |
| Response crypto, `ie-crypto` | handle table, sequence numbers | decrypt, begin, seal chunks | request processing | handles freed while in use | no use of a freed handle |
| Plane transport, `plane/hyper_transport.rs`, `connect.rs`, `verify.rs`, `session.rs` | HTTP/2 sender behind a mutex, closed flag | dial, attested connect, verify, request, streaming post, close | connector, pull workers, rotator | five kinds of callers share one lock; the evidence may belong to another dial | only the gateway's own, fresh evidence opens a session; no caller waits for ever; no transport leaks |
| Upstream client, `ie-upstream/src/client.rs`, `sse.rs` | line buffer, ready pieces, thinking flags | parse event lines into text pieces | request processing | lines cut anywhere, breaks half-way | the text arrives once and in order |
| Operator controls, `controls/*` | request files, handling flags | poll or signal, run, remove | pool | files rewritten while handled; several commanders at once | a request is kept until it is met, and not stuck |
| Engine challenge, `engine_challenge/*` | none | answer a client's challenge with a report | rotator, attestation | a rotation during the minting | the answer binds the epoch it names |
| Attestation, `ie-attestation` | GPU evidence cache | collect, build, match, verify | engine process, plane | external tools that fail or lie by failing | evidence names the epoch it is shown for |
| Engine process, `ie-bin/src/main.rs` | the wiring of all of it | boot, shutdown | everything | one step of many failing | fails closed; epoch before work |
| Ops helpers (metering, prefill, event log), status file, formats | counters, bytes | | | | outside the models (section 7) |

Interactions that matter: the pool calls `session_ready` after each dial, which
registers the rotator's current epoch on the new session, and then
`ensure_started`, which spawns the worker. A worker whose transport died calls
back into `schedule_reconnect`. After an operation the pool calls
`notify_sessions_changed`, which gives the rotator its list of sessions. The
rotator's `on_epoch_rotated` callback feeds the decryptor. A prune timer in
`ie-bin/src/main.rs` calls `prune_retired` every minute.

The list of hazards, each at its line, is in `PROJECT.json`; the properties of
section 3 are aimed at it.

## 2. Modules

| Module | Models |
|---|---|
| `PoolPlanning` | the plans as pure operators; used by `SupervisedPool` and `PoolCommands` |
| `SupervisedPool` | pool, connector map, worker registry and worker loops, composed; their tasks interleave |
| `EpochRotation` | rotator, decryptor, prune timer, joining and leaving sessions, requests and the keys they use |
| `ResultContract` | abstract: what the gateway may rely on for one unit of work |
| `ResponseStream` | one response: result post, inference, upstream event stream, sealed frames; implements `ResultContract` |
| `PullWork` | all pull workers and the work of any kind they take: gate, admission and its replay store, decryption, answer, busy flag |
| `PoolCommands` | everyone who resizes the pool (hints, ops control, request files, deferred retirement), acting on one pool; uses `PoolPlanning` |
| `PlaneSession` | one session id: dials, attested connect and its verification, the transport shared by worker, its answers, poster and disconnect |
| `EngineProcess` | boot, evidence, idle recollection, attestation refresh, rotation of evidence, challenges, shutdown |
| `PoolPlanningProofs`, `SupervisedPoolProofs`, `EpochRotationProofs`, `ResponseStreamProofs`, `PullWorkProofs`, `PoolCommandsProofs`, `PlaneSessionProofs`, `EngineProcessProofs` | theorems about the module named, section 5 |
| `MCPool`, `MCEpoch`, `MCResponse`, `MCWork`, `MCCommands`, `MCPlane`, `MCEngine` | instances for TLC |

The modules cut the system along its shared state. Where two meet, one takes
the other's result as an input: `PullWork` leaves the inside of an inference to
`ResponseStream`; `PoolCommands` leaves claims, reconnects and transports to `SupervisedPool`; `SupervisedPool` takes a dial as success or
failure, whose inside is `PlaneSession`; `EngineProcess` leaves keys and posts
of later epochs to `EpochRotation`.

### SupervisedPool

A task of the runtime is an entry of `pc` and `loc`: a program counter and the
local variables of the Rust function. A step ends where the code awaits the
network or a timer; awaits that only take a lock are not separated. The `pc`
prefix tells the function: `rc_` `schedule_reconnect`/`reconnect_slot`, `dr_`
`drain_with_plan`, `sc_` a chunk task of `scale_to`, `mg_`
`migrate_gateway_pool` and its helpers, `rt_` `retire_source_when_idle` and
`retire_session`, `cl_` `close_all_with_timeout`.

| Variables | Code |
|---|---|
| `slots`, `url`, `pending`, `suppress` | `state.slots` in order, and the slot's gateway url and two atomics |
| `primary`, `hold`, `closed` | gateway base url, `migration_hold`, `closed` |
| `conn`, `minted` | the connector's map: absent, open, or present with a dead transport; session ids handed out |
| `registry`, `worker` | `PullWorkerRegistry.workers` and the spawned loops with their stop and busy flags |
| `worker[w].link` | the transport a loop holds: the mapped one, a dead one, or one that task `t` is disconnecting. This tells a worker's own transport from the session's present one, which the code keeps apart too |
| `issued` | operator commands so far (bound) |

A graceful disconnect is the pair *detach* (out of the map, worker stopped) and
*close* (guarded by `MayClose`: the gateway says `ready_to_close` once nothing
is in flight on that transport). Between them anything may happen. `Faults`
selects what the network does: `loss` (a transport dies, also one being
disconnected), `dial` (a dial fails), `timeout` (a disconnect gives up on
`ready_to_close`), `post` (posting a result fails on a live transport).

Simplifications, all of which keep every order of the steps they concern:
the behaviour starts after boot; back-off, circuit breaker and connect throttle
only delay, so a waiting task may go on at any time; a failing attestation
refresh and a failing dial are one failure; `ensure_started` and the reading of
a plan's inputs, which await locks only, are one step each; fractions are exact rationals, which
agree with the code's `f64` on dyadic ones.

### EpochRotation

Epochs are numbered in the order of minting, and a tick of `now` is the unit of
`Ttl`, `Lead` and `Grace`. `loop` is where the schedule task is; `add_epoch`
(insert, then set current) and `prune_retired` (read current, then remove) take
two locks in turn and are two steps each, which is what makes their
interleaving interesting. `gateway[s]` is what the gateway accepted on a
session (external; it answers posts and hands out work sealed to an epoch that
has not expired). A request goes through `resolve`, `decrypt`, for embeddings a
second resolve, `begin_response` and the signing of its usage, with any number
of rotations and prunes in between. `Faults` selects failing mints and posts.

One assumption is built in, at `Tick`: a rotation does not remain in its posts
for longer than the validity plus the grace of the epoch it posts. The posts
have no time limit of their own in the code, so this is an assumption about
the transport: a connection that answers nothing is dropped before that.

### ResponseStream and ResultContract

`pc` is where `pull_once` is: the result post is opened with status 200
(`OpenStreamingPost`), the envelope is refused or dispatched, embeddings are
answered in one frame, a chat begins a response session, asks the upstream and
streams. `tail`, `ready`, `fold`, `eof` are the fields of `VllmSseStream`;
`pending` and `seq` the locals of `run_chat_inference`; `wire` the frames
written; `post` and `json` what the gateway sees of the stream and of the error
answer that may replace it. Text is a sequence of units: reasoning, content and
the thinking separator; a chunk holds `ChunkChars` of them. A network chunk
ends with a line or inside one, and the upstream may end without the last
newline. `said` records the text of the lines as they arrive, before the parser
has looked at them; `sent` what the parser yielded. Characters are one byte.
`FreeEngine` is a prune that may come at any time.

`ResultContract` has three variables: the gateway's view (waiting, streaming,
complete, cut, answered, lost), the number of ciphertexts and whether the
final one is written. `MeetsContract` maps them from `pc`, `post`, `json`,
`seq` and `wire`; the refinement includes the contract's liveness, that the work ends.

### PullWork

Each worker has a program counter, the request it holds, its busy flag and its
transport. An envelope is a kind (challenge, ops control, unreadable, of the
wrong traffic class, refused by the gate, gateway-plane task, end-to-end
encrypted) and a signature; the gateway (external) hands an envelope out up to
`MaxDeliveries` times, to any worker. The mode is what
`EnvelopeAdmitter::from_env` makes of the environment. A request to stream has
its result post opened before it is admitted (`OpenStream`); when it fails, the
stream is aborted and the answer posted whole (`AbortStream`, then
`PostResult`). `runs` counts gateway-plane tasks too, which run without being
admitted (`RunWhole`). `PostFails` keeps the
difference between control work, which resets the busy flag, and inference
results, which return before it.

### PoolCommands

`job[a]` is the command an actor carries out: the hint applier, the pull worker
with an ops-control request, the scale, drain and migrate controls, and the
deferred retirement a migration leaves behind. A command reads the pool once
(`ApplyDesiredPoolTarget`, `ScaleTo`, `DrainWithPlan`, `MigratePlan`) and then
acts session by session, one step from await to await, with all others in
between:

* a drain takes the next idle session of its list, looks at its flag again
  (`DrainLook`), stops its worker (`StopSession`), waits for the disconnect and
  removes the slot (`SlotRemoved`);
* a migration replaces its idle sources without a second look (`MoveNext`,
  `Redialled`, `StopSession`, `SlotReplaced` at the index read before the dial),
  arms the hold and dials ahead for the busy ones (`DialAhead`), which the
  retirement releases when they are idle (`RetireNext`, `RetireLook`). A failing
  dial ends it with an error (`MigrateFails`); the migrate control starts over
  until the target has its share.

`registered`, `polling` and `working` are a session's worker in the registry, a
stopped worker whose last poll is still out, and work in hand; a session is
`Busy` if it is registered and working. The session whose worker carries out
ops control is `own`. `hold` blocks drains while it keeps its source and protects
the sessions on its target otherwise. `file[a]` may be rewritten while it is
handled, and is then removed unread. `budget` bounds commands, work, and
failures with changes of the gateway's mind. All migrations name one target,
and the retirements of several migrations are one task, which works through
all their sessions; a dial that has not ended has no id yet.

### PlaneSession

`queue[d]` is the fair mutex around `SendRequest` of dial `d`'s transport: the
first caller has the lock and keeps it until the response's headers arrive.
Callers are the dialler, the pull worker, the post of an answer that is sent
whole (a challenge, an ops-control result, a task, or the answer that replaces
an aborted stream), the epoch poster and the disconnect. A gateway quote is of
a kind (an SEV-SNP wrapper, a mock quote, neither), carries the dial and nonce it was made for, the TLS leaf it
binds, and at most one defect. Whoever ends the TLS connection (the gateway, or
a proxy) may hand on any quote the gateway has made. `config` says whether a
verifier is set and which kinds of quote the backend knows, if there is one.
The nonce inside a quote is compared only if it is a wrapper, and a quote
without a readable date has no age, as in the code. The checks of `verify.rs` and of the
platform policy are operators under their own names. The body of a response
arrives with its headers; dials of one id do not overlap, as the pool
reconnects a session in one task at a time (`OneReconnectPerSession`).

### EngineProcess

`main` runs through configure, attest, wire, connect, register, start, running,
stopping. `env` is what the machine and the environment provide: the one
input that may be `wrong`, a pins file that is valid, invalid or absent, the
value of `TEECHAT_OPE_ENGINE_VERIFY` (a mode, none, or one that does not parse),
the trust keys. `admission` is the mode in force once `Wire` has read it. The recollect loop, the refresh, a rotation and
a challenge each have a record with a program counter; every access to a shared
cell (`cache`, `attestation`, `epoch`) is a step. Of a bundle only the source
of its GPU evidence is kept, of an epoch's evidence the epoch its report names
(0 for the connect bundle).

## 3. Runs

`tlc -config M_run.cfg M`. Deadlock is checked in `stream` (a finished response
stutters explicitly). Elsewhere the system may stop: a pool that nobody commands, a
clock at its bound, workers whose transports are gone, a process that has exited.

| Run | Distinct states | Checks |
|---|---|---|
| `reconnect` | 64,055 | one session that loses its transport again and again, failing dials, a drain, a shutdown, disconnect time-outs: `OneReconnectPerSession`, `PendingHasOwner`, `OnePullerPerSession`; under fairness `EventuallyReconnected`, `SuppressedSlotLeaves` |
| `migrate` | 260,066 | two overlapping migrations to either gateway, half or all of the pool, failing dials, work at any time: `MakeBeforeBreak` |
| `mixed` | 381,057 | scales, drains (by count and fraction) and migrations of a growing pool, failing dials and posts: `TypeOK`, `NoWorkCut` |
| `overlap` | 1,269,940 | three epochs, failing mints and posts, prunes, a session that comes and goes, a request of any length: `TypeOK`, `CurrentHasKey`, `JoinsKnownEpoch`, `KeyHeldThroughGrace` |
| `stream` | 250,880 | chat in both text modes and embeddings, with and without transcript, four event lines of any content cut anywhere, every refusal and break: `TypeOK`, `NumberedOnce`, `TextPreserved`, `ThinkingFolded`, `SessionFreed`, `NoSilentDrop`, and the refinement `MeetsContract` |
| `admit` | 732,050 | two workers, one envelope of any kind handed out three times, every admission mode: `TypeOK`, `RunOnce`, `OneAnswerPerDelivery`, `BusyCoversWork`, `WorkerReleased` |
| `commands` | 531,284 | four session ids, all six actors, a baseline below and above the pool target: `TypeOK`, `OwnSessionSpared`; under fairness `HintConverges`, `ScaleServed` |
| `plane` | 129,208 | two dials of one id, quotes of every kind, relayed, of another dial, too old or without a date, five callers: `TypeOK`, `NoneLeaked`, `OwnEvidence`; under fairness `LeavesClosedTransport`, `PostGetsThrough`, `DisconnectEnds` |
| `engine` | 865,759 | two sessions, three epochs, every machine with the usual settings and every setting on one machine: `TypeOK`, `FailClosed`, `EpochBeforeWork`, `AnswerBindsAsked`, `EvidenceNamesOwnEpoch`; under fairness `RecollectGoesOn` |
| `retire_lost`, `retry`, `last_good` | until the first counterexample | statements of the repository that the code does not keep, section 4 |

What the properties say, and why they are not obvious:

* `OneReconnectPerSession`: `suppress_reconnect`, called by drains, retirements,
  migrations and shutdown, clears `reconnect_pending` while a reconnect owns
  it. Exclusion survives because the same call sets `suppress_reconnect`, which the claim tests.
* `PendingHasOwner`: a flag left set by an early return would make every later
  report of a loss a no-op.
* `NoWorkCut`: drain and retire look at the busy flag and then stop the worker;
  the worker may take work in between. The request survives because the
  disconnect waits for it, not because of the check. It holds as long as no disconnect runs into its 120 s limit.
* `MakeBeforeBreak`: also when a dial ahead fails half-way, and when a second
  migration starts in the other direction.
* `OnePullerPerSession`: taking a worker out of the registry does not end its
  loop, which may be in a poll of minutes when the session's next worker starts.
* `EventuallyReconnected`, `SuppressedSlotLeaves`: the watch, the claim, the retries
  and the releases do not wait for each other forever.
* `CurrentHasKey`: a prune compares with a current id it read before a rotation
  changed it, and the current epoch can itself be past its grace when rotations keep failing.
* `KeyHeldThroughGrace`: a request keeps its epoch's key, and its usage is
  signed by it, until the grace is over, whatever rotates or is pruned.
* `JoinsKnownEpoch`: `session_ready` never registers an epoch whose key the decryptor was not
  given, and the key stays until the epoch's grace is over, whatever is pruned during the post.
* `TextPreserved` compares what the client decrypts with the lines as they arrived. Numbers (`NumberedOnce`) are handed out on five paths (chunks,
  neutral frames, the last text, the final frame of an ended and of a broken stream), and text waits in three buffers.
* `NoSilentDrop`, `MeetsContract`: the stream announces 200 before anything is
  known; an abort may even end its body in good order. As long as the
  connection lasts, the gateway never takes a response that broke off for one that ended.
* `RunOnce`: two workers admit the same envelope at the same time; one store
  they share decides, before anything that can fail. Tasks and unsigned
  requests, which are not admitted, run at most once per hand-out.
* `OneAnswerPerDelivery`, `BusyCoversWork`, `WorkerReleased`: on every early
  return of `pull_once`. The flag may stay set too long (a failed post), never too short.
* `OwnSessionSpared`: a worker drains or migrates the pool it belongs to. Its own busy flag
  keeps its session off the lists; released by its own command, it would wait for its own answer.
  Another command may release it (a migration that listed it while it was idle, a drain between its look
  and its stop): the answer then goes out on a transport that is being closed gracefully, which is `NoWorkCut`.
* `HintConverges`: actors that plan from the same count overshoot together;
  the hint repeated with each poll repairs it, in either direction. It is stated under three
  conditions the code does not guarantee: a worker is left to receive hints, each session
  becomes idle again (a failed result post leaves `busy` set, pull.rs:414), and no migration hold
  stays for ever (`retire_lost` shows one that does). A target above `pool_target_size`, which the
  defaults allow (baseline 4, pool target 1), is refused by `scale_to` at each hint and is only drained down to.
* `ScaleServed`: the file of a scale request goes only after a pass in which every dial succeeded, and a
  request the pool can meet does not stay.
* `OwnEvidence`: the chain from nonce and TLS leaf to the accepted quote has no
  gap that a relayed response, or for an SEV-SNP quote another dial's, fits through. Of a mock quote the code
  compares no nonce, and the property claims none.
* `PostGetsThrough`, `DisconnectEnds`, `LeavesClosedTransport`: long polls, result
  posts, epoch posts and disconnects share one lock; none starves, and a worker
  notices a transport closed under it.
* `FailClosed`, `EpochBeforeWork`: whichever setting is wrong and whichever step of the boot fails.
  `FailClosed` states what is stopped, and what admission falls back to where nothing stops it.
* `AnswerBindsAsked`, `EvidenceNamesOwnEpoch`: whatever a rotation does while a report is made.

**Bounds.** One session is enough for the reconnect race, since tasks
of different sessions share no flag; three tasks allow two rival reconnects
and a drain. Two booted sessions and four ids let two migrations each replace
both. In `mixed`, three ids over a target of three let a scale spawn both of its
two chunk tasks. In `overlap` three epochs and five ticks (validity 2, grace 1,
lead 1) allow two rotations and a prune of the first epoch while a request uses
it. `MaxTask` and `MaxWorker` bound tasks and workers alive at once; a step
that would spawn one more waits. Four lines and chunks of two units reach an empty, an exact and a
carried-over chunk in every order with the separator. Three hand-outs let two workers hold an
envelope and a third delivery follow an answer. A pool target of 2 with four ids lets two
scales overshoot, and a migration replace the pool while a drain works on it; one command, one request
and one failure at a time beside the hints, which are not bounded. Two dials give a stale transport beside the new one, and a quote of an earlier dial. Three epochs allow
two rotations during a challenge. `MaxCommands` bounds commands, not what
the network and the workers do.

**Fairness.** The runtime runs every ready task and the 5 s watch timer, and a
worker answers the request it has or fails it (weak fairness of task steps, of
`WorkerDone`/`WorkerStops` and of `Watch`). A gateway redialled forever accepts in
the end (strong fairness of `ReconnectDialOk`): the code retries without a
limit, so this is what `EventuallyReconnected` rests on. `WorkerLost` is
strongly fair only because the bound on tasks can make its spawn wait, which the
runtime never does. For epochs, the schedule loop runs and time passes.
Commands, work, losses and prunes need never happen.
In `stream` the worker runs on and the upstream keeps sending or fails: nothing in the code bounds the time it takes, so this is
an assumption about the upstream. In `admit` each worker's own steps are fair, polls and work are not. In `commands` every actor carries its command
on, dials and disconnects end, the 2 s poll of the scale file runs and polls bring hints; nothing is assumed of work in hand, of the holds
it keeps up, or of signals, and drains, migrations and ops control need never be asked for. In `plane`
tasks run, the gateway answers what it was sent (or the connection is lost), and the 120 s pass. In `engine` only the boot and the recollect loop are fair.

Each property of a passing run is shown able to fail: `PROJECT.json` names, for
each, a variant of one definition (a dropped test, a missing reset, an
off-by-one) under which TLC finds it violated. The variants stand in the modules above the definition they vary.

## 4. Where the code and its own statements part

Each of these is a run whose property states the quoted line; TLC gives the
shortest sequence of steps.

1. `retire_lost`, `RetiredOnceIdle`. `retire_source_when_idle` (pool.rs:1093)
   forgets a session before `retire_session` looks at the busy flag again and returns early. A session that
   takes work between the two looks is never retired and its migration hold never ends.
2. `retry`, `RotationRetried`. A failing `rotate_internal` returns without clearing
   `rotating` (rotator.rs:238): the announced retry returns at once, for ever. The run needs no
   injected fault: a session that is disconnected during the posts is enough.
3. `last_good`, `LastGoodKept`. An `nvidia-smi` that exits with an error is read as "no confidential
   GPU" (collect.rs:107-165), which is an answer: the recollection writes it over the evidence
   nvattest gave (gpu_idle_recollect.rs:123), and the patched bundle shows it.

More such statements are kept in the modules as properties that TLC refutes when
they are added to the configuration of the run in brackets:

* `ReconnectOnlyClosed` (`SupervisedPool`) [`reconnect`]. A stopped worker reports the loss of its
  old transport after a reconnect has replaced it; the second reconnect
  (pool.rs:344) does not ask whether the session is closed and tears the new transport down.
* `MigrateUpdatesSlot` (`SupervisedPool`) [`mixed`]. `migrate_session_to` uses a slot index read
  before two network awaits (pool.rs:1175); past the end of a shortened list, the new session gets no slot.
* `UsageSignedByEpoch` (`EpochRotation`) [`overlap`]. A response that outlives its epoch's grace has
  its usage signed by the process key (ope_inference.rs:88; rotating_decryptor.rs:88 speaks against it).
* `ListedSessionHasCurrent` (`EpochRotation`) [`overlap`]. A session that becomes ready during a rotation is
  in neither the rotation's snapshot nor registered with the new epoch (rotator.rs:137).
* `PartialTokensKept` (`ResponseStream`) [`stream`]. "close RB-06 with a final frame so clients can keep partial tokens"
  (ope_inference.rs:710); but the status is 502, so `pull_once` aborts that stream and posts a JSON error (pull.rs:455).
* `AbortedIsSeen` (`ResponseStream`) [`stream`]. `StreamingPostHandle::abort` drops the body's sender before it cancels the request
  (session.rs:66), so the body may end in good order; when the connection is then lost with the error answer, the gateway has a 200 stream without a trailer and nothing else.
* `RequiredAdmitsAll` (`PullWork`) [`admit`]. "`required` — every envelope must pass `verify_and_open`" (admit.rs:8): a
  gateway-plane task runs before the admitter is asked (ope_inference.rs:245), in every mode.
* `PostsShareConnection` (`PlaneSession`) [`plane`]. "Release SendRequest before awaiting the body so long-poll work-pull and
  concurrent ephemeral POSTs can multiplex" (hyper_transport.rs:75): the lock is kept until the headers, and a long poll's headers are its answer.

Met while modelling, without a property: a drain that releases a session during a
reconnect's dial does not stop it, so a connection without a slot
remains in the map (pool.rs:391), and neither does the shutdown, so that a live session and its worker may appear after `force_close_all`, until the process exits; a reconnect dials the slot's own url where the comment at
pool.rs:828 speaks of the primary (pool.rs:362); `resolve_handle` falls back
to the current epoch for a pruned one (rotating_decryptor.rs:70), so such a request fails in decryption
rather than in the lookup; nothing outside tests registers a quote backend (fixture.rs:23), so that with gateway verification on every connect is refused;
the disconnect's deadline is looked at only after an answer (disconnect.rs:65); neither the plane's requests nor the upstream client have a time limit (client.rs:321);
a failing registration of the initial epoch ends the process without `close_all` (main.rs:801);
a value of `TEECHAT_OPE_ENGINE_VERIFY` that does not parse reads as unset, and without keys that is off (admit.rs:127-138); a missing pins file is skipped (main.rs:427);
the nonce inside a gateway quote is compared only if it parses as an SEV-SNP wrapper (verify.rs:103), so that an earlier dial's mock quote passes with this dial's nonce echoed beside it;
a request file rewritten while it is handled is removed unread (scale.rs:71).
Hazards outside the models: `ensure_started` tests the map, awaits and inserts, so that a stop in between leaves a running worker registered (pull_workers.rs:64);
10 * (1 - 0.9) floors to 0 in `f64` (cutover.rs:123); the recollection patches a bundle it has read before, and overwrites a refresh in between (gpu_idle_recollect.rs:124);
`from_utf8_lossy` is applied chunk by chunk, so that a character of several bytes that a chunk boundary cuts becomes replacement characters (client.rs:531); the prefill plan marks a conversation warm before the upstream accepts it (ope_inference.rs:575),
and `cached_tokens` may exceed `prompt_tokens` (ope_inference.rs:805); `force_target` answers ok although the idle drain may stop above the target (ops_control.rs:80);
a tool's stderr is cut at byte 240, which may lie inside a character (process_timeout.rs:68).

## 5. Proofs

`tlapm M.tla` checks the module `M`. The theorems hold for every value of the
constants that the assumptions of the component's module allow, so for any
number of sessions, tasks, workers, dials, requests, epochs and lines; the
runs of section 3 show the same properties on small instances. Each module of
proofs begins with the inductive invariant `IInv` (TLC has checked each on the
runs' instances) and has one case per action.

| Module | Theorem | Statement |
|---|---|---|
| `EpochRotationProofs` | `TypeCorrect`, `CurrentKeyKept`, `JoinsKnown` | `[]TypeOK`, `[]CurrentHasKey`, `[]JoinsKnownEpoch` |
| | `OverlapHonoured` | `KeyHeldThroughGrace`, an action property |
| `SupervisedPoolProofs` | `TypeCorrect`, `OneReconnect`, `ClaimsHaveOwners` | `[]TypeOK`, `[]OneReconnectPerSession`, `[]PendingHasOwner` |
| | `OnePuller` | `[]OnePullerPerSession` |
| | `NoWorkIsCut` | `NoWorkCut`, an action property, when `Faults` has no `timeout` |
| | `MakesBeforeItBreaks` | `[]MakeBeforeBreak`, when `Commands` has no `drain` and no `close` and `Faults` no `loss` |
| `PullWorkProofs` | `TypeCorrect`, `RunsOnce`, `AnswersOnce`, `BusyIsHonest` | `[]TypeOK`, `[]RunOnce`, `[]OneAnswerPerDelivery`, `[]BusyCoversWork` |
| `ResponseStreamProofs` | `TypeCorrect`, `NumbersOnce`, `SessionsFreed`, `NothingDropped`, `FoldsThinking`, `KeepsText` | `[]TypeOK`, `[]NumberedOnce`, `[]SessionFreed`, `[]NoSilentDrop`, `[]ThinkingFolded`, `[]TextPreserved` |
| | `KeepsContract` | `Contract!Init /\ [][Contract!Next]_(Contract!cvars)`: the safety part of `MeetsContract` |
| `PlaneSessionProofs` | `TypeCorrect`, `EvidenceIsOwn`, `NoTransportLeaks` | `[]TypeOK`, `OwnEvidence` (an action property), `[]NoneLeaked` |
| `EngineProcessProofs` | `TypeCorrect`, `FailsClosed`, `EpochPostedFirst`, `ChallengeAnswers`, `OwnEvidence` | `[]TypeOK`, `[]FailClosed`, `[]EpochBeforeWork`, `[]AnswerBindsAsked`, `[]EvidenceNamesOwnEpoch` |
| `PoolCommandsProofs` | `TypeCorrect`, `OwnSessionSurvives`, `ScaleFileKept` | `[]TypeOK`, `[]OwnSessionSpared`, and the action property `RemovedWhenMet`, the safety half of `ScaleServed` |
| `PoolPlanningProofs` | `DrainByCount`, `DrainByFraction`, `ScaleBounds`, `MigrationBounds`, `ClampBounds`, `InitialCountBounds` | bounds of each plan, for all sizes, counts and fractions |

**Assumptions.** `EpochAssumption`: positive durations, boot sessions among
the sessions. `PoolAssumption`: a pool of at least one booted session and at
least one dial at a time, bounds that fit it. `WorkAssumption`: finitely many
workers, and `None` is no request. `SizesAssumption`, `TargetsAssumption`,
`SessionsAssumption`: positive sizes, and ids enough for the pool at its
floor. `ChunkCharsAssumption`: a chunk holds a character, which the code
ensures by replacing 0 by 8. `DefectsAssumption`: the defects are among those
the checks look for, or a missing date. `BackendsAssumption`, `EnvironmentsAssumption`: the kinds of quote and the settings are
among those of the model. The bounds (`MaxEpoch`, `MaxDials`, `MaxLines` and so on)
are natural numbers of any size. The assumption on `Tick` of section 2 is part
of the specification of `EpochRotation`.

**EpochRotation.** `CurrentHasKey` is not inductive: a prune about to remove
might hit the current epoch. `NextIsYoungest`: while a rotation runs, its epoch
is the last one minted; it is not installed during the posts, has its key once
they end, and is not past its grace until it is current (this is where the
assumption on `Tick` enters). `InstalledAreMinted`: nothing beyond the last
minted epoch is in the map or was freed, so a fresh epoch cannot have been
freed already. `FreedPastGrace`: a freed epoch is past its grace, so that a
request within its grace finds its handle alive; this gives `OverlapHonoured`.
`JoiningInstalled` and `FreedPastGrace` give `JoinsKnown`: a joining epoch was
installed, so it is still held or was freed past its grace.
`PruneSparesCurrent`: the current id a running prune read is still current, or
the epoch adopted since was within its grace when the prune read the clock.
Either way the removal that follows leaves the current epoch alone.

**SupervisedPool.** `OneReconnectPerSession` is not inductive because a claim
tests flags, not tasks. `Claimed` ties them: a task that owns a reconnect has
its session's `reconnect_pending` set, or a release has set
`suppress_reconnect` or removed the slot, and either stops a second claim. For
that the slot must stay the session's: `SlotsOnce` (no session in two slots)
and `SlotsMinted` (a new id has no slot and no owner), and for the one place
where a slot changes its session, `ReplacementUnused` (a migration's fresh
session has no slot, no reconnect and no other migration). `PendingHasOwner` then needs
only `OneReconnectPerSession`: the task that ends is the owner whose flag it
clears. `NoWorkIsCut` looks at one step: a transport is taken from a worker by
`CloseDetached`, the end of a graceful disconnect, which waits for
`MayClose`, or by a dial that puts another transport in the map.
`RedialsUnmapped` and `LinkIsOpen` show that the second takes none: a worker on
the mapped transport has one in the map, and a reconnect dials when there is
none. The shutdown is excluded by `CloseWaits`. Without the hypothesis on
`timeout` the statement is false, as the code gives up waiting after 120 s.
`OnePuller` rests on one more invariant, `PullerRegistered`: a loop that will
pull again (its stop flag is clear, or it is on the mapped transport) is the
one the registry holds for its session. Every step that takes a handle out of the
registry sets the flag and detaches the transport, and `ensure_started` adds a
loop only for a session with no handle; the registry has one entry per session.

`MakesBeforeItBreaks` covers any number of concurrent migrations and scales,
with failing dials, disconnects and posts; a drain, the shutdown and a lost
transport take capacity by themselves and are excluded. Its invariant `MInv`
adds to `IInv`:

* `Balanced`: the open sessions number at least the booted ones plus every
  task's credit. A task earns a credit by a dial and spends it by a release:
  a session redialled in place is one between `mg_dial` and the release, a
  session dialled ahead is one from its dial on, carried by the entry in
  the list `retire_source_when_idle` works through (`CreditOf`, `Rounds`).
  Credits may be lost (a source session that has left the pool meanwhile is
  skipped) and are never invented, also when two migrations
  retire the same session.
* `ClaimableOpen`, `GivenUp`: no reconnect gets past its claim, which would
  take a session out of the map without a credit. A stopped worker reports its
  session lost when its transport is closed under it, so reconnects of released
  sessions are scheduled all the time; but such a session has no slot, or a
  suppressed one, and will not get a live one again.
* `PickedHadSlot`: the session picked for release is not the replacement that another
  migration has just dialled.

`TypeCorrect` adds `Types` and `AheadOfOne` to `IInv`. A task starts with
selections of the slots (`SlotsWhere`, cut to the plan by `FirstOf`); that
`ElementsAt`, a recursive function, returns a sequence of the slots' elements is
`ElementsAtType`. The lengths come from plans, whose bounds are
those of `PoolPlanningProofs`; from there every task takes one by one.
`AheadOfOne` says that the list is not empty while a session dialled
ahead becomes ready: the busy session it stands in for is the variable of the
code's loop, and the model takes it off the list when the iteration ends.

**PullWork.** `RunOnce` needs `SpentBeforeRun`: an envelope past admission has
its nonce spent and either runs in one worker or has run. `HeldWasSent` fixes
an envelope from its first hand-out on. The counting properties are about
cardinalities; `OneRunPerDelivery` counts the workers that may still run a
request, so that `runs` stays within its bound.

**ResponseStream.** `NumberedOnce` is about positions of frames on the wire;
the lemmas say what appending frames and sealing a batch of chunks does to them.
`Streaming` (nothing final is written while the upstream is read) is what keeps
the final frame last. `Unwritten` and `Outcome` say what each return leaves
behind. `ThinkingInOrder` generalises `ThinkingFolded` from a finished answer
to what is sent or ready at any time, with the parser's two flags.
`KeepsText` follows the text in two halves. `SealedAsSent`: the texts of the
ciphertexts by number (`Texts`) and the `pending` rest make up what the parser
yielded. Only legacy text is re-cut into chunks, so `TextInv` adds that nothing
is pending otherwise. Each action either leaves
the numbered ciphertexts alone (`TextsKept`, `TextsPlain`) or adds the next ones at
the end (`TextsSealed`), and then their texts, flattened, are appended
(`FlattenAppend`); `ChunkedText` shows that full chunks and rest are the text they
were cut from. `SaidInv`: what the parser yielded, what is ready and what the
unfinished line will give (`Heard`) is all that the lines said, with a separator
somewhere once the parser's flag says so; a line moves from the buffer to the
ready pieces without changing it (`LineSays`), and the separator is put in once
(`Split`). At a 200 nothing is ready or unfinished, which joins the halves. `KeepsContract` maps each action to a step of `ResultContract` or a stutter.

**PlaneSession.** `MutexOK`: who waits or awaits headers is in the queue once,
and the one awaiting headers is its first. `QuotesBind`: every quote about was made by the
gateway and binds the nonce of the dial it was made for, and a nonce is its
dial's own; with the checks of `verify.rs` this gives `OwnEvidence` at the step
that puts a dial into the map. `AnswerOfWorker`: an answer is under way only while its worker waits for it.
`DialsFollow` and `MapHoldsAccepted` give `NoneLeaked`: the map is empty when a
dial is accepted, so nothing is pushed out of it unclosed.

**EngineProcess.** `ChecksPassed` says at each stage of the boot which inputs
can no longer be wrong, and that the mode in force is what `from_env` makes of them, `BootOrder` which sessions and workers exist;
`RotationEvidence` carries an epoch's evidence from the mint to its
publication. `LoopsCarryEvidence` is needed for `TypeOK` alone: a cell never
gets back to holding nothing.

**PoolCommands.** `OwnSessionSpared` rests on `OwnIsWorking`: the session of the
worker that carries out an ops-control request is working until the answer is
posted, hence busy while it is registered. What a command has in hand next is
what it had or a session that is idle now (`Follows`, `InHand`), and no session
comes back into the registry, as a replacement is a fresh id (`NewIsFree`).
`ScaleFileKept` needs of a finished pass that it succeeded only if nothing is
missing (`GoodJob`). The plans' bounds come from `PoolPlanningProofs`.

**Only model-checked.** All liveness (`EventuallyReconnected`,
`SuppressedSlotLeaves`, `WorkerReleased`,
`HintConverges`, that a scale request does not stay in `ScaleServed`, `LeavesClosedTransport`, `PostGetsThrough`,
`DisconnectEnds`, `RecollectGoesOn`, and that a response ends in
`MeetsContract`): the prover handles neither fairness nor `ENABLED`. All invariants of the runs are
proved, and so are the action properties `NoWorkCut`, `KeyHeldThroughGrace`, `OwnEvidence` and `RemovedWhenMet`.

**Induction.** The provers cannot use the library's induction theorems, which
take an operator as a parameter. The two facts that need induction over data
(what `FlattenSeq` gives on a sequence that grows, what `ElementsAt` selects) are proved by
least counterexample: `WFMin` of `WellFoundedInduction` gives a least element
of the set of numbers that violate the fact (`LeastElement`, `LeastNumber`), and the number
before it yields a contradiction. This also gives the recursive
functions behind the two operators: a function is built up to every length, so that the
`CHOOSE` by which TLA+ defines it has a value.

## 6. Plan

1. **`ReconnectGovernor`**: failure window, circuit breaker and connect throttle, with the
   back-off of `PoolPlanning`; how many dials start in a window, and that an open circuit closes again.
2. **Accounting**: prefill plan, token counts and signed usage of `run_chat_inference`.
3. **`AbstractPool`**: what the pool promises (a set of sessions with capacity and work), with
   `SupervisedPool` shown to implement it.

## 7. Not modelled

The bytes of attestation reports, certificates, report data and transcripts, and the tools that make
them: evidence is a value that names what it binds, a check passes or fails. HTTP/2 flow control, TLS,
the parsing of environment, files and JSON. The cipher. Rounding of `f64` for fractions that are not dyadic. Multi-byte characters in the event
stream. Token counting, prefill plan, multimodal parts and the shape of requests to the upstream. The connect throttle, the failure window and the circuit
breaker, which only delay. Status file, path rules, metering, event log and formatting keep no protocol state.
The status of each component is in `PROJECT.json`.
