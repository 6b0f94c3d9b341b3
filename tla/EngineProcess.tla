---------------------------- MODULE EngineProcess ----------------------------
(***************************************************************************)
(* The engine process (ie-bin main.rs run_engine): its boot, the evidence  *)
(* it shows (ie-attestation, epoch/engine_epoch.rs), the idle recollection *)
(* of GPU evidence (epoch/gpu_idle_recollect.rs), the answers to client    *)
(* challenges (engine_challenge/) and the shutdown.                        *)
(*                                                                         *)
(* Four threads of control share the GPU evidence cache and the rotator's  *)
(* attestation: the recollect loop, the attestation refresh of the pool,   *)
(* the rotation and the challenge handler; each access to a shared cell is *)
(* a step.  Of a connect bundle only its GPU evidence is kept, of an       *)
(* epoch's evidence the epoch its report names.  Key overlap and the       *)
(* posting of later epochs are the business of EpochRotation, sessions     *)
(* that of SupervisedPool, what admission lets through that of PullWork.   *)
(***************************************************************************)
EXTENDS Naturals, FiniteSets

CONSTANTS
    Sessions,      \* the sessions the boot may connect
    MaxEpoch,      \* bound on rotations
    Environments   \* the settings and machines the process may be started on

ASSUME MaxEpochAssumption == MaxEpoch \in Nat \ {0}

\* Settings the boot refuses when they are wrong.
Inputs == {"instance_id", "tls_reject", "tls", "measurements"}

AdmitModes == {"off", "signed-only", "required"}

AllEnvironments ==
    [wrong : Inputs \cup {"none"},
     pins : {"valid", "absent", "invalid"},                     \* config/tcb-pins.json
     verify : AdmitModes \cup {"unset", "unrecognised"},        \* TEECHAT_OPE_ENGINE_VERIFY
     keys : {"none", "good", "broken"},                         \* the trust keys
     kind : {"prod", "dev", "dev with gpu"}, snp : BOOLEAN, recollect : BOOLEAN]

ASSUME EnvironmentsAssumption == Environments \subseteq AllEnvironments

VARIABLES
    env,           \* what the environment and the machine provide
    admission,     \* the admission mode in force; "unset" until it is read
    main,          \* where run_engine is
    live,          \* sessions connected by pool.boot
    todo,          \* sessions the boot has still to register or to start
    posted,        \* sessions that have the initial epoch
    workers,       \* sessions with a pull worker
    busy,          \* sessions whose worker is on a request
    cache,         \* GpuEvidenceCache: the last good GPU evidence, by source
    attestation,   \* the GPU evidence in the rotator's bundle
    epoch,         \* the current epoch: its number and its evidence
    rec,           \* the recollect loop
    refresh,       \* the pool's attestation refresh
    rot,           \* a rotation
    chal           \* a challenge being answered

setup == <<env, admission>>
boot == <<live, todo, posted, workers>>
evidence == <<cache, attestation, epoch>>
vars == <<setup, main, boot, busy, evidence, rec, refresh, rot, chal>>

-----------------------------------------------------------------------------
(* Evidence.                                                               *)

mock_allowed == env.kind # "prod"
should_use_real_gpu_collector == env.kind # "dev"

\* Without a GPU in confidential mode: mock evidence, or "not applicable".
NoGpuEvidence == IF mock_allowed THEN "mock" ELSE "not_applicable"

\* collect_nv_cc_gpu_evidence_b64.  nvidia-smi that exits with an error reads
\* as "no confidential GPU", which is an answer and not a failure.
CollectedGpu ==
    {NoGpuEvidence} \cup (IF should_use_real_gpu_collector THEN {"nvattest"} ELSE {})

\* A tool times out or fails, confidential mode goes off in between, or
\* nvattest has no evidence.
GpuCollectFails == should_use_real_gpu_collector

\* The hardware report: without SNP a mock quote takes its place.
ReportFails == env.snp

\* build_engine_epoch_attestation_bundle names the epoch's keys (bind v2);
\* without a report create_engine_epoch takes the connect bundle, naming none.
EvidenceFor(id) == {id} \cup (IF ReportFails THEN {0} ELSE {})

\* match_epoch_evidence: does the evidence name this epoch's keys?
match_epoch_evidence(e) == e.names = e.id

-----------------------------------------------------------------------------
(* Boot.                                                                   *)

\* EnvelopeAdmitter::from_env: a value that does not parse reads as unset,
\* and the default without keys is "off".
admit_mode ==
    IF env.verify \in AdmitModes THEN env.verify
    ELSE IF env.keys = "none" THEN "off" ELSE "signed-only"

AdmissionFails ==
    env.keys = "broken" \/ (env.keys = "none" /\ admit_mode # "off")

Fail(at) == main = at /\ main' = "failed" /\ UNCHANGED <<setup, boot, busy, evidence, rec, refresh, rot, chal>>

\* Pins, if there is such a file, engine id, TLS settings, client identity.
ConfigurationWrong ==
    env.pins = "invalid" \/ env.wrong \in {"instance_id", "tls_reject", "tls"}

Configure ==
    /\ main = "configure"
    /\ ~ConfigurationWrong
    /\ main' = "attest"
    /\ UNCHANGED <<setup, boot, busy, evidence, rec, refresh, rot, chal>>

ConfigureFails ==
    /\ ConfigurationWrong
    /\ Fail("configure")

\* build_engine_attestation_bundle with live GPU evidence; the cache, the
\* rotator and its first epoch start from it.
Attest ==
    /\ main = "attest"
    /\ env.wrong # "measurements"
    /\ cache' \in CollectedGpu
    /\ attestation' = cache'
    /\ \E names \in EvidenceFor(1) : epoch' = [id |-> 1, names |-> names]
    /\ main' = "wire"
    /\ UNCHANGED <<setup, boot, busy, rec, refresh, rot, chal>>

\* No measurements, no hardware report or no GPU evidence: no boot.
AttestFails ==
    /\ env.wrong = "measurements" \/ ReportFails \/ GpuCollectFails
    /\ Fail("attest")

\* Callbacks and inference options, the admission among them.
WireWith(mode) ==
    /\ main = "wire"
    /\ admission' = mode
    /\ main' = "connect"
    /\ UNCHANGED <<env, boot, busy, evidence, rec, refresh, rot, chal>>

\* A broken admission configuration taken for "admission off".
WireWithoutAdmission == WireWith(IF AdmissionFails THEN "off" ELSE admit_mode)

Wire == ~AdmissionFails /\ WireWith(admit_mode)

WireFails == AdmissionFails /\ Fail("wire")

\* pool.boot; a staging boot may have no session at all.
BootConnects ==
    /\ main = "connect"
    /\ live' \in SUBSET Sessions
    /\ todo' = live'
    /\ main' = IF live' = {} THEN "running" ELSE "register"
    /\ UNCHANGED <<setup, posted, workers, busy, evidence, rec, refresh, rot, chal>>

BootFails == Fail("connect")

\* The worker starts as soon as its session has been asked to register.
RegisterAndStart(s) ==
    /\ main = "register"
    /\ s \in todo
    /\ todo' = todo \ {s}
    /\ workers' = workers \cup {s}
    /\ UNCHANGED <<setup, main, live, posted, busy, evidence, rec, refresh, rot, chal>>

\* register_initial_epoch posts to one session after the other.
RegisterOne(s) ==
    /\ main = "register"
    /\ s \in todo
    /\ todo' = todo \ {s}
    /\ \E ok \in BOOLEAN : posted' = IF ok THEN posted \cup {s} ELSE posted
    /\ UNCHANGED <<setup, main, live, workers, busy, evidence, rec, refresh, rot, chal>>

\* One post failed: run_engine returns the error and closes nothing.
RegisterFails ==
    /\ todo = {} /\ posted # live
    /\ Fail("register")

Registered ==
    /\ main = "register"
    /\ todo = {} /\ posted = live
    /\ todo' = live
    /\ main' = "start"
    /\ UNCHANGED <<setup, live, posted, workers, busy, evidence, rec, refresh, rot, chal>>

\* ensure_started for each session; a failing start is only logged.
StartWorker(s) ==
    /\ main = "start"
    /\ s \in todo
    /\ todo' = todo \ {s}
    /\ \E ok \in BOOLEAN : workers' = IF ok THEN workers \cup {s} ELSE workers
    /\ UNCHANGED <<setup, main, live, posted, busy, evidence, rec, refresh, rot, chal>>

\* rotator.start, the session watch and the recollect loop, if enabled.
Started ==
    /\ main = "start"
    /\ todo = {}
    /\ main' = "running"
    /\ UNCHANGED <<setup, boot, busy, evidence, rec, refresh, rot, chal>>

-----------------------------------------------------------------------------
(* Requests.                                                               *)

WorkArrives(s) ==
    /\ main \in {"start", "running"}
    /\ s \in workers \ busy
    /\ busy' = busy \cup {s}
    /\ UNCHANGED <<setup, main, boot, evidence, rec, refresh, rot, chal>>

WorkEnds(s) ==
    /\ s \in busy
    /\ busy' = busy \ {s}
    /\ UNCHANGED <<setup, main, boot, evidence, rec, refresh, rot, chal>>

inference_idle == busy = {}

-----------------------------------------------------------------------------
(* Idle recollection of GPU evidence.                                      *)

RecGoto(at) == rec' = [rec EXCEPT !.pc = at]

\* The interval has passed: wait for a quiet pool.
RecollectDue ==
    /\ main = "running" /\ env.recollect
    /\ rec.pc = "sleep"
    /\ RecGoto("watch")
    /\ UNCHANGED <<setup, main, boot, busy, evidence, refresh, rot, chal>>

\* wait_for_quiet_idle samples the pool every 5 s: idle samples over the quiet
\* time let it through, one busy sample starts it again.
QuietSample ==
    /\ main = "running"
    /\ rec.pc \in {"watch", "quiet"}
    /\ RecGoto(CASE ~inference_idle -> "watch"
                 [] rec.pc = "watch" -> "quiet"
                 [] OTHER -> "gate")
    /\ UNCHANGED <<setup, main, boot, busy, evidence, refresh, rot, chal>>

\* With the collect gate: look once more, then run the collector.
GateChecked ==
    /\ main = "running"
    /\ rec.pc = "gate"
    /\ RecGoto(IF inference_idle THEN "collect" ELSE "watch")
    /\ UNCHANGED <<setup, main, boot, busy, evidence, refresh, rot, chal>>

Collected ==
    /\ rec.pc = "collect"
    /\ cache' \in CollectedGpu
    /\ rec' = [pc |-> "patch", gpu |-> cache']
    /\ UNCHANGED <<setup, main, boot, busy, attestation, epoch, refresh, rot, chal>>

\* The loop ends with the first failure.
CollectFailsForGood ==
    /\ rec.pc = "collect"
    /\ GpuCollectFails
    /\ RecGoto("off")
    /\ UNCHANGED <<setup, main, boot, busy, evidence, refresh, rot, chal>>

\* Logged; the cache is kept.
CollectFails ==
    /\ rec.pc = "collect"
    /\ GpuCollectFails
    /\ RecGoto("sleep")
    /\ UNCHANGED <<setup, main, boot, busy, evidence, refresh, rot, chal>>

\* patch_bundle_gpu_evidence on the rotator's bundle.
PatchSet ==
    /\ rec.pc = "patch"
    /\ attestation' = rec.gpu
    /\ rec' = [pc |-> "sleep", gpu |-> "none"]
    /\ UNCHANGED <<setup, main, boot, busy, cache, epoch, refresh, rot, chal>>

-----------------------------------------------------------------------------
(* Attestation refresh for scale, migrate and reconnect.                   *)

RefreshReads ==
    /\ main = "running"
    /\ refresh.pc = "off"
    /\ refresh' = [pc |-> "build", gpu |-> cache]
    /\ UNCHANGED <<setup, main, boot, busy, evidence, rec, rot, chal>>

RefreshSets ==
    /\ refresh.pc = "build"
    /\ attestation' = refresh.gpu
    /\ refresh' = [pc |-> "off", gpu |-> "none"]
    /\ UNCHANGED <<setup, main, boot, busy, cache, epoch, rec, rot, chal>>

RefreshFails ==
    /\ refresh.pc = "build"
    /\ ReportFails
    /\ refresh' = [pc |-> "off", gpu |-> "none"]
    /\ UNCHANGED <<setup, main, boot, busy, evidence, rec, rot, chal>>

-----------------------------------------------------------------------------
(* Rotation: the evidence of the next epoch.                               *)

\* create_engine_epoch over the new keys and the cached GPU evidence.
RotationMints ==
    /\ main = "running"
    /\ rot.pc = "off"
    /\ epoch.id < MaxEpoch
    /\ \E names \in EvidenceFor(epoch.id + 1) : rot' = [pc |-> "post", names |-> names]
    /\ UNCHANGED <<setup, main, boot, busy, evidence, rec, refresh, chal>>

\* The next epoch is published with the evidence of the one it replaces.
PublishesOldEvidence ==
    /\ rot.pc = "post"
    /\ epoch' = [epoch EXCEPT !.id = @ + 1]
    /\ rot' = [pc |-> "off", names |-> 0]
    /\ UNCHANGED <<setup, main, boot, busy, cache, attestation, rec, refresh, chal>>

RotationPublishes ==
    /\ rot.pc = "post"
    /\ epoch' = [id |-> epoch.id + 1, names |-> rot.names]
    /\ rot' = [pc |-> "off", names |-> 0]
    /\ UNCHANGED <<setup, main, boot, busy, cache, attestation, rec, refresh, chal>>

\* A post fails; `rotating` stays set and no rotation follows.
RotationFails ==
    /\ rot.pc = "post"
    /\ rot' = [pc |-> "stuck", names |-> 0]
    /\ UNCHANGED <<setup, main, boot, busy, evidence, rec, refresh, chal>>

-----------------------------------------------------------------------------
(* Challenges.                                                             *)

NoAnswer == [names |-> 0, binds |-> 0]

\* A client asks, for one epoch or for any (0).
ChallengeArrives ==
    /\ main = "running"
    /\ workers # {}
    /\ chal.pc = "off"
    /\ \E e \in 0..epoch.id : chal' = [chal EXCEPT !.pc = "asked", !.wants = e, !.answer = NoAnswer]
    /\ UNCHANGED <<setup, main, boot, busy, evidence, rec, refresh, rot>>

\* The handler takes its copy of the current epoch.
ChallengeReadsEpoch ==
    /\ chal.pc = "asked"
    /\ chal' = [chal EXCEPT !.pc = "mint", !.epoch = epoch.id]
    /\ UNCHANGED <<setup, main, boot, busy, evidence, rec, refresh, rot>>

\* The keys are read again when the report is made.
MintsFromCurrent ==
    /\ chal.pc = "mint"
    /\ chal.wants \in {0, chal.epoch}
    /\ chal' = [chal EXCEPT !.pc = "off", !.epoch = 0,
                   !.answer = [names |-> chal.epoch, binds |-> epoch.id]]
    /\ UNCHANGED <<setup, main, boot, busy, evidence, rec, refresh, rot>>

\* mint_engine_challenge_response: a report over that copy's keys.
ChallengeMints ==
    /\ chal.pc = "mint"
    /\ env.snp
    /\ chal.wants \in {0, chal.epoch}
    /\ chal' = [chal EXCEPT !.pc = "off", !.epoch = 0,
                   !.answer = [names |-> chal.epoch, binds |-> chal.epoch]]
    /\ UNCHANGED <<setup, main, boot, busy, evidence, rec, refresh, rot>>

\* Another epoch, a bad nonce, no endorsement or no report.
ChallengeRefused ==
    /\ chal.pc = "mint"
    /\ chal' = [chal EXCEPT !.pc = "off", !.epoch = 0, !.answer = NoAnswer]
    /\ UNCHANGED <<setup, main, boot, busy, evidence, rec, refresh, rot>>

-----------------------------------------------------------------------------
(* Shutdown.                                                               *)

\* The signal: prune and recollect tasks are aborted, the rotator stopped.
Signal ==
    /\ main = "running"
    /\ main' = "stopping"
    /\ rec' = [pc |-> "off", gpu |-> "none"]
    /\ rot' = [pc |-> "stuck", names |-> 0]
    /\ UNCHANGED <<setup, boot, busy, evidence, refresh, chal>>

\* Mutant: the sessions go and their workers stay.
CloseKeepsWorkers ==
    /\ main = "stopping"
    /\ main' = "exited"
    /\ live' = {}
    /\ UNCHANGED <<setup, todo, posted, workers, busy, evidence, rec, refresh, rot, chal>>

\* pool.close_all, and with it the process: sessions and workers are gone, at
\* the latest 15 s after the signal, whatever a worker is busy with.
CloseAll ==
    /\ main = "stopping"
    /\ main' = "exited"
    /\ live' = {} /\ workers' = {} /\ busy' = {}
    /\ UNCHANGED <<setup, todo, posted, evidence, rec, refresh, rot, chal>>

-----------------------------------------------------------------------------
Init ==
    /\ env \in Environments
    /\ admission = "unset"
    /\ main = "configure"
    /\ live = {} /\ todo = {} /\ posted = {} /\ workers = {} /\ busy = {}
    /\ cache = "none" /\ attestation = "none"
    /\ epoch = [id |-> 0, names |-> 0]
    /\ rec = [pc |-> "sleep", gpu |-> "none"]
    /\ refresh = [pc |-> "off", gpu |-> "none"]
    /\ rot = [pc |-> "off", names |-> 0]
    /\ chal = [pc |-> "off", wants |-> 0, epoch |-> 0, answer |-> NoAnswer]

BootNext ==
    \/ Configure \/ ConfigureFails \/ Attest \/ AttestFails \/ Wire \/ WireFails
    \/ BootConnects \/ BootFails \/ RegisterFails \/ Registered \/ Started
    \/ \E s \in Sessions : RegisterOne(s) \/ StartWorker(s)

RecollectNext ==
    \/ RecollectDue \/ QuietSample \/ GateChecked
    \/ Collected \/ CollectFails \/ PatchSet

Next ==
    \/ BootNext
    \/ \E s \in Sessions : WorkArrives(s) \/ WorkEnds(s)
    \/ RecollectNext
    \/ RefreshReads \/ RefreshSets \/ RefreshFails
    \/ RotationMints \/ RotationPublishes \/ RotationFails
    \/ ChallengeArrives \/ ChallengeReadsEpoch \/ ChallengeMints \/ ChallengeRefused
    \/ Signal \/ CloseAll

Spec == Init /\ [][Next]_vars

FairSpec == Spec /\ WF_vars(BootNext) /\ WF_vars(RecollectNext)

-----------------------------------------------------------------------------
(* Properties.                                                             *)

\* The state is well-formed: only sessions the boot connected have workers,
\* and only those can be on a request; evidence is there once it is attested.
TypeOK ==
    /\ env \in Environments
    /\ admission \in AdmitModes \cup {"unset"}
    /\ main \in {"configure", "attest", "wire", "connect", "register", "start",
                 "running", "stopping", "exited", "failed"}
    /\ live \subseteq Sessions /\ workers \subseteq live /\ busy \subseteq workers
    /\ todo \subseteq Sessions /\ posted \subseteq Sessions
    /\ {cache, attestation, rec.gpu, refresh.gpu}
          \subseteq {"none", "mock", "not_applicable", "nvattest"}
    /\ main \notin {"configure", "attest", "failed"} => "none" \notin {cache, attestation}
    /\ epoch \in [id : 0..MaxEpoch, names : 0..MaxEpoch]
    /\ rec.pc \in {"sleep", "watch", "quiet", "gate", "collect", "patch", "off"}
    /\ refresh.pc \in {"off", "build"}
    /\ rot \in [pc : {"off", "post", "stuck"}, names : 0..MaxEpoch]
    /\ chal \in [pc : {"off", "asked", "mint"}, wants : 0..MaxEpoch, epoch : 0..MaxEpoch,
                 answer : [names : 0..MaxEpoch, binds : 0..MaxEpoch]]

\* run_engine fails closed: a process that has a session at the gateway has
\* a valid identity, TLS setting and measurements and no invalid pins file,
\* and the admission in force is the one that was asked for; admission is off
\* only when off was asked for or there are no trust keys.  (It does not stop
\* for a mode it cannot parse or for a missing pins file: such a mode is the
\* default, and without keys that is off.)
FailClosed ==
    live # {} =>
        /\ env.wrong = "none" /\ env.pins # "invalid" /\ env.keys # "broken"
        /\ env.verify \in AdmitModes => admission = env.verify
        /\ admission = "off" => env.verify = "off" \/ env.keys = "none"

\* The boot registers the initial epoch on every session before any worker
\* starts to pull ("start pull workers AFTER bulk epoch registration").
EpochBeforeWork == workers # {} => live \subseteq posted

\* An answer to a challenge is bound to the keys of the epoch it names, and
\* that is the epoch the client asked for, whatever rotations overtake it.
AnswerBindsAsked ==
    LET a == chal.answer
    IN  a # NoAnswer => a.binds = a.names /\ chal.wants \in {0, a.names}

\* The published epoch's own evidence names that epoch's keys, or is the
\* connect bundle, which names none and is used only when no report could be
\* had.
EvidenceNamesOwnEpoch ==
    epoch.id > 0 => match_epoch_evidence(epoch) \/ (epoch.names = 0 /\ env.snp)

\* Neither a failed collection nor a busy pool ends the recollection: while
\* the process runs with an idle pool, the collector is run again and again.
RecollectGoesOn ==
    env.recollect /\ <>[](main = "running" /\ inference_idle) => []<>(rec.pc = "collect")

\* "Failures leave the last-good cache unchanged." (gpu_idle_recollect.rs):
\* once nvattest has given evidence, only newer nvattest evidence replaces it.
LastGoodKept ==
    [][cache = "nvattest" => cache' = "nvattest"]_cache
=============================================================================
