------------------------ MODULE EngineProcessProofs -------------------------
(***************************************************************************)
(* TLAPS proofs about EngineProcess, for every set of sessions and every   *)
(* number of rotations.                                                    *)
(***************************************************************************)
EXTENDS EngineProcess, TLAPS

-----------------------------------------------------------------------------
(* The inductive invariant *)

Gpu == {"none", "mock", "not_applicable", "nvattest"}

\* The two loops that carry GPU evidence from one cell to another hold some
\* while they are about to store it.
LoopsCarryEvidence ==
    /\ rec \in [pc : {"sleep", "watch", "quiet", "gate", "collect", "patch", "off"}, gpu : Gpu]
    /\ refresh \in [pc : {"off", "build"}, gpu : Gpu]
    /\ rec.pc = "patch" => rec.gpu # "none"
    /\ refresh.pc = "build" => refresh.gpu # "none"

\* The boot passes no check that fails.
ChecksPassed ==
    /\ main \in {"attest", "wire"} => ~ConfigurationWrong
    /\ main = "wire" => env.wrong # "measurements"
    /\ main \in {"connect", "register", "start", "running", "stopping", "exited"} =>
          /\ env.wrong = "none" /\ env.pins # "invalid"
          /\ ~AdmissionFails /\ admission = admit_mode

\* No session before pool.boot, no worker before every post succeeded; a
\* boot that failed, and a process that exited, have none.
BootOrder ==
    /\ main \in {"configure", "attest", "wire", "connect"} => live = {}
    /\ main \in {"register", "start"} => todo \subseteq live
    /\ main \in {"start", "running", "stopping"} => live \subseteq posted
    /\ workers # {} => main \in {"start", "running", "stopping"}

\* The evidence a rotation posts was made for the epoch it will publish.
RotationEvidence ==
    rot.pc = "post" => /\ main = "running" /\ epoch.id < MaxEpoch
                       /\ rot.names \in EvidenceFor(epoch.id + 1)

\* TypeOK, by the part of the process it is about.
BootType ==
    /\ env \in Environments
    /\ admission \in AdmitModes \cup {"unset"}
    /\ main \in {"configure", "attest", "wire", "connect", "register", "start",
                 "running", "stopping", "exited", "failed"}
    /\ live \subseteq Sessions /\ workers \subseteq live /\ busy \subseteq workers
    /\ todo \subseteq Sessions /\ posted \subseteq Sessions

GpuType ==
    /\ cache \in Gpu /\ attestation \in Gpu
    /\ main \notin {"configure", "attest", "failed"} => cache # "none" /\ attestation # "none"

EpochType ==
    /\ epoch \in [id : 0..MaxEpoch, names : 0..MaxEpoch]
    /\ rot \in [pc : {"off", "post", "stuck"}, names : 0..MaxEpoch]

ChalType ==
    chal \in [pc : {"off", "asked", "mint"}, wants : 0..MaxEpoch, epoch : 0..MaxEpoch,
              answer : [names : 0..MaxEpoch, binds : 0..MaxEpoch]]

IInv == /\ BootType
        /\ GpuType
        /\ EpochType
        /\ ChalType
        /\ LoopsCarryEvidence
        /\ ChecksPassed
        /\ BootOrder
        /\ RotationEvidence
        /\ FailClosed
        /\ AnswerBindsAsked
        /\ EvidenceNamesOwnEpoch

-----------------------------------------------------------------------------
(* Lemmas *)

\* Evidence that a collection returns is evidence.
LEMMA CollectedIsGpu == CollectedGpu \subseteq Gpu \ {"none"}
  BY DEF CollectedGpu, NoGpuEvidence, Gpu

\* The parts make up the type invariant.
LEMMA PartsAreType == IInv => TypeOK
<1> SUFFICES ASSUME IInv PROVE TypeOK
  OBVIOUS
<1>1. BootType /\ GpuType /\ EpochType /\ ChalType /\ LoopsCarryEvidence
  BY DEF IInv
<1>2. /\ {cache, attestation, rec.gpu, refresh.gpu} \subseteq {"none", "mock", "not_applicable", "nvattest"}
      /\ main \notin {"configure", "attest", "failed"} => "none" \notin {cache, attestation}
  BY <1>1 DEF GpuType, LoopsCarryEvidence, Gpu
<1>3. rec.pc \in {"sleep", "watch", "quiet", "gate", "collect", "patch", "off"} /\ refresh.pc \in {"off", "build"}
  BY <1>1 DEF LoopsCarryEvidence
<1> QED
  BY <1>1, <1>2, <1>3 DEF TypeOK, BootType, EpochType, ChalType

\* The invariant holds before the boot.
LEMMA InitInv == Init => IInv
<1> SUFFICES ASSUME Init PROVE IInv
  OBVIOUS
<1>1. BootType /\ GpuType
  BY DEF Init, BootType, GpuType, Gpu
<1>2. EpochType
  <2>1. 0 \in 0..MaxEpoch
    BY MaxEpochAssumption
  <2> QED
    BY <2>1 DEF Init, EpochType
<1>3. ChalType
  <2>1. 0 \in 0..MaxEpoch
    BY MaxEpochAssumption
  <2>2. NoAnswer \in [names : 0..MaxEpoch, binds : 0..MaxEpoch]
    BY <2>1 DEF NoAnswer
  <2> QED
    BY <2>1, <2>2 DEF Init, ChalType
<1>4. LoopsCarryEvidence /\ ChecksPassed /\ BootOrder /\ RotationEvidence
  BY DEF Init, LoopsCarryEvidence, Gpu, ChecksPassed, BootOrder, RotationEvidence
<1>5. FailClosed /\ AnswerBindsAsked
  BY DEF Init, FailClosed, AnswerBindsAsked
<1>6. EvidenceNamesOwnEpoch
  <2>1. epoch.id = 0
    BY DEF Init
  <2> QED
    BY <2>1 DEF EvidenceNamesOwnEpoch
<1> QED
  BY <1>1, <1>2, <1>3, <1>4, <1>5, <1>6 DEF IInv

\* The steps of the boot, and what they leave alone.
LEMMA BootFrame ==
  ASSUME BootNext
  PROVE  /\ UNCHANGED <<env, busy, rec, refresh, rot, chal>>
         /\ Attest \/ UNCHANGED <<cache, attestation, epoch>>
  BY DEF setup, BootNext, Configure, ConfigureFails, Attest, AttestFails, Wire, WireWith, WireFails, BootConnects,
         BootFails, RegisterFails, Registered, Started, RegisterOne, StartWorker, Fail, evidence

\* The boot and the requests leave the rest of the process alone.
LEMMA RestFrame ==
  ASSUME RecollectNext \/ RefreshReads \/ RefreshSets \/ RefreshFails
         \/ RotationMints \/ RotationPublishes \/ RotationFails
         \/ ChallengeArrives \/ ChallengeReadsEpoch \/ ChallengeMints \/ ChallengeRefused
  PROVE  UNCHANGED <<env, admission, main, live, todo, posted, workers, busy>>
  BY DEF setup, RecollectNext, RecollectDue, QuietSample, GateChecked, Collected, CollectFails, PatchSet,
         RefreshReads, RefreshSets, RefreshFails, RotationMints, RotationPublishes, RotationFails,
         ChallengeArrives, ChallengeReadsEpoch, ChallengeMints, ChallengeRefused, boot

\* Only the two loops move GPU evidence, and nothing else of theirs.
LEMMA LoopFrame ==
  ASSUME RecollectNext \/ RefreshReads \/ RefreshSets \/ RefreshFails
  PROVE  UNCHANGED <<epoch, rot, chal>>
  BY DEF setup, RecollectNext, RecollectDue, QuietSample, GateChecked, Collected, CollectFails, PatchSet,
         RefreshReads, RefreshSets, RefreshFails, evidence

\* Rotations, challenges and requests move no GPU evidence.
LEMMA NoLoopFrame ==
  ASSUME \/ RotationMints \/ RotationPublishes \/ RotationFails
         \/ ChallengeArrives \/ ChallengeReadsEpoch \/ ChallengeMints \/ ChallengeRefused
         \/ \E s \in Sessions : WorkArrives(s) \/ WorkEnds(s)
  PROVE  UNCHANGED <<cache, attestation, rec, refresh>>
  BY DEF setup, RotationMints, RotationPublishes, RotationFails, ChallengeArrives, ChallengeReadsEpoch,
         ChallengeMints, ChallengeRefused, WorkArrives, WorkEnds, evidence

-----------------------------------------------------------------------------
(* The invariant is inductive *)

\* The boot's order and the shutdown: what sessions, workers and requests
\* there are, and which checks were passed.
LEMMA StepBoot ==
  ASSUME IInv, [Next]_vars
  PROVE  BootType' /\ BootOrder' /\ ChecksPassed' /\ FailClosed'
<1> DEFINE B == BootType /\ BootOrder /\ ChecksPassed /\ FailClosed
<1>0. B
  BY DEF IInv
<1> USE DEF BootType, BootOrder, ChecksPassed, FailClosed, ConfigurationWrong
<1>1. ASSUME NEW at \in {"configure", "attest", "wire", "connect", "register"}, Fail(at) PROVE B'
  BY <1>0, <1>1 DEF setup, Fail, boot
<1>2. CASE Configure
  BY <1>0, <1>2 DEF setup, Configure, boot
<1>3. CASE Attest
  BY <1>0, <1>3 DEF setup, Attest, boot
<1>4. CASE Wire
  <2>1. /\ main = "wire" /\ ~AdmissionFails /\ admission' = admit_mode /\ main' = "connect"
        /\ UNCHANGED <<env, live, todo, posted, workers, busy>>
    BY <1>4 DEF Wire, WireWith, boot
  <2>2. env \in AllEnvironments
    BY <1>0, EnvironmentsAssumption
  <2>3. env.wrong = "none" /\ env.pins # "invalid"
    BY <1>0, <2>1, <2>2 DEF ConfigurationWrong, Inputs, AllEnvironments
  <2>4. admit_mode \in AdmitModes
    BY <2>2 DEF admit_mode, AdmitModes, AllEnvironments
  <2>5. (~AdmissionFails)' /\ admit_mode' = admit_mode
    BY <2>1 DEF AdmissionFails, admit_mode
  <2> QED
    BY <1>0, <2>1, <2>3, <2>4, <2>5
<1>5. CASE BootConnects
  <2>1. env \in AllEnvironments
    BY <1>0, EnvironmentsAssumption
  <2> QED
    BY <1>0, <1>5, <2>1 DEF setup, AdmissionFails, admit_mode, AdmitModes, AllEnvironments, BootConnects
<1>6. ASSUME NEW s \in Sessions, RegisterOne(s) PROVE B'
  BY <1>0, <1>6 DEF setup, AdmissionFails, admit_mode, RegisterOne
<1>7. CASE Registered
  BY <1>0, <1>7 DEF setup, AdmissionFails, admit_mode, Registered
<1>8. ASSUME NEW s \in Sessions, StartWorker(s) PROVE B'
  BY <1>0, <1>8 DEF setup, AdmissionFails, admit_mode, StartWorker
<1>9. CASE Started
  BY <1>0, <1>9 DEF setup, AdmissionFails, admit_mode, Started, boot
<1>10. ASSUME NEW s \in Sessions, WorkArrives(s) \/ WorkEnds(s) PROVE B'
  BY <1>0, <1>10 DEF setup, AdmissionFails, admit_mode, WorkArrives, WorkEnds, boot
<1>11. CASE Signal
  BY <1>0, <1>11 DEF setup, AdmissionFails, admit_mode, Signal, boot
<1>12. CASE CloseAll
  BY <1>0, <1>12 DEF setup, AdmissionFails, admit_mode, CloseAll
<1>13. CASE UNCHANGED <<env, admission, main, live, todo, posted, workers, busy>>
  BY <1>0, <1>13, ZenonT(40) DEF ConfigurationWrong, AdmissionFails, admit_mode
<1>14. CASE ConfigureFails \/ AttestFails \/ WireFails \/ BootFails \/ RegisterFails
  BY <1>1, <1>14 DEF setup, ConfigureFails, AttestFails, WireFails, BootFails, RegisterFails
<1>15. BootNext => B'
  BY <1>2, <1>3, <1>4, <1>5, <1>6, <1>7, <1>8, <1>9, <1>14 DEF BootNext
<1>16. UNCHANGED vars => B'
  BY <1>13 DEF setup, vars, boot
<1> QED
  BY <1>10, <1>11, <1>12, <1>13, <1>15, <1>16, RestFrame DEF Next

\* The GPU evidence: no cell that held some is emptied by a refresh, a
\* recollection or a failed one.
LEMMA StepGpu ==
  ASSUME IInv, [Next]_vars
  PROVE  GpuType' /\ LoopsCarryEvidence'
<1> DEFINE G == GpuType /\ LoopsCarryEvidence
<1>0. G
  BY DEF IInv
<1>1. CASE Attest
  BY <1>0, <1>1, CollectedIsGpu DEF setup, Attest, GpuType, LoopsCarryEvidence
<1>2. CASE BootNext /\ UNCHANGED <<cache, attestation>>
  <2>1. main \in {"configure", "attest"} => main' \in {"configure", "attest", "failed"} \/ Attest
    BY <1>2 DEF setup, BootNext, Configure, ConfigureFails, AttestFails, Wire, WireWith, WireFails, BootConnects,
       BootFails, RegisterFails, Registered, Started, RegisterOne, StartWorker, Fail
  <2>2. main # "failed"
    BY <1>2 DEF setup, BootNext, Configure, ConfigureFails, Attest, AttestFails, Wire, WireWith, WireFails,
       BootConnects, BootFails, RegisterFails, Registered, Started, RegisterOne, StartWorker, Fail
  <2>3. UNCHANGED <<rec, refresh>>
    BY <1>2, BootFrame
  <2> QED
    BY <1>0, <1>1, <1>2, <2>1, <2>2, <2>3 DEF GpuType, LoopsCarryEvidence
<1>3. CASE RecollectNext
  <2>1. main' = main
    BY <1>3, RestFrame
  <2>2. CASE Collected
    <3>1. cache' \in Gpu \ {"none"} /\ UNCHANGED <<attestation, refresh>>
          /\ rec' = [pc |-> "patch", gpu |-> cache']
      BY <2>2, CollectedIsGpu DEF setup, Collected
    <3> QED
      BY <1>0, <2>1, <3>1 DEF GpuType, LoopsCarryEvidence
  <2>3. CASE PatchSet
    BY <1>0, <2>1, <2>3 DEF setup, PatchSet, GpuType, LoopsCarryEvidence, Gpu
  <2>4. CASE RecollectDue \/ QuietSample \/ GateChecked \/ CollectFails
    <3>1. \E l \in {"watch", "quiet", "gate", "collect", "sleep"} : rec' = [rec EXCEPT !.pc = l]
      BY <2>4 DEF RecollectDue, QuietSample, GateChecked, CollectFails, RecGoto
    <3>2. UNCHANGED <<cache, attestation, refresh>>
      BY <2>4 DEF RecollectDue, QuietSample, GateChecked, CollectFails, evidence
    <3> QED
      BY <1>0, <2>1, <3>1, <3>2 DEF GpuType, LoopsCarryEvidence
  <2> QED
    BY <1>3, <2>2, <2>3, <2>4 DEF setup, RecollectNext
<1>4. CASE RefreshReads \/ RefreshSets \/ RefreshFails
  <2>1. main' = main
    BY <1>4, RestFrame
  <2>2. CASE RefreshReads
    BY <1>0, <2>1, <2>2 DEF RefreshReads, GpuType, LoopsCarryEvidence, evidence
  <2>3. CASE RefreshSets
    BY <1>0, <2>1, <2>3 DEF setup, RefreshSets, GpuType, LoopsCarryEvidence, Gpu
  <2>4. CASE RefreshFails
    BY <1>0, <2>1, <2>4 DEF RefreshFails, GpuType, LoopsCarryEvidence, Gpu, evidence
  <2> QED
    BY <1>4, <2>2, <2>3, <2>4
<1>5. CASE Signal
  BY <1>0, <1>5 DEF setup, Signal, GpuType, LoopsCarryEvidence, Gpu, evidence
<1>6. CASE CloseAll
  BY <1>0, <1>6 DEF setup, CloseAll, GpuType, LoopsCarryEvidence, evidence
<1>7. CASE UNCHANGED <<main, cache, attestation, rec, refresh>>
  BY <1>0, <1>7 DEF GpuType, LoopsCarryEvidence
<1>8. CASE \E s \in Sessions : WorkArrives(s) \/ WorkEnds(s)
  <2>1. main' = main
    BY <1>8 DEF setup, WorkArrives, WorkEnds
  <2> QED
    BY <1>7, <1>8, <2>1, NoLoopFrame
<1>9. UNCHANGED vars => G'
  BY <1>7 DEF setup, vars, evidence
<1>10. BootNext => G'
  BY <1>1, <1>2, BootFrame
<1> QED
  BY <1>3, <1>4, <1>5, <1>6, <1>7, <1>8, <1>9, <1>10, NoLoopFrame, RestFrame DEF Next


\* The epoch: what is published is what was minted for it, and a rotation
\* the shutdown or a failed post cut short publishes nothing.
LEMMA StepEpoch ==
  ASSUME IInv, [Next]_vars
  PROVE  EpochType' /\ RotationEvidence' /\ EvidenceNamesOwnEpoch'
<1> DEFINE E == EpochType /\ RotationEvidence /\ EvidenceNamesOwnEpoch
<1> USE MaxEpochAssumption
<1>0. E
  BY DEF IInv
<1>1. \A id : EvidenceFor(id) \subseteq {0, id} /\ (0 \in EvidenceFor(id) /\ id # 0 => env.snp)
  BY DEF EvidenceFor, ReportFails
<1>2. CASE Attest
  <2>1. PICK names \in EvidenceFor(1) : epoch' = [id |-> 1, names |-> names]
    BY <1>2 DEF setup, Attest
  <2>2. names \in {0, 1} /\ (names = 0 => env.snp) /\ 1 \in 0..MaxEpoch /\ 0 \in 0..MaxEpoch
    BY <1>1
  <2>3. main = "attest" /\ UNCHANGED <<env, rot>>
    BY <1>2 DEF setup, Attest
  <2>4. EpochType'
    BY <1>0, <2>1, <2>2, <2>3 DEF EpochType
  <2>5. RotationEvidence'
    BY <1>0, <2>3 DEF RotationEvidence
  <2>6. EvidenceNamesOwnEpoch'
    BY <2>1, <2>2, <2>3 DEF EvidenceNamesOwnEpoch, match_epoch_evidence
  <2> QED
    BY <2>4, <2>5, <2>6
<1>3. CASE RotationMints
  <2>1. PICK names \in EvidenceFor(epoch.id + 1) : rot' = [pc |-> "post", names |-> names]
    BY <1>3 DEF setup, RotationMints
  <2>2. main = "running" /\ epoch.id < MaxEpoch /\ UNCHANGED <<env, main, epoch>>
    BY <1>3 DEF setup, RotationMints, evidence
  <2>3. epoch.id \in 0..MaxEpoch
    BY <1>0 DEF EpochType
  <2>4. names \in 0..MaxEpoch
    BY <1>1, <2>2, <2>3
  <2>5. EpochType'
    BY <1>0, <2>1, <2>2, <2>4 DEF EpochType
  <2>6. RotationEvidence'
    BY <2>1, <2>2 DEF RotationEvidence, EvidenceFor, ReportFails
  <2>7. EvidenceNamesOwnEpoch'
    BY <1>0, <2>2 DEF EvidenceNamesOwnEpoch, match_epoch_evidence
  <2> QED
    BY <2>5, <2>6, <2>7
<1>4. CASE RotationPublishes
  <2>1. /\ rot.pc = "post" /\ rot' = [pc |-> "off", names |-> 0] /\ env' = env
        /\ epoch' = [id |-> epoch.id + 1, names |-> rot.names]
    BY <1>4 DEF setup, RotationPublishes
  <2>2. /\ epoch.id \in 0..MaxEpoch /\ epoch.id < MaxEpoch
        /\ rot.names \in EvidenceFor(epoch.id + 1) /\ rot.names \in 0..MaxEpoch
    BY <1>0, <2>1 DEF EpochType, RotationEvidence
  <2>3. EpochType'
    BY <2>1, <2>2 DEF EpochType
  <2>4. RotationEvidence'
    BY <2>1 DEF RotationEvidence
  <2>5. EvidenceNamesOwnEpoch'
    BY <1>1, <2>1, <2>2 DEF EvidenceNamesOwnEpoch, match_epoch_evidence
  <2> QED
    BY <2>3, <2>4, <2>5
<1>5. CASE RotationFails \/ Signal
  <2>1. rot' = [pc |-> "stuck", names |-> 0] /\ UNCHANGED <<env, epoch>>
    BY <1>5 DEF setup, RotationFails, Signal, evidence
  <2>2. EpochType'
    BY <1>0, <2>1 DEF EpochType
  <2>3. RotationEvidence' /\ EvidenceNamesOwnEpoch'
    BY <1>0, <2>1 DEF RotationEvidence, EvidenceNamesOwnEpoch, match_epoch_evidence
  <2> QED
    BY <2>2, <2>3
<1>6. CASE /\ UNCHANGED <<env, epoch, rot>>
           /\ main = "running" => main' = main
  BY <1>0, <1>6 DEF EpochType, RotationEvidence, EvidenceFor, ReportFails, EvidenceNamesOwnEpoch,
     match_epoch_evidence
<1>7. CASE BootNext
  <2>1. main # "running"
    BY <1>7 DEF setup, BootNext, Configure, ConfigureFails, Attest, AttestFails, Wire, WireWith, WireFails,
       BootConnects, BootFails, RegisterFails, Registered, Started, RegisterOne, StartWorker, Fail
  <2> QED
    BY <1>2, <1>6, <1>7, <2>1, BootFrame
<1>8. CASE \/ \E s \in Sessions : WorkArrives(s) \/ WorkEnds(s)
           \/ CloseAll \/ UNCHANGED vars
  BY <1>6, <1>8 DEF setup, WorkArrives, WorkEnds, CloseAll, vars, evidence
<1>9. CASE ChallengeArrives \/ ChallengeReadsEpoch \/ ChallengeMints \/ ChallengeRefused
  BY <1>6, <1>9 DEF setup, ChallengeArrives, ChallengeReadsEpoch, ChallengeMints, ChallengeRefused, evidence
<1>10. CASE RecollectNext \/ RefreshReads \/ RefreshSets \/ RefreshFails
  BY <1>6, <1>10, RestFrame, LoopFrame
<1> QED
  BY <1>3, <1>4, <1>5, <1>7, <1>8, <1>9, <1>10 DEF Next

\* The challenge: the answer is made from the copy that was checked against
\* what the client asked for.
LEMMA StepChal ==
  ASSUME IInv, [Next]_vars
  PROVE  ChalType' /\ AnswerBindsAsked'
<1> DEFINE C == ChalType /\ AnswerBindsAsked
<1>0. C /\ EpochType
  BY DEF IInv
<1>1. /\ 0 \in 0..MaxEpoch /\ 0..epoch.id \subseteq 0..MaxEpoch /\ epoch.id \in 0..MaxEpoch
      /\ NoAnswer \in [names : 0..MaxEpoch, binds : 0..MaxEpoch]
  BY <1>0, MaxEpochAssumption DEF EpochType, NoAnswer
<1>2. CASE ChallengeArrives
  <2>1. PICK e \in 0..epoch.id :
          chal' = [chal EXCEPT !.pc = "asked", !.wants = e, !.answer = NoAnswer]
    BY <1>2 DEF setup, ChallengeArrives
  <2>2. ChalType'
    BY <1>0, <1>1, <2>1 DEF ChalType
  <2>3. chal'.answer = NoAnswer
    BY <1>0, <2>1 DEF ChalType
  <2> QED
    BY <2>2, <2>3 DEF AnswerBindsAsked
<1>3. CASE ChallengeReadsEpoch
  <2>1. chal' = [chal EXCEPT !.pc = "mint", !.epoch = epoch.id]
    BY <1>3 DEF ChallengeReadsEpoch
  <2>2. ChalType'
    BY <1>0, <1>1, <2>1 DEF ChalType
  <2>3. chal'.answer = chal.answer /\ chal'.wants = chal.wants
    BY <1>0, <2>1 DEF ChalType
  <2> QED
    BY <1>0, <2>2, <2>3 DEF AnswerBindsAsked
<1>4. CASE ChallengeMints
  <2>1. /\ chal.wants \in {0, chal.epoch}
        /\ chal' = [chal EXCEPT !.pc = "off", !.epoch = 0,
                      !.answer = [names |-> chal.epoch, binds |-> chal.epoch]]
    BY <1>4 DEF ChallengeMints
  <2>2. ChalType'
    <3>1. [names |-> chal.epoch, binds |-> chal.epoch] \in [names : 0..MaxEpoch, binds : 0..MaxEpoch]
      BY <1>0 DEF ChalType
    <3> QED
      BY <1>0, <1>1, <2>1, <3>1 DEF ChalType
  <2>3. /\ chal'.answer = [names |-> chal.epoch, binds |-> chal.epoch]
        /\ chal'.wants = chal.wants
    BY <1>0, <2>1 DEF ChalType
  <2> QED
    BY <2>1, <2>2, <2>3 DEF AnswerBindsAsked
<1>5. CASE ChallengeRefused
  <2>1. chal' = [chal EXCEPT !.pc = "off", !.epoch = 0, !.answer = NoAnswer]
    BY <1>5 DEF ChallengeRefused
  <2>2. ChalType'
    BY <1>0, <1>1, <2>1 DEF ChalType
  <2>3. chal'.answer = NoAnswer
    BY <1>0, <2>1 DEF ChalType
  <2> QED
    BY <2>2, <2>3 DEF AnswerBindsAsked
<1>6. CASE chal' = chal
  BY <1>0, <1>6 DEF ChalType, AnswerBindsAsked
<1>7. CASE BootNext
  BY <1>6, <1>7, BootFrame
<1>8. CASE RotationMints \/ RotationPublishes \/ RotationFails \/ Signal \/ CloseAll
  BY <1>6, <1>8 DEF setup, RotationMints, RotationPublishes, RotationFails, Signal, CloseAll
<1>9. CASE (\E s \in Sessions : WorkArrives(s) \/ WorkEnds(s)) \/ UNCHANGED vars
  BY <1>6, <1>9 DEF setup, WorkArrives, WorkEnds, vars
<1>10. CASE RecollectNext \/ RefreshReads \/ RefreshSets \/ RefreshFails
  BY <1>6, <1>10, LoopFrame
<1> QED
  BY <1>2, <1>3, <1>4, <1>5, <1>7, <1>8, <1>9, <1>10 DEF Next

\* The invariant holds in every state of every behaviour.
LEMMA Invariance == Spec => []IInv
<1>1. IInv /\ [Next]_vars => IInv'
  BY StepBoot, StepGpu, StepEpoch, StepChal DEF IInv
<1> QED
  BY <1>1, InitInv, PTL DEF Spec

-----------------------------------------------------------------------------
(* The theorems *)

\* Only sessions pool.boot connected have workers, only those are busy, and
\* once the boot has attested no cell is ever without GPU evidence.
THEOREM TypeCorrect == Spec => []TypeOK
  BY Invariance, PartsAreType, PTL

\* run_engine returns the error of a check before it connects: with wrong
\* pins, TLS, measurements or admission settings there is never a session.
THEOREM FailsClosed == Spec => []FailClosed
<1>1. IInv => FailClosed
  BY DEF IInv
<1> QED
  BY <1>1, Invariance, PTL

\* While any worker pulls, every session has been given the initial epoch.
THEOREM EpochPostedFirst == Spec => []EpochBeforeWork
<1>1. IInv => EpochBeforeWork
  BY DEF IInv, BootOrder, EpochBeforeWork
<1> QED
  BY <1>1, Invariance, PTL

\* A challenge's answer is bound to the keys of the epoch it names, the one
\* that was asked for, however many rotations happen meanwhile.
THEOREM ChallengeAnswers == Spec => []AnswerBindsAsked
<1>1. IInv => AnswerBindsAsked
  BY DEF IInv
<1> QED
  BY <1>1, Invariance, PTL

\* The published epoch carries evidence over its own keys, or the connect
\* bundle that names none.
THEOREM OwnEvidence == Spec => []EvidenceNamesOwnEpoch
<1>1. IInv => EvidenceNamesOwnEpoch
  BY DEF IInv
<1> QED
  BY <1>1, Invariance, PTL
=============================================================================
