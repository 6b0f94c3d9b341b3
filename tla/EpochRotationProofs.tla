------------------------ MODULE EpochRotationProofs -------------------------
(***************************************************************************)
(* TLAPS proofs about EpochRotation, for every number of epochs, sessions  *)
(* and requests and every Ttl, Lead and Grace.                             *)
(***************************************************************************)
EXTENDS EpochRotation, TLAPS

-----------------------------------------------------------------------------
(* The inductive invariant *)

\* Between its creation and its adoption an epoch is the youngest one, and its
\* grace is not over; the decryptor does not have it before the posts ended.
NextIsYoungest ==
    loop \in {"post", "adding", "added"} =>
        /\ next = minted
        /\ loop = "post" => next \notin Installed
        /\ loop = "adding" => next \in epochs
        /\ loop = "added" => next = currentId
        /\ loop \in {"post", "adding"} => now <= notAfter[next] + Grace

\* The decryptor only knows minted epochs, and has no freed one.
InstalledAreMinted ==
    /\ \A e \in Installed : e <= minted
    /\ epochs \cap freed = {}
    /\ current \in Installed

\* A key is freed only after its epoch's grace.
FreedPastGrace == \A e \in freed : PastGrace(e, now)

\* The current id a prune goes by is the current one, or the current one was
\* adopted since, with its grace still running when the prune began.
PruneSparesCurrent ==
    prune.pc = "remove" =>
        /\ prune.now <= now
        /\ prune.current = currentId \/ ~PastGrace(currentId, prune.now)

\* A session joins with an epoch the decryptor was given.
JoiningInstalled ==
    \A s \in Session : joining[s] # NoEpoch => joining[s] \in Installed

IInv == /\ TypeOK
        /\ NextIsYoungest
        /\ InstalledAreMinted
        /\ FreedPastGrace
        /\ PruneSparesCurrent
        /\ CurrentHasKey
        /\ JoiningInstalled

-----------------------------------------------------------------------------
(* Types *)

\* What EpochAssumption says of the derived sets.
LEMMA Constants == /\ 1 \in Epoch /\ 0 \in Time /\ 0 \notin Epoch
                   /\ Epoch \subseteq Nat /\ Time \subseteq Nat
                   /\ MaxTime \in Nat /\ MaxEpoch \in Nat
                   /\ Ttl \in Nat /\ Grace \in Nat
                   /\ BootSession \in SUBSET Session
  BY EpochAssumption DEF Epoch, Time

\* The engine starts well-typed: one epoch, registered on the boot sessions.
LEMMA InitType ==
  ASSUME Init PROVE TypeOK
<1>1. 1 \in Epoch /\ 0 \in Time /\ Ttl \in Nat /\ BootSession \in SUBSET Session
  BY Constants
<1>2. NoRequest \in RequestRecord
  BY DEF NoRequest, RequestRecord
<1>3. notAfter \in [Epoch -> Nat] /\ gateway \in [Session -> SUBSET Epoch]
  BY <1>1 DEF Init
<1>4. prune \in [pc : {"idle", "remove"}, current : Epoch \cup {NoEpoch}, now : Time]
  BY <1>1 DEF Init, NoPrune
<1>5. joining \in [Session -> Epoch \cup {NoEpoch}] /\ request \in [Request -> RequestRecord]
  BY <1>2 DEF Init
<1> QED
  BY <1>1, <1>3, <1>4, <1>5 DEF Init, TypeOK

\* Requests change nothing but themselves.
LEMMA RequestType ==
  ASSUME TypeOK, NEW r \in Request,
         Serve(r) \/ \E s \in Session, e \in Epoch : RequestArrives(r, s, e)
  PROVE  TypeOK'
<1>1. UNCHANGED <<now, notAfter, minted, current, rotating, stopped, loop, next, todo,
                  lastError, epochs, currentId, freed, prune, connected, live,
                  joining, gateway>>
  BY DEF Serve, RequestArrives, Resolve, Decrypt, Reresolve, BeginResponse, SignUsage,
         OnlyRequest, rotatorVars, decryptorVars, sessionVars
<1>2. request' \in [Request -> RequestRecord]
  <2>1. \A e : ResolveHandle(e) \in Epoch \cup {NoEpoch}
    BY DEF ResolveHandle, TypeOK
  <2>2. \A e : UsageSigner(e) \in Epoch \cup {NoEpoch}
    BY DEF UsageSigner, ProcessKey, NoEpoch, TypeOK
  <2>3. request \in [Request -> RequestRecord] /\ request[r] \in RequestRecord
    BY DEF TypeOK
  <2>4. CASE Resolve(r)
    BY <2>1, <2>3, <2>4 DEF Resolve, RequestRecord
  <2>5. CASE Decrypt(r)
    BY <2>3, <2>5 DEF Decrypt, RequestRecord
  <2>6. CASE Reresolve(r)
    BY <2>1, <2>3, <2>6 DEF Reresolve, RequestRecord
  <2>7. CASE BeginResponse(r)
    BY <2>3, <2>7 DEF BeginResponse, RequestRecord
  <2>8. CASE SignUsage(r)
    BY <2>2, <2>3, <2>8 DEF SignUsage, RequestRecord
  <2>9. ASSUME NEW s \in Session, NEW e \in Epoch, RequestArrives(r, s, e)
        PROVE  request' \in [Request -> RequestRecord]
    <3>1. [NoRequest EXCEPT !.pc = "resolve", !.epoch = e] \in RequestRecord
      BY DEF NoRequest, RequestRecord
    <3> QED
      BY <2>3, <2>9, <3>1 DEF RequestArrives
  <2> QED
    BY <2>4, <2>5, <2>6, <2>7, <2>8, <2>9 DEF Serve
<1> QED
  BY <1>1, <1>2 DEF TypeOK

\* Every step keeps the types; the rotator's steps need to know that the epoch
\* they post was minted (NextIsYoungest).
LEMMA StepType ==
  ASSUME TypeOK, NextIsYoungest, [Next]_vars
  PROVE  TypeOK'
<1> USE Constants
<1>1. CASE RotateBegin
  <2>1. UNCHANGED <<now, current, stopped, epochs, currentId, freed, prune, connected,
                    live, joining, gateway, request>> /\ rotating' = TRUE
    BY <1>1 DEF RotateBegin, decryptorVars, sessionVars
  <2>2. loop' \in {"retry", "post"}
    BY <1>1 DEF RotateBegin
  <2>3. minted' \in Epoch /\ next' \in Epoch \cup {NoEpoch} /\ todo' \in SUBSET Session
    BY <1>1 DEF RotateBegin, Epoch, TypeOK
  <2>4. lastError' \in BOOLEAN
    BY <1>1 DEF RotateBegin, TypeOK
  <2>5. notAfter' \in [Epoch -> Nat]
    BY <1>1 DEF RotateBegin, TypeOK
  <2> QED
    BY <2>1, <2>2, <2>3, <2>4, <2>5 DEF TypeOK
<1>2. ASSUME NEW s \in Session, PostEpoch(s) PROVE TypeOK'
  <2>1. next \in Epoch
    BY <1>2 DEF NextIsYoungest, PostEpoch, TypeOK
  <2>2. gateway[s] \cup {next} \in SUBSET Epoch
    BY <2>1 DEF TypeOK
  <2>3. UNCHANGED <<now, notAfter, minted, current, rotating, stopped, loop, next, epochs,
                    currentId, freed, prune, connected, live, joining, request>>
    BY <1>2 DEF PostEpoch, decryptorVars
  <2>4. todo' \in SUBSET Session /\ lastError' \in BOOLEAN
    BY <1>2 DEF PostEpoch, TypeOK
  <2>5. gateway' \in [Session -> SUBSET Epoch]
    BY <1>2, <2>2 DEF PostEpoch, TypeOK
  <2> QED
    BY <2>3, <2>4, <2>5 DEF TypeOK
<1>3. CASE PostsEnd
  <2>1. next \in Epoch
    BY <1>3 DEF NextIsYoungest, PostsEnd, TypeOK
  <2> QED
    BY <1>3, <2>1 DEF PostsEnd, RotateFails, TypeOK, sessionVars
<1>4. CASE MakeCurrent
  <2>1. next \in Epoch
    BY <1>4 DEF NextIsYoungest, MakeCurrent, TypeOK
  <2> QED
    BY <1>4, <2>1 DEF MakeCurrent, TypeOK, sessionVars
<1>5. CASE RotateEnd
  <2>1. next \in Epoch
    BY <1>5 DEF NextIsYoungest, RotateEnd, TypeOK
  <2> QED
    BY <1>5, <2>1 DEF RotateEnd, TypeOK, decryptorVars, sessionVars
<1>6. CASE RetryWakes
  BY <1>6 DEF RetryWakes, TypeOK, decryptorVars, sessionVars
<1>7. CASE Stop
  BY <1>7 DEF Stop, TypeOK, decryptorVars, sessionVars
<1>8. CASE PruneBegin
  BY <1>8 DEF PruneBegin, TypeOK, rotatorVars, sessionVars
<1>9. CASE PruneRemove
  <2>1. Retired \in SUBSET Epoch
    BY DEF Retired, TypeOK
  <2> QED
    BY <1>9, <2>1 DEF PruneRemove, NoPrune, NoEpoch, TypeOK, rotatorVars, sessionVars
<1>10. CASE Tick
  <2>1. now' \in Time
    BY <1>10 DEF Tick, Time, TypeOK
  <2> QED
    BY <1>10, <2>1 DEF Tick, TypeOK, rotatorVars, decryptorVars, sessionVars
<1>11. ASSUME NEW s \in Session, SessionReady(s) PROVE TypeOK'
  BY <1>11 DEF SessionReady, TypeOK, rotatorVars, decryptorVars
<1>12. ASSUME NEW s \in Session, SessionRegistered(s) PROVE TypeOK'
  <2>1. gateway[s] \cup {joining[s]} \in SUBSET Epoch
    BY <1>12 DEF SessionRegistered, TypeOK
  <2> QED
    BY <1>12, <2>1 DEF SessionRegistered, TypeOK, NoEpoch, rotatorVars, decryptorVars
<1>13. ASSUME NEW s \in Session, SessionDisconnects(s) PROVE TypeOK'
  BY <1>13 DEF SessionDisconnects, TypeOK, rotatorVars, decryptorVars
<1>14. ASSUME NEW s \in Session, SessionUnlisted(s) PROVE TypeOK'
  BY <1>14 DEF SessionUnlisted, TypeOK, rotatorVars, decryptorVars
<1>15. CASE UNCHANGED vars
  BY <1>15 DEF TypeOK, vars
<1>16. ASSUME NEW s \in Session, SessionListed(s) PROVE TypeOK'
  BY <1>16 DEF SessionListed, TypeOK, rotatorVars, decryptorVars
<1> QED
  BY <1>1, <1>2, <1>3, <1>4, <1>5, <1>6, <1>7, <1>8, <1>9, <1>10, <1>11, <1>12, <1>13,
     <1>14, <1>15, <1>16, RequestType DEF Next, Rotate, Prune

-----------------------------------------------------------------------------
(* The invariant is inductive *)

\* The invariant holds when the initial epoch has been registered.
LEMMA InitInv == Init => IInv
<1> SUFFICES ASSUME Init PROVE IInv
  OBVIOUS
<1>1. TypeOK
  BY InitType
<1> QED
  BY <1>1 DEF Init, IInv, NextIsYoungest, InstalledAreMinted, FreedPastGrace, Installed,
              PruneSparesCurrent, CurrentHasKey, JoiningInstalled, NoPrune

\* Requests touch none of the variables the invariant speaks of.
LEMMA RequestInv ==
  ASSUME IInv, NEW r \in Request,
         Serve(r) \/ \E s \in Session, e \in Epoch : RequestArrives(r, s, e)
  PROVE  IInv'
<1>1. UNCHANGED <<now, notAfter, minted, current, rotating, stopped, loop, next, todo,
                  lastError, epochs, currentId, freed, prune, connected, live,
                  joining, gateway>>
  BY DEF Serve, RequestArrives, Resolve, Decrypt, Reresolve, BeginResponse, SignUsage,
         OnlyRequest, rotatorVars, decryptorVars, sessionVars
<1>2. TypeOK'
  BY RequestType DEF IInv
<1> QED
  BY <1>1, <1>2 DEF IInv, NextIsYoungest, InstalledAreMinted, FreedPastGrace, Installed,
                    PastGrace, PruneSparesCurrent, CurrentHasKey, JoiningInstalled

\* Every handler of the rotator, the decryptor, the sessions and the requests
\* keeps the invariant.
LEMMA StepInv ==
  ASSUME IInv, [Next]_vars
  PROVE  IInv'
<1> DEFINE Rest == /\ NextIsYoungest /\ InstalledAreMinted /\ FreedPastGrace
                   /\ PruneSparesCurrent /\ CurrentHasKey /\ JoiningInstalled
<1>0. TypeOK' /\ TypeOK /\ Rest
  BY StepType DEF IInv
<1> SUFFICES Rest'
  BY <1>0 DEF IInv
<1> USE Constants DEF Installed, PastGrace
<1>1. CASE RotateBegin
  <2>1. UNCHANGED <<now, current, epochs, currentId, freed, prune, joining>>
    BY <1>1 DEF RotateBegin, decryptorVars, sessionVars
  <2>2. \A e \in Installed : notAfter'[e] = notAfter[e]
    BY <1>0, <1>1 DEF RotateBegin, InstalledAreMinted, TypeOK
  <2>3. NextIsYoungest'
    BY <1>0, <1>1, <2>1 DEF RotateBegin, NextIsYoungest, InstalledAreMinted, TypeOK
  <2>4. InstalledAreMinted'
    BY <1>0, <1>1, <2>1 DEF RotateBegin, InstalledAreMinted, TypeOK
  <2>5. FreedPastGrace'
    BY <1>0, <2>1, <2>2 DEF FreedPastGrace
  <2>6. PruneSparesCurrent' /\ CurrentHasKey' /\ JoiningInstalled'
    BY <1>0, <2>1, <2>2 DEF PruneSparesCurrent, CurrentHasKey, JoiningInstalled
  <2> QED
    BY <2>3, <2>4, <2>5, <2>6
<1>2. ASSUME NEW s \in Session, PostEpoch(s) PROVE Rest'
  <2>1. UNCHANGED <<now, notAfter, minted, current, loop, next, epochs, currentId, freed,
                    prune, joining>>
    BY <1>2 DEF PostEpoch, decryptorVars
  <2> QED
    BY <1>0, <2>1 DEF NextIsYoungest, InstalledAreMinted, FreedPastGrace,
                      PruneSparesCurrent, CurrentHasKey, JoiningInstalled
<1>3. CASE PostsEnd
  <2>1. UNCHANGED <<now, notAfter, minted, current, next, currentId, freed, prune, joining>>
    BY <1>3 DEF PostsEnd, RotateFails, sessionVars
  <2>2. CASE lastError
    <3>1. loop' = "retry" /\ epochs' = epochs
      BY <1>3, <2>2 DEF PostsEnd, RotateFails
    <3> QED
      BY <1>0, <2>1, <3>1 DEF NextIsYoungest, InstalledAreMinted, FreedPastGrace,
                              PruneSparesCurrent, CurrentHasKey, JoiningInstalled
  <2>3. CASE ~lastError
    <3>1. loop = "post" /\ loop' = "adding" /\ epochs' = epochs \cup {next}
      BY <1>3, <2>3 DEF PostsEnd
    <3>2. NextIsYoungest'
      BY <1>0, <2>1, <3>1 DEF NextIsYoungest
    <3>3. InstalledAreMinted'
      BY <1>0, <2>1, <3>1 DEF NextIsYoungest, InstalledAreMinted, TypeOK
    <3>4. FreedPastGrace' /\ PruneSparesCurrent' /\ CurrentHasKey' /\ JoiningInstalled'
      BY <1>0, <2>1, <3>1 DEF FreedPastGrace, PruneSparesCurrent, CurrentHasKey,
                              JoiningInstalled
    <3> QED
      BY <3>2, <3>3, <3>4
  <2> QED
    BY <2>2, <2>3
<1>4. CASE MakeCurrent
  <2>1. UNCHANGED <<now, notAfter, minted, current, next, epochs, freed, prune, joining>>
    BY <1>4 DEF MakeCurrent, sessionVars
  <2>2. loop = "adding" /\ loop' = "added" /\ currentId' = next
    BY <1>4 DEF MakeCurrent
  <2>3. next \in epochs /\ now <= notAfter[next] + Grace
    BY <1>0, <2>2 DEF NextIsYoungest
  <2>4. NextIsYoungest' /\ CurrentHasKey'
    BY <1>0, <2>1, <2>2, <2>3 DEF NextIsYoungest, CurrentHasKey
  <2>5. PruneSparesCurrent'
    <3>1. next \in Epoch /\ notAfter[next] \in Nat /\ now \in Nat /\ prune.now \in Nat
      BY <1>0, <2>3 DEF TypeOK
    <3>2. prune.now <= now => ~(prune.now > notAfter[next] + Grace)
      BY <2>3, <3>1
    <3> QED
      BY <1>0, <2>1, <2>2, <3>2 DEF PruneSparesCurrent
  <2> QED
    BY <1>0, <2>1, <2>4, <2>5 DEF InstalledAreMinted, FreedPastGrace, JoiningInstalled
<1>5. CASE RotateEnd
  <2>1. UNCHANGED <<now, notAfter, minted, currentId, epochs, freed, prune, joining>>
    BY <1>5 DEF RotateEnd, decryptorVars, sessionVars
  <2>2. loop = "added" /\ loop' = "sleep" /\ current' = next
    BY <1>5 DEF RotateEnd
  <2> QED
    BY <1>0, <2>1, <2>2 DEF NextIsYoungest, InstalledAreMinted, FreedPastGrace,
                            PruneSparesCurrent, CurrentHasKey, JoiningInstalled
<1>6. CASE RetryWakes \/ Stop
  <2>1. UNCHANGED <<now, notAfter, minted, current, epochs, currentId, freed, prune, joining>>
    BY <1>6 DEF RetryWakes, Stop, decryptorVars, sessionVars
  <2>2. loop' \in {"sleep", "stopped"}
    BY <1>6 DEF RetryWakes, Stop
  <2> QED
    BY <1>0, <2>1, <2>2 DEF NextIsYoungest, InstalledAreMinted, FreedPastGrace,
                            PruneSparesCurrent, CurrentHasKey, JoiningInstalled
<1>7. CASE PruneBegin
  <2>1. UNCHANGED <<now, notAfter, minted, current, loop, next, epochs, currentId, freed,
                    joining>>
    BY <1>7 DEF PruneBegin, rotatorVars, sessionVars
  <2>2. prune'.pc = "remove" /\ prune'.current = currentId /\ prune'.now = now
    BY <1>7 DEF PruneBegin
  <2>3. PruneSparesCurrent'
    BY <1>0, <2>1, <2>2 DEF PruneSparesCurrent, TypeOK
  <2> QED
    BY <1>0, <2>1, <2>3 DEF NextIsYoungest, InstalledAreMinted, FreedPastGrace,
                            CurrentHasKey, JoiningInstalled
<1>8. CASE PruneRemove
  <2>1. UNCHANGED <<now, notAfter, minted, current, loop, next, currentId, joining>>
    BY <1>8 DEF PruneRemove, rotatorVars, sessionVars
  <2>2. prune.pc = "remove" /\ epochs' = epochs \ Retired /\ freed' = freed \cup Retired
    BY <1>8 DEF PruneRemove
  <2>3. prune.now <= now /\ prune.now \in Nat /\ now \in Nat
    BY <1>0, <2>2 DEF PruneSparesCurrent, TypeOK
  <2>4. \A e \in Retired : PastGrace(e, now)
    BY <1>0, <2>3 DEF Retired, TypeOK
  <2>5. currentId \notin Retired
    BY <1>0, <2>2 DEF Retired, PruneSparesCurrent
  <2>6. loop = "adding" => next \notin Retired
    <3> SUFFICES ASSUME loop = "adding", next \in Retired PROVE FALSE
      OBVIOUS
    <3>1. now <= notAfter[next] + Grace /\ notAfter[next] \in Nat
      BY <1>0 DEF NextIsYoungest, TypeOK
    <3>2. now > notAfter[next] + Grace
      BY <2>4
    <3> QED
      BY <2>3, <3>1, <3>2
  <2>7. Retired \subseteq epochs
    BY DEF Retired
  <2>8. (epochs \ Retired) \cup (freed \cup Retired) = epochs \cup freed
    BY <2>7
  <2>9. NextIsYoungest'
    BY <1>0, <2>1, <2>2, <2>6, <2>8 DEF NextIsYoungest
  <2>10. InstalledAreMinted' /\ JoiningInstalled'
    BY <1>0, <2>1, <2>2, <2>7, <2>8 DEF InstalledAreMinted, JoiningInstalled
  <2>11. FreedPastGrace' /\ CurrentHasKey'
    BY <1>0, <2>1, <2>2, <2>4, <2>5 DEF FreedPastGrace, CurrentHasKey
  <2>12. PruneSparesCurrent'
    BY <1>8 DEF PruneRemove, NoPrune, PruneSparesCurrent
  <2> QED
    BY <2>9, <2>10, <2>11, <2>12
<1>9. CASE Tick
  <2>1. UNCHANGED <<notAfter, minted, current, loop, next, epochs, currentId, freed, prune,
                    joining>>
    BY <1>9 DEF Tick, rotatorVars, decryptorVars, sessionVars
  <2>2. now' = now + 1 /\ now \in Nat
    BY <1>0, <1>9 DEF Tick, TypeOK
  <2>3. loop \in {"post", "adding"} => now' <= notAfter[next] + Grace
    <3> SUFFICES ASSUME loop \in {"post", "adding"} PROVE now' <= notAfter[next] + Grace
      OBVIOUS
    <3>1. next \in Epoch /\ notAfter[next] \in Nat
      BY <1>0 DEF NextIsYoungest, TypeOK
    <3>2. now < notAfter[next] + Grace
      BY <1>9 DEF Tick
    <3> QED
      BY <2>2, <3>1, <3>2
  <2>4. NextIsYoungest'
    BY <1>0, <2>1, <2>3 DEF NextIsYoungest
  <2>5. FreedPastGrace'
    BY <1>0, <2>1, <2>2 DEF FreedPastGrace, TypeOK
  <2>6. PruneSparesCurrent'
    <3>1. prune.now \in Nat
      BY <1>0 DEF TypeOK
    <3>2. prune.now <= now => prune.now <= now'
      BY <2>2, <3>1
    <3> QED
      BY <1>0, <2>1, <3>2 DEF PruneSparesCurrent
  <2> QED
    BY <1>0, <2>1, <2>4, <2>5, <2>6 DEF InstalledAreMinted, CurrentHasKey, JoiningInstalled
<1>10. ASSUME NEW s \in Session,
              \/ SessionReady(s) \/ SessionListed(s) \/ SessionRegistered(s)
              \/ SessionDisconnects(s) \/ SessionUnlisted(s)
       PROVE  Rest'
  <2>1. UNCHANGED <<now, notAfter, minted, current, loop, next, epochs, currentId, freed,
                    prune>>
    BY <1>10 DEF SessionReady, SessionListed, SessionRegistered, SessionDisconnects, SessionUnlisted,
                 rotatorVars, decryptorVars
  <2>2. \A u \in Session : joining'[u] \in {joining[u], current, NoEpoch}
    BY <1>0, <1>10 DEF SessionReady, SessionListed, SessionRegistered, SessionDisconnects,
                       SessionUnlisted, TypeOK
  <2>3. JoiningInstalled'
    BY <1>0, <2>1, <2>2 DEF JoiningInstalled, InstalledAreMinted
  <2> QED
    BY <1>0, <2>1, <2>3 DEF NextIsYoungest, InstalledAreMinted, FreedPastGrace,
                            PruneSparesCurrent, CurrentHasKey
<1>11. CASE UNCHANGED vars
  BY <1>0, <1>11 DEF vars, NextIsYoungest, InstalledAreMinted, FreedPastGrace,
                     PruneSparesCurrent, CurrentHasKey, JoiningInstalled
<1>12. ASSUME NEW r \in Request,
              Serve(r) \/ \E s \in Session, e \in Epoch : RequestArrives(r, s, e)
       PROVE  Rest'
  BY <1>12, RequestInv DEF IInv
<1> QED
  BY <1>1, <1>2, <1>3, <1>4, <1>5, <1>6, <1>7, <1>8, <1>9, <1>10, <1>11, <1>12
     DEF Next, Rotate, Prune

-----------------------------------------------------------------------------
(* Theorems *)

\* The inductive invariant holds in every reachable state.
THEOREM Invariance == Spec => []IInv
  BY InitInv, StepInv, PTL DEF Spec

\* Every handler of the rotator, the decryptor, the prune timer and the
\* requests keeps the types of the state.
THEOREM TypeCorrect == Spec => []TypeOK
<1>1. IInv => TypeOK
  BY DEF IInv
<1> QED
  BY <1>1, Invariance, PTL

\* The decryptor always has the key of its current epoch: no interleaving of
\* add_epoch with prune_retired, and no failed rotation, loses it.
THEOREM CurrentKeyKept == Spec => []CurrentHasKey
<1>1. IInv => CurrentHasKey
  BY DEF IInv
<1> QED
  BY <1>1, Invariance, PTL

\* The epoch session_ready posts has its key in the decryptor until its grace
\* is over: it was installed before the rotator adopted it, and a prune frees
\* nothing before its grace.
THEOREM JoinsKnown == Spec => []JoinsKnownEpoch
<1>1. IInv => JoinsKnownEpoch
  BY DEF IInv, JoiningInstalled, FreedPastGrace, Installed, JoinsKnownEpoch
<1> QED
  BY <1>1, Invariance, PTL

\* Until its epoch's grace is over, a request keeps the key of its epoch.
THEOREM OverlapHonoured == Spec => KeyHeldThroughGrace
<1> DEFINE Held(r) ==
             LET q == request[r]
                 p == request'[r]
             IN  /\ q.pc \in {"resolve", "decrypt", "reresolve", "begin", "stream"}
                 /\ q.epoch \in Installed
                 /\ q.pc = "resolve" \/ q.handle = q.epoch
                 /\ ~PastGrace(q.epoch, now)
                 => \/ p = q
                    \/ /\ p.pc # "failed"
                       /\ p.handle = q.epoch
                       /\ p.pc = "signed" => p.signer = q.epoch
<1>1. ASSUME IInv, [Next]_vars, NEW r \in Request PROVE Held(r)
  <2> DEFINE q == request[r]
  <2> SUFFICES ASSUME q.pc \in {"resolve", "decrypt", "reresolve", "begin", "stream"},
                      q.epoch \in Installed,
                      q.pc = "resolve" \/ q.handle = q.epoch,
                      ~PastGrace(q.epoch, now),
                      request'[r] # q
               PROVE  /\ request'[r].pc # "failed"
                      /\ request'[r].handle = q.epoch
                      /\ request'[r].pc = "signed" => request'[r].signer = q.epoch
    OBVIOUS
  <2>1. request \in [Request -> RequestRecord] /\ q \in RequestRecord
    BY <1>1 DEF IInv, TypeOK
  <2>2. q.epoch \in epochs /\ q.epoch \notin freed
    BY <1>1 DEF IInv, FreedPastGrace, Installed
  <2>3. q.epoch # NoEpoch
    BY <1>1, <2>2, Constants DEF IInv, TypeOK, NoEpoch
  <2>4. ResolveHandle(q.epoch) = q.epoch /\ UsageSigner(q.epoch) = q.epoch
    BY <2>2 DEF ResolveHandle, UsageSigner
  <2>5. Serve(r)
    <3>1. request' # request
      OBVIOUS
    <3>2. PICK u \in Request :
            Serve(u) \/ \E s \in Session, e \in Epoch : RequestArrives(u, s, e)
      BY <1>1, <3>1 DEF Next, Rotate, Prune, RotateBegin, PostsEnd, MakeCurrent, RotateEnd,
           RetryWakes, PostEpoch, Stop, PruneBegin, PruneRemove, Tick, SessionReady,
           SessionListed, SessionRegistered, SessionDisconnects, SessionUnlisted, vars
    <3>3. u = r
      BY <2>1, <3>2 DEF Serve, Resolve, Decrypt, Reresolve, BeginResponse, SignUsage,
                        RequestArrives
    <3> QED
      BY <3>2, <3>3 DEF RequestArrives
  <2>6. CASE Resolve(r)
    BY <2>1, <2>3, <2>4, <2>6 DEF Resolve, RequestRecord
  <2>7. CASE Decrypt(r)
    BY <2>1, <2>2, <2>7 DEF Decrypt, RequestRecord
  <2>8. CASE Reresolve(r)
    BY <2>1, <2>3, <2>4, <2>8 DEF Reresolve, RequestRecord
  <2>9. CASE BeginResponse(r)
    BY <2>1, <2>2, <2>9 DEF BeginResponse, RequestRecord
  <2>10. CASE SignUsage(r)
    BY <2>1, <2>4, <2>10 DEF SignUsage, RequestRecord
  <2> QED
    BY <2>5, <2>6, <2>7, <2>8, <2>9, <2>10 DEF Serve
<1>2. IInv /\ [Next]_vars => [\A r \in Request : Held(r)]_vars
  BY <1>1
<1> QED
  BY <1>2, Invariance, PTL DEF Spec, KeyHeldThroughGrace

=============================================================================
