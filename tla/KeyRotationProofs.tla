-------------------------- MODULE KeyRotationProofs --------------------------
(***************************************************************************)
(* Proofs, for any keys, providers and number of faults, of the safety     *)
(* properties of KeyRotation.  The inductive invariant adds to them what   *)
(* each step of a call knows, and three facts about keys that replace any  *)
(* argument about the order in which keys were made: an entry's new key is *)
(* pending until the log has it, its previous key is never pending, and no *)
(* entry replaces the key of a saved, held or running rotation.            *)
(***************************************************************************)
EXTENDS KeyRotation, TLAPS

Records == {durable, held, work} \ {None}

\* What holds of a rotation record wherever it is kept.
RecordInv(r) ==
    /\ RotationKeysValid(r)
    /\ r.prev # r.new
    /\ r.prev \in used
    /\ IsActivated(r) => r.prev \notin ListKeyIds(r.src)
    /\ ~IsActivated(r) => r.src = provider
    /\ r.sub # "accepted" => r.new \in store[r.dst].pending
    /\ \A p \in Provider : r.prev \notin store[p].pending
    /\ \A e \in received : e.prev # r.new

RecordsInv == \A r \in Records : RecordInv(r)

\* A pending key is in one store only and is nowhere active.
KeysInv ==
    \A p \in Provider :
        /\ store[p].active \in used \cup {None}
        /\ store[p].pending \subseteq used
        /\ \A q \in Provider :
              /\ store[p].active \notin store[q].pending
              /\ p # q => store[p].pending \cap store[q].pending = {}

\* What holds of every entry the registry has been sent.
EntriesInv ==
    \A e \in received :
        /\ e.prev \in used
        /\ \A p \in Provider : e.prev \notin store[p].pending
        /\ e.prev = LogKey => \E p \in Provider : e.new \in store[p].pending

SubmitSteps == {"submit", "answer"}
FinishSteps == {"publication", "activate", "supersede", "persist_activated"}
VerifiedSteps == {"activate", "supersede", "persist_activated"}
ReleaseSteps == {"unpause", "persist_completed"}

\* What the running call knows at each step.
ControlInv ==
    /\ IF pc = "idle" THEN work = None ELSE held = None /\ work # None
    /\ pc \in {"pause"} \cup SubmitSteps \cup FinishSteps => durable = work
    /\ pc \notin {"idle"} \cup ReleaseSteps => ~IsActivated(work)
    /\ pc \in SubmitSteps => work.sub # "accepted"
    /\ pc \in FinishSteps => work.sub = "accepted"
    /\ pc \in SubmitSteps \cup FinishSteps \cup {"persist_answer"} => signing = "paused"
    /\ pc \in VerifiedSteps => LogKey = work.new /\ published = work.new
    /\ pc \in {"supersede", "persist_activated"} => TargetIsActive(work)
    /\ pc = "persist_activated" => work.prev \notin ListKeyIds(work.src)
    /\ pc \in ReleaseSteps =>
          IsActivated(work) /\ durable # None /\ IsActivated(durable)
          /\ durable.new = work.new /\ provider = work.dst
    /\ held # None /\ IsActivated(held) =>
          durable # None /\ IsActivated(durable) /\ durable.new = held.new

\* Nothing outstanding can move the log while the application may sign.
QuietWhileSigning ==
    signing = "open" => \A e \in received : e.prev # LogKey

IInv ==
    /\ RecordsInv
    /\ KeysInv
    /\ EntriesInv
    /\ ControlInv
    /\ QuietWhileSigning
    /\ ActivatedStaysVerified
    /\ SigningMatchesIdentity
    /\ LiveKeysHeld

-----------------------------------------------------------------------------
(* Types                                                                   *)

\* The initial key stores, records and log have their types.
LEMMA TypeInit == Init => TypeOK
<1> SUFFICES ASSUME Init PROVE TypeOK
    OBVIOUS
<1>1. PICK other \in [Provider \ {Home} -> (Key \ {InitKey}) \cup {None}] :
        /\ store = [p \in Provider |->
                      [active   |-> IF p = Home THEN InitKey ELSE other[p],
                       retained |-> {}, pending |-> {}]]
        /\ used = ({InitKey} \cup {other[p] : p \in Provider \ {Home}}) \ {None}
    BY DEF Init
<1>2. store \in [Provider -> KeyStore] /\ used \subseteq Key
    BY <1>1, ConstantsAssumption DEF KeyStore
<1>3. log \in Seq(Entry)
    BY DEF Init
<1>4. faults \in 0..MaxFaults
    BY ConstantsAssumption, SMT DEF Init
<1> QED
    BY <1>2, <1>3, <1>4, ConstantsAssumption DEF Init, TypeOK, Steps

\* A record that got one stage further is a record again.
LEMMA RecordTypes ==
    ASSUME NEW r \in Rotation
    PROVE  /\ [r EXCEPT !.stage = "activated"] \in Rotation
           /\ [r EXCEPT !.stage = "completed"] \in Rotation
           /\ EntryOf(r) \in Entry
           /\ r # None
    BY ConstantsAssumption DEF Rotation, EntryOf, Entry

\* So is a record with a new submission state.
LEMMA AnsweredType ==
    ASSUME NEW r \in Rotation, NEW i \in Nat,
           NEW s \in {"none", "pending", "accepted", "rejected"}
    PROVE  [r EXCEPT !.sub = s, !.idx = i] \in Rotation
    BY DEF Rotation

\* Activation and supersession of a key leave a key store.
LEMMA StoreTypes ==
    ASSUME NEW s \in KeyStore, NEW k \in Key
    PROVE  /\ Activated(s, k) \in KeyStore
           /\ Superseded(s, k) \in KeyStore
           /\ [s EXCEPT !.pending = @ \cup {k}] \in KeyStore
    BY DEF KeyStore, Activated, Superseded

\* Every step of a call, every resumption, crash and registry step keeps the
\* types.
LEMMA TypeNext == TypeOK /\ [Next]_vars => TypeOK'
<1> SUFFICES ASSUME TypeOK, [Next]_vars PROVE TypeOK'
    OBVIOUS
<1> USE ConstantsAssumption
<1>w. pc # "idle" => work \in Rotation
    BY DEF TypeOK
<1>1. ASSUME NEW dst \in Provider, NEW k \in Key, Rotate(dst, k) PROVE TypeOK'
    <2>1. store' \in [Provider -> KeyStore]
        BY <1>1, StoreTypes DEF Rotate, TypeOK
    <2>2. store[provider].active \in Key
        BY <1>1 DEF Rotate, TypeOK, KeyStore
    <2>3. used' \subseteq Key
        BY <1>1 DEF Rotate, TypeOK
    <2>4. work' \in Rotation \cup {None} /\ (pc' # "idle" => work' # None)
        BY <1>1, <2>2 DEF Rotate, TypeOK, Rotation, EndWith
    <2>5. pc' \in Steps /\ held' = None /\ lastError' \in {"none", "rejected"}
        BY <1>1 DEF Rotate, EndWith, Steps
    <2>6. faults' \in 0..MaxFaults
        BY <1>1 DEF Rotate, Fault, NoFault, TypeOK
    <2> QED
        BY <1>1, <2>1, <2>3, <2>4, <2>5, <2>6 DEF Rotate, TypeOK, registry
<1>2. CASE Prepare
    BY <1>2, <1>w DEF Prepare, TypeOK, registry, Fault, NoFault, Goto, EndWith, Steps
<1>3. CASE PersistRecovery
    BY <1>3, <1>w DEF PersistRecovery, Persist, PersistFails, TypeOK, registry,
                      Fault, NoFault, Goto, EndWith, Steps
<1>4. CASE PauseSigning
    BY <1>4, <1>w DEF PauseSigning, TypeOK, registry, Fault, NoFault, Goto, EndWith, Steps
<1>5. CASE Submit
    <2>1. work \in Rotation
        BY <1>5, <1>w DEF Submit
    <2>2. Answered("rejected", 0) \in Rotation /\ EntryOf(work) \in Entry
        BY <2>1, RecordTypes, AnsweredType DEF Answered
    <2>3. received' \subseteq Entry
        BY <1>5, <2>2 DEF Submit, TypeOK
    <2>4. work' \in Rotation /\ work' # None
        BY <1>5, <2>1, <2>2 DEF Submit
    <2> QED
        BY <1>5, <2>3, <2>4 DEF Submit, TypeOK, Fault, NoFault, Goto, Steps
<1>6. ASSUME NEW state \in SubmissionStates, NEW i \in 0..(Len(log) + 1), Answer(state, i)
      PROVE  TypeOK'
    <2>1. work \in Rotation /\ i \in Nat /\ Len(log) \in Nat
        BY <1>6, <1>w DEF Answer, TypeOK
    <2>2. state # "invalid" =>
            Answered(state, IF state = "accepted" THEN i ELSE 0) \in Rotation
        BY <2>1, AnsweredType DEF Answered, SubmissionStates
    <2> QED
        BY <1>6, <2>1, <2>2 DEF Answer, TypeOK, registry, Fault, NoFault, Goto, EndWith, Steps
<1>7. CASE PersistAnswer
    BY <1>7, <1>w DEF PersistAnswer, Persist, PersistFails, TypeOK, registry,
                      Fault, NoFault, Goto, EndWith, ErrorOf, Steps
<1>8. CASE VerifyPublication
    BY <1>8, <1>w DEF VerifyPublication, TypeOK, registry, Fault, NoFault, Goto, EndWith, Steps
<1>9. CASE ActivateKey
    <2>1. work \in Rotation /\ work.dst \in Provider /\ work.new \in Key
        BY <1>9, <1>w DEF ActivateKey, Rotation
    <2>2. [store EXCEPT ![work.dst] = Activated(@, work.new)] \in [Provider -> KeyStore]
        BY <2>1, StoreTypes DEF TypeOK
    <2>3. store' \in [Provider -> KeyStore]
        BY <1>9, <2>2 DEF ActivateKey, TypeOK
    <2> QED
        BY <1>9, <1>w, <2>3 DEF ActivateKey, TypeOK, registry, Fault, NoFault, Goto, EndWith, Steps
<1>10. CASE SupersedeKey
    <2>1. work \in Rotation /\ work.src \in Provider /\ work.prev \in Key
        BY <1>10, <1>w DEF SupersedeKey, Rotation
    <2>2. [store EXCEPT ![work.src] = Superseded(@, work.prev)] \in [Provider -> KeyStore]
        BY <2>1, StoreTypes DEF TypeOK
    <2>3. store' \in [Provider -> KeyStore]
        BY <1>10, <2>2 DEF SupersedeKey, TypeOK
    <2> QED
        BY <1>10, <1>w, <2>3 DEF SupersedeKey, TypeOK, registry, Fault, NoFault, Goto, EndWith, Steps
<1>11. CASE PersistActivated
    <2>1. work \in Rotation /\ work.dst \in Provider
        BY <1>11, <1>w DEF PersistActivated, Rotation
    <2>2. [work EXCEPT !.stage = "activated"] \in Rotation
        BY <2>1, RecordTypes
    <2> QED
        BY <1>11, <2>1, <2>2 DEF PersistActivated, Persist, PersistFails, TypeOK, registry,
                                 Fault, NoFault, Goto, EndWith, Steps
<1>12. CASE ResumeSigning
    BY <1>12, <1>w DEF ResumeSigning, TypeOK, registry, Fault, NoFault, Goto, EndWith, Steps
<1>13. CASE PersistCompleted
    <2>1. work \in Rotation /\ [work EXCEPT !.stage = "completed"] \in Rotation
        BY <1>13, <1>w, RecordTypes DEF PersistCompleted
    <2> QED
        BY <1>13, <2>1 DEF PersistCompleted, Persist, PersistFails, TypeOK, registry,
                           Fault, NoFault, Goto, EndWith, Steps
<1>14. CASE ResumeSaved
    <2>1. PICK r \in {durable, held} : Resume(r)
        BY <1>14 DEF ResumeSaved
    <2>2. r \in Rotation /\ r.dst \in Provider
        BY <2>1 DEF Resume, TypeOK, Rotation
    <2> QED
        BY <2>1, <2>2 DEF Resume, ResumeActivated, ResumeRejected, ResumePrepared,
                          TypeOK, registry, EndWith, Steps
<1>15. CASE Crash
    <2>1. durable # None => /\ durable.src \in Provider
                            /\ durable.dst \in Provider
        BY DEF TypeOK, Rotation
    <2>2. signing' \in {"open", "paused"} /\ provider' \in Provider
        BY <1>15, <2>1 DEF Crash, RestoredGate, ReopenedProviders, TypeOK
    <2> QED
        BY <1>15, <2>2 DEF Crash, TypeOK, registry, Fault, Steps
<1>16. ASSUME NEW e \in received, AppendEntry(e) PROVE TypeOK'
    <2>1. e \in Entry /\ log' \in Seq(Entry)
        BY <1>16 DEF AppendEntry, TypeOK
    <2> QED
        BY <1>16, <2>1 DEF AppendEntry, TypeOK, local
<1>17. ASSUME NEW k \in Key, Publish(k) PROVE TypeOK'
    BY <1>17 DEF Publish, TypeOK, local
<1>18. CASE UNCHANGED vars
    BY <1>18 DEF vars, local, registry, TypeOK
<1> QED
    BY <1>1, <1>2, <1>3, <1>4, <1>5, <1>6, <1>7, <1>8, <1>9, <1>10, <1>11, <1>12,
       <1>13, <1>14, <1>15, <1>16, <1>17, <1>18 DEF Next, CallStep, AppendSome

\* The types of all variables, in every behaviour of the rotation protocol.
THEOREM TypeCorrect == Spec => []TypeOK
    BY TypeInit, TypeNext, PTL DEF Spec

-----------------------------------------------------------------------------
(* The inductive invariant: initial states                                 *)

\* Nothing is saved, pending or outstanding, and the home provider's active
\* key is the one logged and published.
LEMMA InvInit == Init => IInv
<1> SUFFICES ASSUME Init PROVE IInv
    OBVIOUS
<1> USE ConstantsAssumption
<1>1. PICK other \in [Provider \ {Home} -> (Key \ {InitKey}) \cup {None}] :
        /\ store = [p \in Provider |->
                      [active   |-> IF p = Home THEN InitKey ELSE other[p],
                       retained |-> {}, pending |-> {}]]
        /\ used = ({InitKey} \cup {other[p] : p \in Provider \ {Home}}) \ {None}
    BY DEF Init
<1>2. \A p \in Provider : /\ store[p].pending = {}
                          /\ store[p].active \in used \cup {None}
                          /\ p = Home => store[p].active = InitKey
    BY <1>1
<1>3. KeysInv
    BY <1>2 DEF KeysInv
<1>4. RecordsInv /\ EntriesInv /\ QuietWhileSigning
    BY DEF Init, RecordsInv, Records, EntriesInv, QuietWhileSigning
<1>5. ControlInv
    BY DEF Init, ControlInv, SubmitSteps, FinishSteps, VerifiedSteps, ReleaseSteps
<1>6. LogKey = InitKey /\ published = InitKey
    BY DEF Init, LogKey
<1>7. ActivatedStaysVerified /\ SigningMatchesIdentity
    BY <1>2, <1>6 DEF Init, ActivatedStaysVerified, SigningMatchesIdentity
<1>8. InitKey \in KnownKeys(Home)
    BY <1>2 DEF KnownKeys, ListKeyIds
<1>9. LiveKeysHeld
    BY <1>6, <1>8 DEF LiveKeysHeld
<1> QED
    BY <1>3, <1>4, <1>5, <1>7, <1>9 DEF IInv

-----------------------------------------------------------------------------
(* Steps that leave the key stores and the registry alone                  *)

\* What such a step keeps, whatever it does to the records.
LEMMA StoresStable ==
    ASSUME IInv, UNCHANGED <<store, received, log, published, used>>
    PROVE  /\ KeysInv' /\ EntriesInv' /\ LiveKeysHeld'
           /\ LogKey' = LogKey
           /\ \A r : RotationKeysValid(r) <=> RotationKeysValid(r)'
           /\ \A p : ListKeyIds(p)' = ListKeyIds(p)
           /\ \A r : (provider' = provider \/ IsActivated(r)) /\ RecordInv(r) => RecordInv(r)'
           /\ UNCHANGED <<signing, provider>> => QuietWhileSigning' /\ SigningMatchesIdentity'
           /\ durable' = durable \/ ~IsActivated(durable)' => ActivatedStaysVerified'
<1>1. LogKey' = LogKey
    BY DEF LogKey
<1>2. \A p : ListKeyIds(p)' = ListKeyIds(p) /\ KnownKeys(p)' = KnownKeys(p)
    BY DEF ListKeyIds, KnownKeys
<1>3. \A r : RotationKeysValid(r) <=> RotationKeysValid(r)'
    BY <1>2 DEF RotationKeysValid, TargetIsActive
<1>4. KeysInv'
    BY DEF IInv, KeysInv
<1>5. EntriesInv'
    BY <1>1 DEF IInv, EntriesInv
<1>6. LiveKeysHeld'
    BY <1>1, <1>2 DEF IInv, LiveKeysHeld
<1>7. \A r : (provider' = provider \/ IsActivated(r)) /\ RecordInv(r) => RecordInv(r)'
    BY <1>2, <1>3 DEF RecordInv
<1>8. UNCHANGED <<signing, provider>> => QuietWhileSigning' /\ SigningMatchesIdentity'
    BY <1>1 DEF IInv, QuietWhileSigning, SigningMatchesIdentity
<1>9. durable' = durable \/ ~IsActivated(durable)' => ActivatedStaysVerified'
    BY <1>1 DEF IInv, ActivatedStaysVerified, IsActivated
<1> QED
    BY <1>1, <1>2, <1>3, <1>4, <1>5, <1>6, <1>7, <1>8, <1>9

\* Changing how far a rotation's submission got keeps what is known of it,
\* as long as it has not been accepted before.
LEMMA AnsweredKeepsInv ==
    ASSUME NEW r \in Rotation, RecordInv(r), ~IsActivated(r), r.sub # "accepted",
           NEW i \in Nat, NEW s \in {"pending", "accepted", "rejected"}
    PROVE  RecordInv([r EXCEPT !.sub = s, !.idx = i])
<1> DEFINE a == [r EXCEPT !.sub = s, !.idx = i]
<1>1. /\ a.prev = r.prev /\ a.new = r.new /\ a.src = r.src /\ a.dst = r.dst
      /\ a.stage = r.stage
    BY DEF Rotation
<1>2. r.prev \in ListKeyIds(r.src) /\ store[r.src].active = r.prev
    BY DEF RecordInv, RotationKeysValid
<1>3. ~IsActivated(a)
    BY <1>1 DEF IsActivated
<1>4. RotationKeysValid(a)
    BY <1>1, <1>2, <1>3 DEF RecordInv, RotationKeysValid
<1> HIDE DEF a
<1>5. RecordInv(a)
    BY <1>1, <1>3, <1>4 DEF RecordInv
<1> QED
    BY <1>5 DEF a

\* Preparing and signing the entry changes nothing outside the call.
LEMMA InvPrepare == TypeOK /\ IInv /\ Prepare => IInv'
<1> SUFFICES ASSUME TypeOK, IInv, Prepare PROVE IInv'
    OBVIOUS
<1>1. UNCHANGED <<store, received, log, published, used, provider>>
    BY DEF Prepare, registry
<1>2. work \in Rotation /\ held = None /\ RecordInv(work) /\ ~IsActivated(work)
    BY DEF Prepare, TypeOK, IInv, ControlInv, ReleaseSteps, RecordsInv, Records
<1>3. RecordsInv'
    <2> SUFFICES ASSUME NEW r \in Records' PROVE RecordInv(r)'
        BY DEF RecordsInv
    <2>1. r \in Records
        BY <1>2 DEF Records, Prepare, Goto, EndWith
    <2> QED
        BY <1>1, <2>1, StoresStable DEF IInv, RecordsInv
<1>4. ControlInv'
    BY <1>1, <1>2, StoresStable
       DEF Prepare, Goto, EndWith, IInv, ControlInv, IsActivated, TargetIsActive,
           SubmitSteps, FinishSteps, VerifiedSteps, ReleaseSteps
<1>5. QuietWhileSigning' /\ SigningMatchesIdentity' /\ ActivatedStaysVerified'
    BY <1>1, <1>2, StoresStable DEF Prepare, IsActivated
<1> QED
    BY <1>1, <1>3, <1>4, <1>5, StoresStable DEF IInv

\* Saving the record of an unfinished rotation.
LEMMA InvPersistRecovery == TypeOK /\ IInv /\ PersistRecovery => IInv'
<1> SUFFICES ASSUME TypeOK, IInv, PersistRecovery PROVE IInv'
    OBVIOUS
<1>1. UNCHANGED <<store, received, log, published, used, provider>>
    BY DEF PersistRecovery, registry
<1>2. work \in Rotation /\ held = None /\ RecordInv(work) /\ ~IsActivated(work)
    BY DEF PersistRecovery, TypeOK, IInv, ControlInv, ReleaseSteps, RecordsInv, Records
<1>3. RecordsInv'
    <2> SUFFICES ASSUME NEW r \in Records' PROVE RecordInv(r)'
        BY DEF RecordsInv
    <2>1. r \in Records
        BY <1>2 DEF Records, PersistRecovery, Goto, EndWith, Persist, PersistFails
    <2> QED
        BY <1>1, <2>1, StoresStable DEF IInv, RecordsInv
<1>4. ControlInv'
    BY SMTT(30), <1>1, <1>2, StoresStable
       DEF PersistRecovery, Goto, EndWith, Persist, PersistFails, IInv, ControlInv, IsActivated, TargetIsActive,
           SubmitSteps, FinishSteps, VerifiedSteps, ReleaseSteps
<1>5. QuietWhileSigning' /\ SigningMatchesIdentity' /\ ActivatedStaysVerified'
    BY <1>1, <1>2, StoresStable DEF PersistRecovery, IsActivated, Persist, PersistFails
<1> QED
    BY <1>1, <1>3, <1>4, <1>5, StoresStable DEF IInv

\* Closing the signing gate, or failing to.
LEMMA InvPauseSigning == TypeOK /\ IInv /\ PauseSigning => IInv'
<1> SUFFICES ASSUME TypeOK, IInv, PauseSigning PROVE IInv'
    OBVIOUS
<1>1. UNCHANGED <<store, received, log, published, used, provider>>
    BY DEF PauseSigning, registry
<1>2. work \in Rotation /\ held = None /\ RecordInv(work) /\ ~IsActivated(work)
    BY DEF PauseSigning, TypeOK, IInv, ControlInv, ReleaseSteps, RecordsInv, Records
<1>3. RecordsInv'
    <2> SUFFICES ASSUME NEW r \in Records' PROVE RecordInv(r)'
        BY DEF RecordsInv
    <2>1. r \in Records
        BY <1>2 DEF Records, PauseSigning, Goto, EndWith
    <2> QED
        BY <1>1, <2>1, StoresStable DEF IInv, RecordsInv
<1>4. ControlInv'
    BY SMTT(30), <1>1, <1>2, StoresStable
       DEF PauseSigning, Goto, EndWith, IInv, ControlInv, IsActivated, TargetIsActive,
           SubmitSteps, FinishSteps, VerifiedSteps, ReleaseSteps
<1>5. QuietWhileSigning' /\ SigningMatchesIdentity' /\ ActivatedStaysVerified'
    BY <1>1, StoresStable DEF PauseSigning, IInv, QuietWhileSigning, SigningMatchesIdentity
<1> QED
    BY <1>1, <1>3, <1>4, <1>5, StoresStable DEF IInv

\* Saving what the registry answered.
LEMMA InvPersistAnswer == TypeOK /\ IInv /\ PersistAnswer => IInv'
<1> SUFFICES ASSUME TypeOK, IInv, PersistAnswer PROVE IInv'
    OBVIOUS
<1>1. UNCHANGED <<store, received, log, published, used, provider>>
    BY DEF PersistAnswer, registry
<1>2. work \in Rotation /\ held = None /\ RecordInv(work) /\ ~IsActivated(work)
    BY DEF PersistAnswer, TypeOK, IInv, ControlInv, ReleaseSteps, RecordsInv, Records
<1>3. RecordsInv'
    <2> SUFFICES ASSUME NEW r \in Records' PROVE RecordInv(r)'
        BY DEF RecordsInv
    <2>1. r \in Records
        BY <1>2 DEF Records, PersistAnswer, Goto, EndWith, Persist, PersistFails, ErrorOf
    <2> QED
        BY <1>1, <2>1, StoresStable DEF IInv, RecordsInv
<1>4. ControlInv'
    <2>1. signing' = signing /\ signing = "paused"
        BY DEF PersistAnswer, IInv, ControlInv
    <2>2. \/ pc' = "idle" /\ work' = None /\ held' = work
          \/ /\ pc' = "publication" /\ UNCHANGED <<work, held>>
             /\ durable' = work /\ work.sub = "accepted"
        BY DEF PersistAnswer, Goto, EndWith, Persist, PersistFails
    <2>3. CASE pc' = "idle"
        BY <1>2, <2>2, <2>3 DEF ControlInv, IsActivated, SubmitSteps, FinishSteps, VerifiedSteps, ReleaseSteps
    <2>4. CASE pc' = "publication"
        BY <1>2, <2>1, <2>2, <2>4, ConstantsAssumption
           DEF ControlInv, IsActivated, SubmitSteps, FinishSteps, VerifiedSteps, ReleaseSteps
    <2> QED
        BY <2>2, <2>3, <2>4
<1>5. QuietWhileSigning' /\ SigningMatchesIdentity' /\ ActivatedStaysVerified'
    BY <1>1, <1>2, StoresStable DEF PersistAnswer, IsActivated, Persist, PersistFails
<1> QED
    BY <1>1, <1>3, <1>4, <1>5, StoresStable DEF IInv

\* Verification reads the evidence and changes nothing outside the call.
LEMMA InvVerifyPublication == TypeOK /\ IInv /\ VerifyPublication => IInv'
<1> SUFFICES ASSUME TypeOK, IInv, VerifyPublication PROVE IInv'
    OBVIOUS
<1>1. UNCHANGED <<store, received, log, published, used, provider>>
    BY DEF VerifyPublication, registry
<1>2. work \in Rotation /\ held = None /\ RecordInv(work) /\ ~IsActivated(work)
    BY DEF VerifyPublication, TypeOK, IInv, ControlInv, ReleaseSteps, RecordsInv, Records
<1>3. RecordsInv'
    <2> SUFFICES ASSUME NEW r \in Records' PROVE RecordInv(r)'
        BY DEF RecordsInv
    <2>1. r \in Records
        BY <1>2 DEF Records, VerifyPublication, Goto, EndWith
    <2> QED
        BY <1>1, <2>1, StoresStable DEF IInv, RecordsInv
<1>4. ControlInv'
    <2>1. /\ UNCHANGED <<signing, durable>> /\ signing = "paused"
          /\ durable = work /\ work.sub = "accepted"
        BY DEF VerifyPublication, IInv, ControlInv, FinishSteps
    <2>2. \/ pc' = "idle" /\ work' = None /\ held' = work
          \/ pc' = "activate" /\ UNCHANGED <<work, held>> /\ PublicationBinds(work)
        BY DEF VerifyPublication, Goto, EndWith
    <2>3. CASE pc' = "idle"
        BY <1>2, <2>2, <2>3 DEF ControlInv, IsActivated, SubmitSteps, FinishSteps, VerifiedSteps, ReleaseSteps
    <2>4. CASE pc' = "activate"
        <3>1. LogKey' = work.new /\ published' = work.new
            BY <1>1, <2>2, <2>4, StoresStable DEF PublicationBinds
        <3> QED
            BY <1>2, <2>1, <2>2, <2>4, <3>1, ConstantsAssumption
               DEF ControlInv, IsActivated, SubmitSteps, FinishSteps, VerifiedSteps, ReleaseSteps
    <2> QED
        BY <2>2, <2>3, <2>4
<1>5. QuietWhileSigning' /\ SigningMatchesIdentity' /\ ActivatedStaysVerified'
    BY <1>1, <1>2, StoresStable DEF VerifyPublication, IsActivated
<1> QED
    BY <1>1, <1>3, <1>4, <1>5, StoresStable DEF IInv

\* An answer is noted in the call's own copy, or ends the call.
LEMMA InvAnswer ==
    ASSUME TypeOK, IInv, NEW state \in SubmissionStates, NEW i \in 0..(Len(log) + 1),
           Answer(state, i)
    PROVE  IInv'
<1> DEFINE a == Answered(state, IF state = "accepted" THEN i ELSE 0)
<1>1. UNCHANGED <<store, received, log, published, used, provider>>
    BY DEF Answer, registry
<1>2. /\ work \in Rotation /\ held = None /\ RecordInv(work) /\ ~IsActivated(work)
      /\ work.sub # "accepted" /\ durable = work /\ signing = "paused"
    BY DEF Answer, TypeOK, IInv, ControlInv, SubmitSteps, ReleaseSteps, RecordsInv, Records
<1>3. i \in Nat
    BY DEF TypeOK
<1>4. state # "invalid" => RecordInv(a) /\ ~IsActivated(a)
    BY <1>2, <1>3, AnsweredKeepsInv DEF SubmissionStates, Answered, IsActivated, Rotation
<1> HIDE DEF a
<1>5. RecordsInv'
    <2> SUFFICES ASSUME NEW r \in Records' PROVE RecordInv(r)'
        BY DEF RecordsInv
    <2>1. r \in Records \/ (r = a /\ state # "invalid")
        BY <1>2 DEF Records, Answer, Goto, EndWith, a
    <2> QED
        BY <1>1, <1>4, <2>1, StoresStable DEF IInv, RecordsInv
<1>6. ControlInv'
    <2>1. state # "invalid" => work' = a /\ pc' = "persist_answer" /\ held' = None
        BY <1>2 DEF Answer, Goto, a
    <2>2. state # "invalid" => work' # None
        <3>1. state # "invalid" => a \in Rotation
            BY <1>2, <1>3, AnsweredType DEF a, Answered, SubmissionStates
        <3> QED
            BY <2>1, <3>1, ConstantsAssumption
    <2>3. state = "invalid" => work' = None /\ pc' = "idle" /\ held' = work
        BY DEF Answer, EndWith
    <2>4. durable' = durable /\ signing' = signing
        BY DEF Answer
    <2> QED
        BY <1>2, <1>4, <2>1, <2>2, <2>3, <2>4
           DEF ControlInv, IsActivated, SubmitSteps, FinishSteps, VerifiedSteps, ReleaseSteps
<1>7. QuietWhileSigning' /\ SigningMatchesIdentity' /\ ActivatedStaysVerified'
    BY <1>1, StoresStable DEF Answer
<1> QED
    BY <1>1, <1>5, <1>6, <1>7, StoresStable DEF IInv

\* Activation is saved once the evidence binds the new key and the stores
\* hold it alone; the manager then signs with the target provider.
LEMMA InvPersistActivated == TypeOK /\ IInv /\ PersistActivated => IInv'
<1> SUFFICES ASSUME TypeOK, IInv, PersistActivated PROVE IInv'
    OBVIOUS
<1> DEFINE a == [work EXCEPT !.stage = "activated"]
<1>1. UNCHANGED <<store, received, log, published, used, signing>>
    BY DEF PersistActivated, registry
<1>2. /\ work \in Rotation /\ held = None /\ RecordInv(work) /\ ~IsActivated(work)
      /\ work.sub = "accepted" /\ durable = work /\ signing = "paused"
      /\ LogKey = work.new /\ published = work.new
      /\ TargetIsActive(work) /\ work.prev \notin ListKeyIds(work.src)
    BY DEF PersistActivated, TypeOK, IInv, ControlInv, FinishSteps, VerifiedSteps, SubmitSteps,
           ReleaseSteps, RecordsInv, Records
<1>3. /\ a.prev = work.prev /\ a.new = work.new /\ a.src = work.src /\ a.dst = work.dst
      /\ a.sub = work.sub /\ a.stage = "activated"
    BY <1>2 DEF Rotation
<1>n. a # None
    BY <1>2, RecordTypes, ConstantsAssumption
<1>d. \/ durable' = a /\ work' = a /\ held' = None /\ pc' = "unpause" /\ provider' = a.dst
      \/ durable' \in {work, a} /\ work' = None /\ held' = work /\ pc' = "idle"
         /\ provider' = provider
    BY <1>2, <1>3 DEF PersistActivated, Persist, PersistFails, Goto, EndWith, a
<1> HIDE DEF a
<1>4. IsActivated(a) /\ RecordInv(a)
    BY <1>2, <1>3 DEF RecordInv, RotationKeysValid, IsActivated, TargetIsActive
<1>5. RecordsInv'
    <2> SUFFICES ASSUME NEW r \in Records' PROVE RecordInv(r)'
        BY DEF RecordsInv
    <2>1. r = a \/ (r = work /\ provider' = provider)
        BY <1>d DEF Records
    <2> QED
        BY <1>1, <1>2, <1>4, <2>1, StoresStable
<1>6. ControlInv'
    BY <1>1, <1>2, <1>3, <1>n, <1>4, <1>d
       DEF ControlInv, IsActivated, SubmitSteps, FinishSteps, VerifiedSteps, ReleaseSteps
<1>7. QuietWhileSigning' /\ SigningMatchesIdentity'
    BY <1>1, <1>2 DEF QuietWhileSigning, SigningMatchesIdentity
<1>8. ActivatedStaysVerified'
    <2>1. durable'.new = work.new
        BY <1>d, <1>3
    <2>2. LogKey' = work.new /\ published' = work.new
        BY <1>1, <1>2, StoresStable
    <2> QED
        BY <1>1, <1>2, <2>1, <2>2 DEF ActivatedStaysVerified, RecordInv
<1> QED
    BY <1>1, <1>5, <1>6, <1>7, <1>8, StoresStable DEF IInv

\* Signing resumes with the key that log and JWKS name, and nothing is
\* outstanding that could replace it.
LEMMA InvResumeSigning == TypeOK /\ IInv /\ ResumeSigning => IInv'
<1> SUFFICES ASSUME TypeOK, IInv, ResumeSigning PROVE IInv'
    OBVIOUS
<1>1. UNCHANGED <<store, received, log, published, used, provider, durable>>
    BY DEF ResumeSigning, registry
<1>2. /\ work \in Rotation /\ held = None /\ RecordInv(work) /\ IsActivated(work)
      /\ durable # None /\ IsActivated(durable) /\ durable.new = work.new
      /\ provider = work.dst
    BY DEF ResumeSigning, TypeOK, IInv, ControlInv, ReleaseSteps, RecordsInv, Records
<1>3. RecordsInv'
    <2> SUFFICES ASSUME NEW r \in Records' PROVE RecordInv(r)'
        BY DEF RecordsInv
    <2>1. r \in Records
        BY <1>2 DEF Records, ResumeSigning, Goto, EndWith
    <2> QED
        BY <1>1, <2>1, StoresStable DEF IInv, RecordsInv
<1>4. ControlInv'
    BY <1>1, <1>2 DEF ResumeSigning, Goto, EndWith, IInv, ControlInv, IsActivated,
                      SubmitSteps, FinishSteps, VerifiedSteps, ReleaseSteps
<1>5. LogKey = work.new /\ published = work.new /\ store[provider].active = work.new
    BY <1>2 DEF IInv, ActivatedStaysVerified, RecordInv, RotationKeysValid, TargetIsActive
<1>6. QuietWhileSigning' /\ SigningMatchesIdentity'
    BY <1>1, <1>2, <1>5, StoresStable DEF QuietWhileSigning, SigningMatchesIdentity, RecordInv
<1>7. ActivatedStaysVerified'
    BY <1>1, StoresStable
<1> QED
    BY <1>1, <1>3, <1>4, <1>6, <1>7, StoresStable DEF IInv

\* Saving completion changes only how far the record got.
LEMMA InvPersistCompleted == TypeOK /\ IInv /\ PersistCompleted => IInv'
<1> SUFFICES ASSUME TypeOK, IInv, PersistCompleted PROVE IInv'
    OBVIOUS
<1> DEFINE c == [work EXCEPT !.stage = "completed"]
<1>1. UNCHANGED <<store, received, log, published, used, provider, signing>>
    BY DEF PersistCompleted, registry
<1>2. /\ work \in Rotation /\ held = None /\ RecordInv(work) /\ IsActivated(work)
      /\ durable # None /\ IsActivated(durable) /\ durable.new = work.new
      /\ durable \in Records
    BY DEF PersistCompleted, TypeOK, IInv, ControlInv, ReleaseSteps, RecordsInv, Records
<1>3. /\ c.prev = work.prev /\ c.new = work.new /\ c.src = work.src /\ c.dst = work.dst
      /\ c.sub = work.sub /\ c.stage = "completed"
    BY <1>2 DEF Rotation
<1>n. c # None
    BY <1>2, RecordTypes, ConstantsAssumption
<1>d. /\ durable' \in {durable, c} /\ held' \in {work, c}
      /\ work' = None /\ pc' = "idle"
    BY DEF PersistCompleted, Persist, PersistFails, EndWith, c
<1> HIDE DEF c
<1>4. IsActivated(c) /\ RecordInv(c)
    BY <1>2, <1>3 DEF RecordInv, RotationKeysValid, IsActivated, TargetIsActive
<1>5. RecordsInv'
    <2> SUFFICES ASSUME NEW r \in Records' PROVE RecordInv(r)'
        BY DEF RecordsInv
    <2>1. r \in {durable, work, c}
        BY <1>d DEF Records
    <2> QED
        BY <1>1, <1>2, <1>4, <2>1, StoresStable DEF IInv, RecordsInv
<1>6. ControlInv'
    BY <1>2, <1>3, <1>n, <1>4, <1>d
       DEF ControlInv, IsActivated, SubmitSteps, FinishSteps, VerifiedSteps, ReleaseSteps
<1>7. QuietWhileSigning' /\ SigningMatchesIdentity'
    BY <1>1, StoresStable
<1>8. ActivatedStaysVerified'
    <2>1. durable'.new = work.new
        BY <1>d, <1>2, <1>3
    <2>2. LogKey' = work.new /\ published' = work.new
        BY <1>1, <1>2, StoresStable DEF IInv, ActivatedStaysVerified
    <2> QED
        BY <1>1, <1>2, <2>1, <2>2 DEF ActivatedStaysVerified, RecordInv
<1> QED
    BY <1>1, <1>5, <1>6, <1>7, <1>8, StoresStable DEF IInv

\* Resuming any saved or held record; an activated one restores the signer
\* to the provider whose active key is published.
LEMMA InvResume == TypeOK /\ IInv /\ ResumeSaved => IInv'
<1> SUFFICES ASSUME TypeOK, IInv, NEW r \in {durable, held}, Resume(r) PROVE IInv'
    BY DEF ResumeSaved
<1>1. UNCHANGED <<store, received, log, published, used, durable, signing>>
    BY DEF Resume, registry
<1>2. r \in Records /\ RecordInv(r) /\ r # None /\ work = None
    BY DEF Resume, Records, IInv, RecordsInv, ControlInv
<1>3. IsActivated(r) => durable # None /\ IsActivated(durable) /\ durable.new = r.new
    BY <1>2 DEF IInv, ControlInv
<1>4. /\ work' \in {r, None} /\ held' \in {r, None}
      /\ IsActivated(r) \/ provider' = provider
    BY DEF Resume, ResumeActivated, ResumeRejected, ResumePrepared, EndWith
<1>5. RecordsInv'
    <2> SUFFICES ASSUME NEW q \in Records' PROVE RecordInv(q)'
        BY DEF RecordsInv
    <2>1. q \in Records /\ (IsActivated(q) \/ provider' = provider)
        BY <1>1, <1>2, <1>3, <1>4 DEF Records
    <2> QED
        BY <1>1, <2>1, StoresStable DEF IInv, RecordsInv
<1>6. ControlInv'
    BY <1>1, <1>2, <1>3
       DEF Resume, ResumeActivated, ResumeRejected, ResumePrepared, EndWith, ControlInv,
           IsActivated, SubmitSteps, FinishSteps, VerifiedSteps, ReleaseSteps
<1>7. ActivatedStaysVerified'
    BY <1>1, StoresStable
<1>8. QuietWhileSigning' /\ SigningMatchesIdentity'
    <2>1. CASE provider' = provider
        BY <1>1, <2>1, StoresStable
    <2>2. CASE IsActivated(r) /\ provider' = r.dst
        <3>1. LogKey = r.new /\ published = r.new /\ store[r.dst].active = r.new
            BY <1>2, <1>3, <2>2
               DEF IInv, ActivatedStaysVerified, RecordInv, RotationKeysValid, TargetIsActive
        <3> QED
            BY <1>1, <1>2, <2>2, <3>1, StoresStable
               DEF QuietWhileSigning, SigningMatchesIdentity, RecordInv
    <2> QED
        BY <1>4, <2>1, <2>2 DEF Resume, ResumeActivated, ResumeRejected, ResumePrepared
<1> QED
    BY <1>1, <1>5, <1>6, <1>7, <1>8, StoresStable DEF IInv

\* A restart finds a signer and a gate that fit the saved record.
LEMMA InvCrash == TypeOK /\ IInv /\ Crash => IInv'
<1> SUFFICES ASSUME TypeOK, IInv, Crash PROVE IInv'
    OBVIOUS
<1>1. /\ UNCHANGED <<store, received, log, published, used, durable>>
      /\ pc' = "idle" /\ work' = None /\ held' = None
    BY DEF Crash, registry
<1>2. durable # None => RecordInv(durable)
    BY DEF IInv, RecordsInv, Records
<1>3. durable = None \/ ~IsActivated(durable) =>
        provider' = provider /\ (signing' = "open" => signing = "open")
    BY <1>2 DEF Crash, ReopenedProviders, RestoredGate, RecordInv, IsActivated
<1>4. RecordsInv'
    <2> SUFFICES ASSUME NEW r \in Records' PROVE RecordInv(r)'
        BY DEF RecordsInv
    <2>1. r = durable /\ durable # None
        BY <1>1 DEF Records
    <2> QED
        BY <1>1, <1>2, <1>3, <2>1, StoresStable
<1>5. ControlInv'
    BY <1>1 DEF ControlInv, SubmitSteps, FinishSteps, VerifiedSteps, ReleaseSteps
<1>6. ActivatedStaysVerified'
    BY <1>1, StoresStable
<1>7. QuietWhileSigning' /\ SigningMatchesIdentity'
    <2>1. CASE durable = None \/ ~IsActivated(durable)
        BY <1>1, <1>3, <2>1, StoresStable DEF IInv, QuietWhileSigning, SigningMatchesIdentity
    <2>2. CASE durable # None /\ IsActivated(durable)
        <3>1. provider' \in {durable.src, durable.dst}
            BY <2>2 DEF Crash, ReopenedProviders
        <3>2. /\ store[durable.dst].active = durable.new
              /\ durable.src # durable.dst => store[durable.src].active = None
            BY <1>2, <2>2 DEF RecordInv, RotationKeysValid, TargetIsActive
        <3>3. /\ LogKey = durable.new /\ published = durable.new
              /\ \A e \in received : e.prev # durable.new
            BY <2>2 DEF IInv, ActivatedStaysVerified
        <3> QED
            BY <1>1, <3>1, <3>2, <3>3, StoresStable DEF QuietWhileSigning, SigningMatchesIdentity
    <2> QED
        BY <2>1, <2>2
<1> QED
    BY <1>1, <1>4, <1>5, <1>6, <1>7, StoresStable DEF IInv

-----------------------------------------------------------------------------
(* Steps that change the key stores                                        *)

\* A fresh pending key disturbs no record, entry or active key.
LEMMA InvRotate ==
    ASSUME TypeOK, IInv, NEW dst \in Provider, NEW k \in Key, Rotate(dst, k)
    PROVE  IInv'
<1> USE ConstantsAssumption
<1>1. /\ UNCHANGED <<received, log, published, durable, signing, provider>>
      /\ used' = used \cup {k} /\ k \notin used
    BY DEF Rotate, registry
<1>2. \A p \in Provider :
        /\ store'[p].active = store[p].active
        /\ store'[p].retained = store[p].retained
        /\ store'[p].pending = store[p].pending \cup {x \in {k} : p = dst}
    BY DEF Rotate, TypeOK, KeyStore
<1>3. \A p \in Provider : /\ ListKeyIds(p)' = ListKeyIds(p)
                          /\ KnownKeys(p) \subseteq KnownKeys(p)'
    BY <1>2 DEF ListKeyIds, KnownKeys
<1>4. LogKey' = LogKey
    BY <1>1 DEF LogKey
<1>5. KeysInv'
    <2>1. \A p \in Provider : k \notin store[p].pending /\ store[p].active # k
        BY <1>1 DEF IInv, KeysInv
    <2> QED
        BY <1>1, <1>2, <2>1 DEF IInv, KeysInv
<1>6. EntriesInv'
    BY <1>1, <1>2, <1>4 DEF IInv, EntriesInv
<1>7. \A r \in Rotation : RecordInv(r) => RecordInv(r)'
    <2> SUFFICES ASSUME NEW r \in Rotation, RecordInv(r) PROVE RecordInv(r)'
        OBVIOUS
    <2>1. r.src \in Provider /\ r.dst \in Provider
        BY DEF Rotation
    <2>2. RotationKeysValid(r)'
        BY <1>2, <1>3, <2>1 DEF RecordInv, RotationKeysValid, TargetIsActive
    <2> QED
        BY <1>1, <1>2, <1>3, <2>1, <2>2 DEF RecordInv
<1> DEFINE w == [prev |-> store[provider].active, new |-> k, src |-> provider, dst |-> dst,
                 sub |-> "none", idx |-> 0, stage |-> "recovering"]
<1>8. ASSUME NEW v, v = w PROVE RecordInv(v)'
    <2>0. /\ v.prev = store[provider].active /\ v.new = k /\ v.src = provider /\ v.dst = dst
          /\ v.sub = "none" /\ v.stage = "recovering"
        BY <1>8
    <2>1. provider \in Provider /\ v.prev \in used /\ v.prev # None
        BY <2>0 DEF Rotate, IInv, KeysInv, TypeOK
    <2>2. v.prev \in ListKeyIds(provider) /\ store'[provider].active = v.prev
        BY <1>2, <2>0, <2>1 DEF ListKeyIds
    <2>3. k \in store'[dst].pending /\ k \in KnownKeys(dst)'
        BY <1>2 DEF KnownKeys
    <2>4. \A p \in Provider : v.prev \notin store'[p].pending
        BY SMTT(30), <1>1, <1>2, <2>0, <2>1 DEF IInv, KeysInv
    <2>5. \A e \in received : e.prev # k
        BY <1>1 DEF IInv, EntriesInv
    <2>6. RotationKeysValid(v)'
        BY <1>3, <2>0, <2>1, <2>2, <2>3 DEF RotationKeysValid, IsActivated
    <2> QED
        BY <1>1, <2>0, <2>1, <2>3, <2>4, <2>5, <2>6 DEF RecordInv, IsActivated
<1>9. \/ pc' = "prepare" /\ work' = w /\ held' = None
      \/ pc' = "idle" /\ work' = None /\ held' = None
    BY DEF Rotate, EndWith
<1>10. w # None
    <2>1. w \in Rotation
        BY DEF Rotate, TypeOK, Rotation, KeyStore
    <2> QED
        BY <2>1
<1>11. ~IsActivated(w)
    BY DEF IsActivated
<1> HIDE DEF w
<1>12. RecordsInv'
    <2> SUFFICES ASSUME NEW r \in Records' PROVE RecordInv(r)'
        BY DEF RecordsInv
    <2>1. r = w \/ (r = durable /\ durable # None)
        BY <1>1, <1>9 DEF Records
    <2>2. durable # None => durable \in Rotation /\ RecordInv(durable)
        BY DEF TypeOK, IInv, RecordsInv, Records
    <2> QED
        BY <1>7, <1>8, <2>1, <2>2
<1>13. ControlInv'
    BY <1>9, <1>10, <1>11
       DEF ControlInv, SubmitSteps, FinishSteps, VerifiedSteps, ReleaseSteps
<1>14. provider \in Provider
    BY DEF TypeOK
<1>15. QuietWhileSigning' /\ SigningMatchesIdentity' /\ ActivatedStaysVerified'
    BY <1>1, <1>2, <1>4, <1>14
       DEF IInv, QuietWhileSigning, SigningMatchesIdentity, ActivatedStaysVerified, IsActivated
<1>16. LiveKeysHeld'
    BY <1>1, <1>3, <1>4 DEF IInv, LiveKeysHeld
<1> QED
    BY <1>5, <1>6, <1>12, <1>13, <1>15, <1>16 DEF IInv

\* Activation keeps every key known and every store's pending keys apart; the
\* entries that continue the activated key are none.
LEMMA InvActivateKey == TypeOK /\ IInv /\ ActivateKey => IInv'
<1> SUFFICES ASSUME TypeOK, IInv, ActivateKey PROVE IInv'
    OBVIOUS
<1> USE ConstantsAssumption
<1>1. UNCHANGED <<received, log, published, used, durable, signing, provider>>
    BY DEF ActivateKey, registry
<1>2. /\ work \in Rotation /\ held = None /\ RecordInv(work) /\ ~IsActivated(work)
      /\ durable = work /\ work.sub = "accepted" /\ signing = "paused"
      /\ LogKey = work.new /\ published = work.new
    BY DEF ActivateKey, TypeOK, IInv, ControlInv, SubmitSteps, FinishSteps, VerifiedSteps,
           ReleaseSteps, RecordsInv, Records
<1>3. LogKey' = LogKey
    BY <1>1 DEF LogKey
<1>4. CASE store' = store
    <2>1. RecordsInv'
        <3> SUFFICES ASSUME NEW r \in Records' PROVE RecordInv(r)'
            BY DEF RecordsInv
        <3>1. r = work
            BY <1>1, <1>2 DEF Records, ActivateKey, Goto, EndWith
        <3> QED
            BY <1>1, <1>2, <1>4, <3>1, StoresStable
    <2>2. pc' = "supersede" => TargetIsActive(work)
        <3>1. work.dst \in Provider /\ store[work.dst] \in KeyStore
            BY <1>2 DEF Rotation, TypeOK
        <3>2. Activated(store[work.dst], work.new).active = work.new
            BY DEF Activated
        <3> QED
            BY <1>4, <3>1, <3>2 DEF ActivateKey, Goto, EndWith, TargetIsActive, TypeOK
    <2>3. ControlInv'
        BY <1>1, <1>2, <1>3, <1>4, <2>2
           DEF ActivateKey, Goto, EndWith, ControlInv, IsActivated, TargetIsActive,
               SubmitSteps, FinishSteps, VerifiedSteps, ReleaseSteps
    <2> QED
        BY <1>1, <1>4, <2>1, <2>3, StoresStable DEF IInv
<1>5. CASE /\ store' = [store EXCEPT ![work.dst] = Activated(@, work.new)]
           /\ RotationKeysValid(work) /\ ~TargetIsActive(work)
           /\ work.new \in store[work.dst].pending
    <2>1. work.src \in Provider /\ work.dst \in Provider /\ work.new \in Key
        BY <1>2 DEF Rotation
    <2>2. /\ store'[work.dst].active = work.new
          /\ store'[work.dst].retained
               = store[work.dst].retained \cup ({store[work.dst].active} \ {None})
          /\ store'[work.dst].pending = store[work.dst].pending \ {work.new}
          /\ \A p \in Provider \ {work.dst} : store'[p] = store[p]
        BY <1>5, <2>1 DEF Activated, TypeOK
    <2>3. work.prev \in ListKeyIds(work.src) /\ store[work.src].active = work.prev
        BY <1>5 DEF RotationKeysValid
    <2>4. \A p \in Provider : /\ KnownKeys(p) \subseteq KnownKeys(p)'
                              /\ store'[p].pending \subseteq store[p].pending
        <3> SUFFICES ASSUME NEW p \in Provider
                     PROVE  /\ KnownKeys(p) \subseteq KnownKeys(p)'
                            /\ store'[p].pending \subseteq store[p].pending
            OBVIOUS
        <3>1. CASE p = work.dst
            BY <2>1, <2>2, <3>1 DEF KnownKeys, ListKeyIds
        <3>2. CASE p # work.dst
            BY <2>2, <3>2 DEF KnownKeys, ListKeyIds
        <3> QED
            BY <3>1, <3>2
    <2>6. RecordsInv'
        <3> SUFFICES ASSUME NEW r \in Records' PROVE RecordInv(r)'
            BY DEF RecordsInv
        <3>1. r = work
            BY <1>1, <1>2 DEF Records, ActivateKey, Goto, EndWith
        <3>2. r.new \in KnownKeys(r.dst)' /\ TargetIsActive(r)'
            BY <2>1, <2>2, <3>1 DEF KnownKeys, ListKeyIds, TargetIsActive
        <3>3. r.prev # None
            BY <1>2, <3>1 DEF Rotation
        <3>4. r.prev \in ListKeyIds(r.src)'
            <4>1. CASE r.src = r.dst
                BY <2>1, <2>2, <2>3, <3>1, <3>3, <4>1 DEF ListKeyIds
            <4>2. CASE r.src # r.dst
                BY <2>1, <2>2, <2>3, <3>1, <4>2 DEF ListKeyIds
            <4> QED
                BY <4>1, <4>2
        <3>5. r.src # r.dst => store'[r.src].active = r.prev
            BY <2>1, <2>2, <2>3, <3>1
        <3>6. RotationKeysValid(r)'
            BY <1>2, <3>1, <3>2, <3>4, <3>5 DEF RotationKeysValid, IsActivated
        <3> QED
            BY <1>1, <1>2, <2>4, <3>1, <3>6 DEF RecordInv
    <2>7. KeysInv'
        <3>1. work.new \in used /\ \A p \in Provider : work.new \notin store'[p].pending
            BY <1>5, <2>1, <2>2 DEF IInv, KeysInv
        <3>2. \A p \in Provider : store'[p].active \in {store[p].active, work.new}
            BY <2>2
        <3> QED
            BY <1>1, <2>4, <3>1, <3>2 DEF IInv, KeysInv
    <2>8. EntriesInv'
        BY <1>1, <1>2, <1>3, <2>4 DEF IInv, EntriesInv, RecordInv
    <2>9. ControlInv'
        <3>1. \/ pc' = "supersede" /\ work' = work /\ held' = None
              \/ pc' = "idle" /\ work' = None /\ held' = work
            BY <1>2 DEF ActivateKey, Goto, EndWith
        <3>2. work # None
            BY <1>2
        <3>3. CASE pc' = "supersede" /\ work' = work /\ held' = None
            <4>1. TargetIsActive(work)'
                BY <2>2, <3>3 DEF TargetIsActive
            <4>2. LogKey' = work'.new /\ published' = work'.new
                BY <1>1, <1>2, <1>3, <3>3 DEF VerifiedSteps
            <4>3. ~IsActivated(work)'
                BY <1>2, <3>3 DEF IsActivated
            <4>4. durable' = work' /\ work'.sub = "accepted" /\ signing' = "paused"
                BY <1>1, <1>2, <3>3
            <4> QED
                BY <3>2, <3>3, <4>1, <4>2, <4>3, <4>4
                   DEF ControlInv, SubmitSteps, FinishSteps, VerifiedSteps, ReleaseSteps
        <3>4. CASE pc' = "idle" /\ work' = None /\ held' = work
            <4>1. ~IsActivated(held)'
                BY <1>2, <3>4 DEF IsActivated
            <4> QED
                BY <3>4, <4>1
                   DEF ControlInv, SubmitSteps, FinishSteps, VerifiedSteps, ReleaseSteps
        <3> QED
            BY <3>1, <3>3, <3>4
    <2>10. QuietWhileSigning' /\ SigningMatchesIdentity' /\ ActivatedStaysVerified'
        BY <1>1, <1>2 DEF QuietWhileSigning, SigningMatchesIdentity, ActivatedStaysVerified,
                          IsActivated
    <2>11. LiveKeysHeld'
        BY <1>1, <1>3, <2>4 DEF IInv, LiveKeysHeld
    <2> QED
        BY <2>6, <2>7, <2>8, <2>9, <2>10, <2>11 DEF IInv
<1> QED
    BY <1>4, <1>5 DEF ActivateKey

\* Dropping the previous key leaves the published key where it is active.
LEMMA InvSupersedeKey == TypeOK /\ IInv /\ SupersedeKey => IInv'
<1> SUFFICES ASSUME TypeOK, IInv, SupersedeKey PROVE IInv'
    OBVIOUS
<1> USE ConstantsAssumption
<1>1. UNCHANGED <<received, log, published, used, durable, signing, provider>>
    BY DEF SupersedeKey, registry
<1>2. /\ work \in Rotation /\ held = None /\ RecordInv(work) /\ ~IsActivated(work)
      /\ durable = work /\ work.sub = "accepted" /\ signing = "paused"
      /\ LogKey = work.new /\ published = work.new /\ TargetIsActive(work)
    BY DEF SupersedeKey, TypeOK, IInv, ControlInv, SubmitSteps, FinishSteps, VerifiedSteps,
           ReleaseSteps, RecordsInv, Records
<1>3. LogKey' = LogKey
    BY <1>1 DEF LogKey
<1>4. work.src \in Provider /\ work.dst \in Provider /\ work.new \in Key /\ work.prev \in Key
    BY <1>2 DEF Rotation
<1>5. \/ pc' = "persist_activated" /\ work' = work /\ held' = None
      \/ pc' = "idle" /\ work' = None /\ held' = work
    BY <1>2 DEF SupersedeKey, Goto, EndWith
<1>6. CASE store' = store /\ (pc' = "idle" \/ work.prev \notin ListKeyIds(work.src))
    <2>1. RecordsInv'
        <3> SUFFICES ASSUME NEW r \in Records' PROVE RecordInv(r)'
            BY DEF RecordsInv
        <3>1. r = work
            BY <1>1, <1>2, <1>5 DEF Records
        <3> QED
            BY <1>1, <1>2, <1>6, <3>1, StoresStable
    <2>2. ControlInv'
        BY <1>1, <1>2, <1>3, <1>5, <1>6
           DEF ControlInv, IsActivated, TargetIsActive, ListKeyIds,
               SubmitSteps, FinishSteps, VerifiedSteps, ReleaseSteps
    <2> QED
        BY <1>1, <1>6, <2>1, <2>2, StoresStable DEF IInv
<1>7. CASE /\ store' = [store EXCEPT ![work.src] = Superseded(@, work.prev)]
           /\ work.prev \in ListKeyIds(work.src)
    <2>1. /\ store'[work.src].active
               = IF store[work.src].active = work.prev THEN None ELSE store[work.src].active
          /\ store'[work.src].retained = store[work.src].retained \ {work.prev}
          /\ store'[work.src].pending = store[work.src].pending
          /\ \A p \in Provider \ {work.src} : store'[p] = store[p]
        BY <1>4, <1>7 DEF Superseded, TypeOK, KeyStore
    <2>2. store'[work.dst].active = work.new
        BY <1>2, <1>4, <2>1 DEF TargetIsActive, RecordInv
    <2>3. work.src # work.dst => store'[work.src].active = None
        BY <1>2, <1>7, <2>1 DEF RecordInv, RotationKeysValid
    <2>4. work.prev \notin store'[work.src].retained \cup ({store'[work.src].active} \ {None})
        BY <2>1, <1>4
    <2>5. \A p \in Provider : store'[p].pending = store[p].pending
        BY <2>1
    <2>6. RecordsInv'
        <3> SUFFICES ASSUME NEW r \in Records' PROVE RecordInv(r)'
            BY DEF RecordsInv
        <3>1. r = work
            BY <1>1, <1>2, <1>5 DEF Records
        <3>2. r.new \in KnownKeys(r.dst)' /\ TargetIsActive(r)'
            BY <1>4, <2>2, <3>1 DEF KnownKeys, ListKeyIds, TargetIsActive
        <3>3. r.prev \notin ListKeyIds(r.src)'
            BY <2>4, <3>1 DEF ListKeyIds
        <3>4. RotationKeysValid(r)'
            BY <1>2, <2>3, <3>1, <3>2, <3>3 DEF RotationKeysValid
        <3> QED
            BY <1>1, <1>2, <1>4, <2>5, <3>1, <3>4 DEF RecordInv
    <2>7. KeysInv'
        <3>1. \A p \in Provider : store'[p].active \in {store[p].active, None}
            BY <2>1
        <3>2. \A p \in Provider : None \notin store[p].pending
            BY DEF TypeOK, KeyStore
        <3> QED
            BY <1>1, <2>5, <3>1, <3>2 DEF IInv, KeysInv
    <2>8. EntriesInv'
        BY <1>1, <1>3, <2>5 DEF IInv, EntriesInv
    <2>9. ControlInv'
        <3>1. work # None
            BY <1>2
        <3>3. CASE pc' = "idle" /\ work' = None /\ held' = work
            BY <1>1, <1>2, <3>1, <3>3
               DEF ControlInv, IsActivated, SubmitSteps, FinishSteps, VerifiedSteps, ReleaseSteps
        <3>4. CASE pc' = "persist_activated" /\ work' = work /\ held' = None
            <4>1. TargetIsActive(work)' /\ (work.prev \notin ListKeyIds(work.src))'
                BY <2>2, <2>4, <3>4 DEF TargetIsActive, ListKeyIds
            <4> QED
                BY <1>1, <1>2, <1>3, <3>1, <3>4, <4>1
                   DEF ControlInv, IsActivated, SubmitSteps, FinishSteps, VerifiedSteps, ReleaseSteps
        <3> QED
            BY <1>5, <3>3, <3>4
    <2>10. QuietWhileSigning' /\ SigningMatchesIdentity' /\ ActivatedStaysVerified'
        BY <1>1, <1>2 DEF QuietWhileSigning, SigningMatchesIdentity, ActivatedStaysVerified,
                          IsActivated
    <2>11. LiveKeysHeld'
        <3>2. \A p : p = work.dst => work.new \in KnownKeys(p)'
            BY <1>4, <2>2 DEF KnownKeys, ListKeyIds
        <3> QED
            BY <1>1, <1>2, <1>3, <1>4, <3>2 DEF LiveKeysHeld
    <2> QED
        BY <2>6, <2>7, <2>8, <2>9, <2>10, <2>11 DEF IInv
<1> QED
    BY <1>6, <1>7 DEF SupersedeKey, Goto, EndWith

-----------------------------------------------------------------------------
(* Steps of the registry                                                   *)

\* Only bytes that are saved, under a closed gate, reach the registry.
LEMMA InvSubmit == TypeOK /\ IInv /\ Submit => IInv'
<1> SUFFICES ASSUME TypeOK, IInv, Submit PROVE IInv'
    OBVIOUS
<1>1. UNCHANGED <<store, log, published, used, durable, signing, provider>>
    BY DEF Submit
<1>2. /\ work \in Rotation /\ held = None /\ RecordInv(work) /\ ~IsActivated(work)
      /\ durable = work /\ work.sub # "accepted" /\ signing = "paused"
    BY DEF Submit, TypeOK, IInv, ControlInv, SubmitSteps, FinishSteps, ReleaseSteps,
           RecordsInv, Records
<1>3. /\ received' \subseteq received \cup {EntryOf(work)}
      /\ EntryOf(work).prev = work.prev /\ EntryOf(work).new = work.new
    BY DEF Submit, EntryOf
<1>4. LogKey' = LogKey /\ \A p : ListKeyIds(p)' = ListKeyIds(p) /\ KnownKeys(p)' = KnownKeys(p)
    BY <1>1 DEF LogKey, ListKeyIds, KnownKeys
<1> DEFINE a == Answered("rejected", 0)
<1>5. /\ RecordInv(a) /\ ~IsActivated(a) /\ a.new = work.new /\ a.prev = work.prev
      /\ a \in Rotation
    BY <1>2, AnsweredKeepsInv, AnsweredType DEF Answered, IsActivated, Rotation
<1>6. \/ pc' = "answer" /\ work' = work /\ held' = None
      \/ pc' = "persist_answer" /\ work' = a /\ held' = None
    BY <1>2 DEF Submit, Goto
<1> HIDE DEF a
<1>7. RecordsInv'
    <2> SUFFICES ASSUME NEW r \in Records' PROVE RecordInv(r)'
        BY DEF RecordsInv
    <2>1. RecordInv(r) /\ r.new = work.new
        BY <1>1, <1>2, <1>5, <1>6 DEF Records
    <2>2. RotationKeysValid(r)'
        BY <1>1, <1>4, <2>1 DEF RecordInv, RotationKeysValid, TargetIsActive
    <2>3. \A e \in received' : e.prev # r.new
        BY <1>2, <1>3, <2>1 DEF RecordInv
    <2> QED
        BY <1>1, <1>4, <2>1, <2>2, <2>3 DEF RecordInv
<1>8. KeysInv'
    BY <1>1 DEF IInv, KeysInv
<1>9. EntriesInv'
    <2>1. /\ work.prev \in used /\ work.new \in store[work.dst].pending /\ work.dst \in Provider
          /\ \A p \in Provider : work.prev \notin store[p].pending
        BY <1>2 DEF RecordInv, Rotation
    <2> QED
        BY <1>1, <1>3, <1>4, <2>1 DEF IInv, EntriesInv
<1>10. ControlInv'
    <2>1. work # None /\ a # None
        BY <1>2, <1>5, ConstantsAssumption
    <2> QED
        BY <1>1, <1>2, <1>5, <1>6, <2>1
           DEF ControlInv, SubmitSteps, FinishSteps, VerifiedSteps, ReleaseSteps
<1>11. QuietWhileSigning' /\ SigningMatchesIdentity' /\ ActivatedStaysVerified'
    BY <1>1, <1>2 DEF QuietWhileSigning, SigningMatchesIdentity, ActivatedStaysVerified,
                      IsActivated
<1>12. LiveKeysHeld'
    BY <1>1, <1>4 DEF IInv, LiveKeysHeld
<1> QED
    BY <1>7, <1>8, <1>9, <1>10, <1>11, <1>12 DEF IInv

\* The registry changes neither the key stores nor the records.
LEMMA RegistryStable ==
    ASSUME IInv, UNCHANGED <<store, local, received, used>>
    PROVE  /\ KeysInv' /\ RecordsInv'
           /\ \A p : KnownKeys(p)' = KnownKeys(p)
<1>1. UNCHANGED <<store, received, used, durable, held, work, provider>>
    BY DEF local
<1>2. \A p : ListKeyIds(p)' = ListKeyIds(p) /\ KnownKeys(p)' = KnownKeys(p)
    BY <1>1 DEF ListKeyIds, KnownKeys
<1>3. KeysInv'
    BY <1>1 DEF IInv, KeysInv
<1>4. RecordsInv'
    <2> SUFFICES ASSUME NEW r \in Records' PROVE RecordInv(r)'
        BY DEF RecordsInv
    <2>1. RecordInv(r)
        BY <1>1 DEF Records, IInv, RecordsInv
    <2>2. RotationKeysValid(r)'
        BY <1>1, <1>2, <2>1 DEF RecordInv, RotationKeysValid, TargetIsActive
    <2> QED
        BY <1>1, <1>2, <2>1, <2>2 DEF RecordInv
<1> QED
    BY <1>2, <1>3, <1>4

\* While the log or the JWKS can move, no call has verified the publication,
\* no activated record is saved and the gate is closed.
LEMMA LogCanMove ==
    ASSUME TypeOK, IInv, NEW e \in received, e.prev = LogKey
    PROVE  /\ pc \notin VerifiedSteps
           /\ signing = "paused"
           /\ durable # None => ~IsActivated(durable)
           /\ pc \notin ReleaseSteps
<1>1. durable # None => ~IsActivated(durable)
    BY DEF IInv, ActivatedStaysVerified
<1>2. pc \notin ReleaseSteps
    BY <1>1 DEF IInv, ControlInv
<1>3. signing = "paused"
    BY DEF TypeOK, IInv, QuietWhileSigning
<1>4. pc \notin VerifiedSteps
    <2>1. pc # "idle" => RecordInv(work)
        BY DEF IInv, ControlInv, RecordsInv, Records
    <2> QED
        BY <2>1 DEF IInv, ControlInv, RecordInv, VerifiedSteps
<1> QED
    BY <1>1, <1>2, <1>3, <1>4

\* A logged entry makes its pending key current.
LEMMA InvAppendEntry ==
    ASSUME TypeOK, IInv, NEW e \in received, AppendEntry(e)
    PROVE  IInv'
<1>1. UNCHANGED <<store, local, received, published, used>> /\ e.prev = LogKey
    BY DEF AppendEntry
<1>2. UNCHANGED <<durable, held, work, pc, signing, provider>>
    BY <1>1 DEF local
<1>3. LogKey' = e.new
    <2>1. log \in Seq(Entry) /\ e \in Entry /\ log' = Append(log, e)
        BY DEF TypeOK, AppendEntry
    <2>2. log' # <<>> /\ log'[Len(log')] = e
        BY <2>1
    <2> QED
        BY <2>2 DEF LogKey
<1>4. PICK p \in Provider : e.new \in store[p].pending
    BY <1>1 DEF IInv, EntriesInv
<1>5. EntriesInv'
    BY <1>1, <1>3, <1>4 DEF IInv, EntriesInv
<1>6. LiveKeysHeld'
    <2>1. e.new \in KnownKeys(p)'
        BY <1>1, <1>4, RegistryStable DEF KnownKeys
    <2>2. \A k \in {published} : \E q \in Provider : k \in KnownKeys(q)'
        BY <1>1, RegistryStable DEF IInv, LiveKeysHeld
    <2> QED
        BY <1>1, <1>3, <2>1, <2>2 DEF LiveKeysHeld
<1>7. /\ pc \notin VerifiedSteps /\ signing = "paused" /\ pc \notin ReleaseSteps
      /\ durable # None => ~IsActivated(durable)
    BY <1>1, LogCanMove
<1>8. ControlInv'
    BY <1>1, <1>2, <1>7 DEF IInv, ControlInv, TargetIsActive, ListKeyIds, VerifiedSteps
<1>9. QuietWhileSigning' /\ SigningMatchesIdentity' /\ ActivatedStaysVerified'
    BY <1>2, <1>7 DEF QuietWhileSigning, SigningMatchesIdentity, ActivatedStaysVerified
<1> QED
    BY <1>1, <1>5, <1>6, <1>8, <1>9, RegistryStable DEF IInv

\* Publication names the logged key or, ahead of the log, a pending one.
LEMMA InvPublish ==
    ASSUME TypeOK, IInv, NEW k \in Key, Publish(k)
    PROVE  IInv'
<1>1. /\ UNCHANGED <<store, local, received, log, used>> /\ published' = k
      /\ k = LogKey \/ \E e \in received : e.prev = LogKey /\ e.new = k
    BY DEF Publish
<1>2. UNCHANGED <<durable, held, work, pc, signing, provider>> /\ LogKey' = LogKey
    BY <1>1 DEF local, LogKey
<1>3. EntriesInv'
    BY <1>1, <1>2 DEF IInv, EntriesInv
<1>4. LiveKeysHeld'
    <2>1. \E p \in Provider : LogKey \in KnownKeys(p)
        BY DEF IInv, LiveKeysHeld
    <2>2. \E p \in Provider : k \in KnownKeys(p)
        BY <1>1, <2>1 DEF IInv, EntriesInv, KnownKeys
    <2> QED
        BY <1>1, <1>2, <2>1, <2>2, RegistryStable DEF LiveKeysHeld
<1>5. CASE k = LogKey
    <2>1. ControlInv'
        BY <1>1, <1>2, <1>5 DEF IInv, ControlInv, TargetIsActive, ListKeyIds
    <2>2. QuietWhileSigning' /\ SigningMatchesIdentity' /\ ActivatedStaysVerified'
        BY <1>1, <1>2, <1>5
           DEF IInv, QuietWhileSigning, SigningMatchesIdentity, ActivatedStaysVerified
    <2> QED
        BY <1>1, <1>3, <1>4, <2>1, <2>2, RegistryStable DEF IInv
<1>6. CASE \E e \in received : e.prev = LogKey /\ e.new = k
    <2>1. /\ pc \notin VerifiedSteps /\ signing = "paused" /\ pc \notin ReleaseSteps
          /\ durable # None => ~IsActivated(durable)
        BY <1>6, LogCanMove
    <2>2. ControlInv'
        BY <1>1, <1>2, <2>1 DEF IInv, ControlInv, TargetIsActive, ListKeyIds, VerifiedSteps
    <2>3. QuietWhileSigning' /\ SigningMatchesIdentity' /\ ActivatedStaysVerified'
        BY <1>2, <2>1 DEF QuietWhileSigning, SigningMatchesIdentity, ActivatedStaysVerified
    <2> QED
        BY <1>1, <1>3, <1>4, <2>2, <2>3, RegistryStable DEF IInv
<1> QED
    BY <1>1, <1>5, <1>6

-----------------------------------------------------------------------------
(* The theorems                                                            *)

\* IInv is inductive relative to the types.
LEMMA InvNext == TypeOK /\ IInv /\ [Next]_vars => IInv'
<1> SUFFICES ASSUME TypeOK, IInv, [Next]_vars PROVE IInv'
    OBVIOUS
<1>1. CASE \E dst \in Provider, k \in Key : Rotate(dst, k)
    BY <1>1, InvRotate
<1>2. CASE CallStep
    BY <1>2, InvPrepare, InvPersistRecovery, InvPauseSigning, InvSubmit, InvAnswer,
       InvPersistAnswer, InvVerifyPublication, InvActivateKey, InvSupersedeKey,
       InvPersistActivated, InvResumeSigning, InvPersistCompleted DEF CallStep
<1>3. CASE ResumeSaved
    BY <1>3, InvResume
<1>4. CASE Crash
    BY <1>4, InvCrash
<1>5. CASE AppendSome
    BY <1>5, InvAppendEntry DEF AppendSome
<1>6. CASE \E k \in Key : Publish(k)
    BY <1>6, InvPublish
<1>7. CASE UNCHANGED vars
    <2>1. /\ UNCHANGED <<store, received, log, published, used>>
          /\ UNCHANGED <<durable, held, work, pc, signing, provider>>
        BY <1>7 DEF vars, local, registry
    <2>2. RecordsInv'
        BY <2>1, StoresStable DEF IInv, RecordsInv, Records
    <2>3. ControlInv'
        BY <2>1, StoresStable DEF IInv, ControlInv, TargetIsActive
    <2> QED
        BY <2>1, <2>2, <2>3, StoresStable DEF IInv
<1> QED
    BY <1>1, <1>2, <1>3, <1>4, <1>5, <1>6, <1>7 DEF Next

\* The inductive invariant holds in every behaviour.
LEMMA InvAlways == Spec => [](TypeOK /\ IInv)
    BY TypeInit, TypeNext, InvInit, InvNext, PTL DEF Spec

\* The application signs only with the key that log and JWKS both name.
THEOREM SigningSafe == Spec => []SigningMatchesIdentity
<1>1. IInv => SigningMatchesIdentity
    BY DEF IInv
<1> QED
    BY <1>1, InvAlways, PTL

\* No rotation drops the last copy of the logged or the published key.
THEOREM LiveKeysSafe == Spec => []LiveKeysHeld
<1>1. IInv => LiveKeysHeld
    BY DEF IInv
<1> QED
    BY <1>1, InvAlways, PTL

\* A saved activation stays verified until the next rotation is saved.
THEOREM ActivationSafe == Spec => []ActivatedStaysVerified
<1>1. IInv => ActivatedStaysVerified
    BY DEF IInv
<1> QED
    BY <1>1, InvAlways, PTL

\* Recovery from the saved record passes key validation after any crash.
THEOREM RecoverySafe == Spec => []SavedRecordRecoverable
<1>1. IInv => SavedRecordRecoverable
    BY DEF IInv, RecordsInv, Records, RecordInv, SavedRecordRecoverable
<1> QED
    BY <1>1, InvAlways, PTL

\* Only saved bytes, under a closed gate, are sent to the registry.
THEOREM SubmissionSafe == Spec => SubmitsSavedPausedOnly
<1> DEFINE A == \A e \in received' \ received :
                  signing = "paused" /\ durable # None /\ e = EntryOf(durable)
<1>1. TypeOK /\ IInv /\ [Next]_vars => [A]_vars
    <2> SUFFICES ASSUME TypeOK, IInv, Next, NEW e \in received' \ received
                 PROVE  signing = "paused" /\ durable # None /\ e = EntryOf(durable)
        BY DEF vars
    <2>1. Submit /\ e = EntryOf(work)
        BY DEF Next, CallStep, Rotate, Prepare, PersistRecovery, PauseSigning, Submit, Answer,
               PersistAnswer, VerifyPublication, ActivateKey, SupersedeKey, PersistActivated,
               ResumeSigning, PersistCompleted, ResumeSaved, Resume, Crash, AppendSome,
               AppendEntry, Publish, registry
    <2>2. pc = "submit"
        BY <2>1 DEF Submit
    <2> QED
        BY <2>1, <2>2 DEF IInv, ControlInv, SubmitSteps, FinishSteps, ReleaseSteps
<1> QED
    BY <1>1, InvAlways, PTL DEF Spec, SubmitsSavedPausedOnly
=============================================================================
