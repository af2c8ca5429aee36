----------------------------- MODULE KeyRotation -----------------------------
(***************************************************************************)
(* Managed rotation of the operational (ku) key, as                        *)
(* IdentityManager.rotate_operational_key and resume_key_rotation drive it *)
(* (dnsid/manager.py), over key providers (dnsid/local_key_provider.py),   *)
(* the application's persistence and pause hooks, and a registry that      *)
(* appends the signed KEY_ROTATION entry to a transparency log and         *)
(* publishes the key.                                                      *)
(*                                                                         *)
(* The driver takes one external effect per step: a hook call, a provider  *)
(* mutation, a registry request.  Each may succeed, fail without effect or *)
(* fail after its effect; the process may crash between any two.  The      *)
(* registry is not trusted to answer truthfully unless HonestRegistry      *)
(* says so.                                                                *)
(***************************************************************************)
EXTENDS Naturals, Sequences

CONSTANTS
    Key,            \* operational keys (kid and thumbprint together)
    Provider,       \* key providers, each with its own durable store
    Home,           \* the provider the manager starts with
    InitKey,        \* the operational key logged and published at the start
    None,           \* no key, no saved rotation
    HonestRegistry, \* BOOLEAN: the registry answers truthfully
    RefusesCalls,   \* BOOLEAN: a request may be refused unread (401, 408, 429)
    MaxFaults       \* bound on crashes, failing calls and lost answers

Entry == [prev : Key, new : Key]

\* KeyRotationResult: the entry bytes are the pair of keys they bind; sub is
\* submission.state ("none" before an answer), idx is submission.index, and
\* stage stands for the flags activated and application_signing_paused
\* ("recovering" when not activated, "activated" while still paused,
\* "completed" once signing resumed).
Rotation == [prev : Key, new : Key, src : Provider, dst : Provider,
             sub : {"none", "pending", "accepted", "rejected"}, idx : Nat,
             stage : {"recovering", "activated", "completed"}]

ASSUME ConstantsAssumption ==
    /\ Home \in Provider
    /\ InitKey \in Key
    /\ None \notin Key
    /\ None \notin Rotation
    /\ HonestRegistry \in BOOLEAN
    /\ RefusesCalls \in BOOLEAN
    /\ MaxFaults \in Nat

VARIABLES
    store,      \* each provider's key file: active, retained and pending keys
    provider,   \* IdentityManager._key_provider
    durable,    \* the record the persistence hook last saved
    held,       \* the record the last call returned or raised, lost in a crash
    lastError,  \* "rejected" if the last call raised with that state, or "none"
    signing,    \* the gate the pause hook controls: "open" or "paused"
    pc,         \* the next effect of the running call, "idle" when none runs
    work,       \* that call's own copy of the rotation
    received,   \* entries the registry has been sent
    log,        \* entries of the identity's stream, in log order
    published,  \* the key the live JWKS binds to the identity
    used,       \* keys generated so far
    faults      \* faults that have happened

local == <<durable, held, lastError, signing, pc, work, provider>>
registry == <<received, log, published>>
vars == <<store, local, registry, used, faults>>

EntryOf(r) == [prev |-> r.prev, new |-> r.new]

LogKey == IF log = <<>> THEN InitKey ELSE log[Len(log)].new

IsActivated(r) == r.stage # "recovering"

-----------------------------------------------------------------------------
(* Key providers                                                           *)

\* LocalKeyProvider.list_key_ids: active and retained keys, never pending ones.
ListKeyIds(p) == store[p].retained \cup ({store[p].active} \ {None})

\* LocalKeyProvider.jwk finds active, retained and pending keys.
KnownKeys(p) == ListKeyIds(p) \cup store[p].pending

\* activate: the pending key becomes active, the old active key is retained.
Activated(s, k) ==
    [active   |-> k,
     retained |-> s.retained \cup ({s.active} \ {None}),
     pending  |-> s.pending \ {k}]

\* supersede(kid, allow_active): a retained key is dropped, an active one
\* only when the caller moves signing to another provider.
Superseded(s, k) ==
    [s EXCEPT !.active   = IF s.active = k THEN None ELSE s.active,
              !.retained = s.retained \ {k}]

TargetIsActive(r) == store[r.dst].active = r.new

\* _validate_rotation_keys: the saved record and both key stores agree.
RotationKeysValid(r) ==
    LET accepted == r.sub = "accepted" IN
    /\ r.new \in KnownKeys(r.dst)
    /\ IsActivated(r) => accepted /\ TargetIsActive(r)
    /\ IF r.prev \in ListKeyIds(r.src)
       THEN \/ store[r.src].active = r.prev
            \/ r.src = r.dst /\ accepted /\ TargetIsActive(r)
       ELSE /\ accepted
            /\ TargetIsActive(r)
            /\ r.src # r.dst => store[r.src].active = None

-----------------------------------------------------------------------------
(* Outcomes of one external call                                           *)

Fault == faults < MaxFaults /\ faults' = faults + 1

NoFault == UNCHANGED faults

\* The running call ends, handing record r to its caller.
EndWith(r, error) ==
    /\ pc' = "idle"
    /\ held' = r
    /\ lastError' = error
    /\ work' = None

\* The state a submission that ends the call is reported with.
ErrorOf(state) == IF state = "rejected" THEN "rejected" ELSE "none"

Goto(l) == pc' = l /\ UNCHANGED <<held, lastError>>

\* persist_rotation(r): saved, or raised before or after the save.
Persist(r) == durable' = r

PersistFails(r) == Fault /\ durable' \in {durable, r}

-----------------------------------------------------------------------------
(* rotate_operational_key                                                  *)

\* Callers serialise rotations and start one only when none is in progress.
MayStart ==
    \/ durable = None
    \/ durable # None /\ (durable.stage = "completed" \/ durable.sub = "rejected")
    \/ lastError = "rejected"

\* The call reads the signing key and generates the pending successor.
Rotate(dst, k) ==
    LET prev == store[provider].active IN
    /\ pc = "idle"
    /\ MayStart
    /\ prev # None
    /\ k \notin used
    /\ store' = [store EXCEPT ![dst].pending = @ \cup {k}]
    /\ used' = used \cup {k}
    /\ \/ /\ NoFault
          /\ pc' = "prepare"
          /\ held' = None
          /\ lastError' = "none"
          /\ work' = [prev |-> prev, new |-> k, src |-> provider, dst |-> dst,
                      sub |-> "none", idx |-> 0, stage |-> "recovering"]
       \/ Fault /\ EndWith(None, "none")   \* key file replaced, fsync failed
    /\ UNCHANGED <<durable, signing, provider, registry>>

\* prepare_key_rotation, local signing and the proof of possession.
Prepare ==
    /\ pc = "prepare"
    /\ \/ NoFault /\ Goto("persist_recovery") /\ UNCHANGED work
       \/ Fault /\ EndWith(None, "none")
    /\ UNCHANGED <<store, durable, signing, provider, registry, used>>

\* Mutant: the recovery record is not saved before the submission.
PersistRecoverySkipped ==
    /\ pc = "persist_recovery"
    /\ NoFault /\ Goto("pause")
    /\ UNCHANGED <<store, durable, signing, work, provider, registry, used>>

\* The signed bytes are saved before anything else (also first in a resume).
PersistRecovery ==
    /\ pc = "persist_recovery"
    /\ \/ NoFault /\ Persist(work) /\ Goto("pause") /\ UNCHANGED work
       \/ PersistFails(work) /\ EndWith(work, "none")
    /\ UNCHANGED <<store, signing, provider, registry, used>>

\* Mutant: signing goes on while the submission is in flight.
PauseSigningSkipped ==
    /\ pc = "pause"
    /\ NoFault
    /\ Goto(IF work.sub = "accepted" THEN "publication" ELSE "submit")
    /\ UNCHANGED <<store, durable, signing, work, provider, registry, used>>

PauseSigning ==
    /\ pc = "pause"
    /\ \/ /\ NoFault
          /\ signing' = "paused"
          /\ Goto(IF work.sub = "accepted" THEN "publication" ELSE "submit")
          /\ UNCHANGED work
       \/ Fault /\ signing' \in {signing, "paused"} /\ EndWith(work, "none")
    /\ UNCHANGED <<store, durable, provider, registry, used>>

-----------------------------------------------------------------------------
(* _submit_rotation                                                        *)

Answered(state, i) == [work EXCEPT !.sub = state, !.idx = i]

\* The request leaves the process.  It may never arrive, or be refused
\* unread with a 4xx, which submit_prepared_event reports as "rejected".
Submit ==
    /\ pc = "submit"
    /\ \/ NoFault /\ received' = received \cup {EntryOf(work)}
          /\ Goto("answer") /\ UNCHANGED work
       \/ Fault /\ UNCHANGED received
          /\ Goto("answer") /\ UNCHANGED work
       \/ Fault /\ RefusesCalls /\ UNCHANGED received
          /\ Goto("persist_answer") /\ work' = Answered("rejected", 0)
    /\ UNCHANGED <<store, durable, signing, provider, log, published, used>>

Logged(e, i) == i \in DOMAIN log /\ log[i] = e

IsLogged(e) == \E i \in DOMAIN log : log[i] = e

\* What submit_prepared_event may report.  A transport error is reported as
\* "pending" and any 4xx as "rejected", whatever the registry did with the
\* bytes; "invalid" stands for every answer that fails validation.
MayAnswer(e, state, i) ==
    \/ ~HonestRegistry
    \/ state = "accepted" /\ Logged(e, i)
    \/ state = "pending" /\ ~IsLogged(e)

Answer(state, i) ==
    /\ pc = "answer"
    /\ \/ NoFault /\ MayAnswer(EntryOf(work), state, i)
       \/ Fault /\ state = "pending"
    /\ IF state = "invalid"
       THEN EndWith(work, "rejected")
       ELSE /\ work' = Answered(state, IF state = "accepted" THEN i ELSE 0)
            /\ Goto("persist_answer")
    /\ UNCHANGED <<store, durable, signing, provider, registry, used>>

\* Mutant: the accepted answer is only saved with the activation.
PersistAnswerLate ==
    /\ pc = "persist_answer"
    /\ NoFault
    /\ IF work.sub = "accepted"
       THEN Goto("publication") /\ UNCHANGED <<durable, work>>
       ELSE Persist(work) /\ EndWith(work, ErrorOf(work.sub))
    /\ UNCHANGED <<store, signing, provider, registry, used>>

PersistAnswer ==
    /\ pc = "persist_answer"
    /\ \/ /\ NoFault
          /\ Persist(work)
          /\ IF work.sub = "accepted"
             THEN Goto("publication") /\ UNCHANGED work
             ELSE EndWith(work, ErrorOf(work.sub))
       \/ PersistFails(work) /\ EndWith(work, ErrorOf(work.sub))
    /\ UNCHANGED <<store, signing, provider, registry, used>>

-----------------------------------------------------------------------------
(* _finish_accepted_rotation                                               *)

\* Mutant: the registry's answer is taken for the publication.
PublicationAssumed(r) == r.sub = "accepted"

\* Mutant: only the JWKS is looked at, not the log.
PublicationKeyOnly(r) == published = r.new

\* _rotation_publication: fresh TXT, JWKS and log evidence bind the new key,
\* and the log holds exactly these bytes at the reported index.
PublicationBinds(r) ==
    /\ published = r.new
    /\ LogKey = r.new
    /\ Logged(EntryOf(r), r.idx)

VerifyPublication ==
    /\ pc = "publication"
    /\ \/ NoFault /\ PublicationBinds(work) /\ Goto("activate") /\ UNCHANGED work
       \/ NoFault /\ ~PublicationBinds(work) /\ EndWith(work, "none")
       \/ Fault /\ EndWith(work, "none")
    /\ UNCHANGED <<store, durable, signing, provider, registry, used>>

\* Mutant: activation is not idempotent, a key already active is an error.
ActivateKeyOnce ==
    LET done == [store EXCEPT ![work.dst] = Activated(@, work.new)] IN
    /\ pc = "activate"
    /\ NoFault
    /\ IF RotationKeysValid(work) /\ ~TargetIsActive(work)
       THEN Goto("supersede") /\ UNCHANGED work /\ store' = done
       ELSE EndWith(work, "none") /\ UNCHANGED store
    /\ UNCHANGED <<durable, signing, provider, registry, used>>

\* _reconcile_rotation_keys, first half: validate, then activate once.
\* activate raises unless the key is pending.
ActivateKey ==
    LET valid == RotationKeysValid(work)
        done  == [store EXCEPT ![work.dst] = Activated(@, work.new)]
        ready == valid /\ ~TargetIsActive(work) /\ work.new \in store[work.dst].pending IN
    /\ pc = "activate"
    /\ \/ valid /\ TargetIsActive(work) /\ NoFault
          /\ Goto("supersede") /\ UNCHANGED <<work, store>>
       \/ ready /\ NoFault
          /\ Goto("supersede") /\ UNCHANGED work /\ store' = done
       \/ ready /\ Fault
          /\ EndWith(work, "none") /\ store' \in {store, done}
       \/ ~(valid /\ TargetIsActive(work)) /\ ~ready /\ NoFault
          /\ EndWith(work, "none") /\ UNCHANGED store
    /\ UNCHANGED <<durable, signing, provider, registry, used>>

\* Second half: the previous key leaves the provider that listed it;
\* supersede refuses an active key within one provider.
SupersedeKey ==
    LET listed  == work.prev \in ListKeyIds(work.src)
        done    == [store EXCEPT ![work.src] = Superseded(@, work.prev)]
        allowed == work.src = work.dst => store[work.src].active # work.prev IN
    /\ pc = "supersede"
    /\ \/ ~listed /\ NoFault
          /\ Goto("persist_activated") /\ UNCHANGED <<work, store>>
       \/ listed /\ allowed /\ NoFault
          /\ Goto("persist_activated") /\ UNCHANGED work /\ store' = done
       \/ listed /\ allowed /\ Fault
          /\ EndWith(work, "none") /\ store' \in {store, done}
       \/ listed /\ ~allowed /\ NoFault
          /\ EndWith(work, "none") /\ UNCHANGED store
    /\ UNCHANGED <<durable, signing, provider, registry, used>>

PersistActivated ==
    LET activated == [work EXCEPT !.stage = "activated"] IN
    /\ pc = "persist_activated"
    /\ \/ /\ NoFault /\ Persist(activated) /\ Goto("unpause")
          /\ work' = activated
          /\ provider' = work.dst
       \/ PersistFails(activated) /\ EndWith(work, "none") /\ UNCHANGED provider
    /\ UNCHANGED <<store, signing, registry, used>>

ResumeSigning ==
    /\ pc = "unpause"
    /\ \/ NoFault /\ signing' = "open" /\ Goto("persist_completed") /\ UNCHANGED work
       \/ Fault /\ signing' \in {signing, "open"} /\ EndWith(work, "none")
    /\ UNCHANGED <<store, durable, provider, registry, used>>

PersistCompleted ==
    LET completed == [work EXCEPT !.stage = "completed"] IN
    /\ pc = "persist_completed"
    /\ \/ NoFault /\ Persist(completed) /\ EndWith(completed, "none")
       \/ PersistFails(completed) /\ EndWith(work, "none")
    /\ UNCHANGED <<store, signing, provider, registry, used>>

-----------------------------------------------------------------------------
(* resume_key_rotation                                                     *)

\* An activated record restores the signer without any network work.
ResumeActivated(r) ==
    /\ IsActivated(r)
    /\ provider' = r.dst
    /\ IF r.stage = "activated"
       THEN pc' = "unpause" /\ work' = r /\ held' = None /\ lastError' = "none"
       ELSE EndWith(r, "none")

ResumeRejected(r) ==
    /\ ~IsActivated(r) /\ r.sub = "rejected"
    /\ EndWith(r, "rejected")
    /\ UNCHANGED provider

ResumePrepared(r) ==
    /\ ~IsActivated(r) /\ r.sub # "rejected"
    /\ pc' = "persist_recovery" /\ work' = r /\ held' = None /\ lastError' = "none"
    /\ UNCHANGED provider

\* The caller passes the saved record, or the one the last call handed it.
Resume(r) ==
    /\ pc = "idle"
    /\ r \in {durable, held} \ {None}
    /\ RotationKeysValid(r)
    /\ \/ ResumeActivated(r)
       \/ ResumeRejected(r)
       \/ ResumePrepared(r)
    /\ UNCHANGED <<store, durable, signing, registry, used, faults>>

-----------------------------------------------------------------------------
(* The process and the registry                                            *)

\* A restart opens the saved source provider, or the target once activation
\* is saved.
ReopenedProviders ==
    IF durable = None THEN {provider}
    ELSE {durable.src} \cup {p \in {durable.dst} : IsActivated(durable)}

\* The pause gate is either durable itself or restored from the saved record.
RestoredGate ==
    {signing, IF durable = None THEN signing
              ELSE IF durable.stage = "completed" THEN "open" ELSE "paused"}

\* A crash keeps the key files and the saved record and nothing else.
Crash ==
    /\ Fault
    /\ pc' = "idle" /\ work' = None /\ held' = None /\ lastError' = "none"
    /\ signing' \in RestoredGate
    /\ provider' \in ReopenedProviders
    /\ UNCHANGED <<store, durable, registry, used>>

\* The log takes an entry it received at any earlier time, once, if it
\* continues the current key.
AppendEntry(e) ==
    /\ e \in received
    /\ e.prev = LogKey
    /\ log' = Append(log, e)
    /\ UNCHANGED <<store, local, received, published, used, faults>>

\* The registry publishes the new key before it appends the entry, so the
\* JWKS may run ahead of the log as well as behind it.
Publish(k) ==
    /\ k # published
    /\ k = LogKey \/ \E e \in received : e.prev = LogKey /\ e.new = k
    /\ published' = k
    /\ UNCHANGED <<store, local, received, log, used, faults>>

-----------------------------------------------------------------------------
(* Specification                                                           *)

\* Every other provider starts empty or with an unrelated active key.
Init ==
    /\ \E other \in [Provider \ {Home} -> (Key \ {InitKey}) \cup {None}] :
         /\ \A p, q \in Provider \ {Home} :
              p # q /\ other[p] = other[q] => other[p] = None
         /\ store = [p \in Provider |->
                       [active   |-> IF p = Home THEN InitKey ELSE other[p],
                        retained |-> {}, pending |-> {}]]
         /\ used = ({InitKey} \cup {other[p] : p \in Provider \ {Home}}) \ {None}
    /\ provider = Home
    /\ durable = None /\ held = None /\ lastError = "none" /\ signing = "open"
    /\ pc = "idle" /\ work = None
    /\ received = {} /\ log = <<>> /\ published = InitKey
    /\ faults = 0

SubmissionStates == {"pending", "accepted", "rejected", "invalid"}

\* The steps of the running call, after it has started.
CallStep ==
    \/ Prepare \/ PersistRecovery \/ PauseSigning \/ Submit
    \/ \E state \in SubmissionStates, i \in 0..(Len(log) + 1) : Answer(state, i)
    \/ PersistAnswer \/ VerifyPublication \/ ActivateKey \/ SupersedeKey
    \/ PersistActivated \/ ResumeSigning \/ PersistCompleted

ResumeSaved == \E r \in {durable, held} : Resume(r)

AppendSome == \E e \in received : AppendEntry(e)

Next ==
    \/ \E dst \in Provider, k \in Key : Rotate(dst, k)
    \/ CallStep
    \/ ResumeSaved
    \/ Crash
    \/ AppendSome
    \/ \E k \in Key : Publish(k)

Spec == Init /\ [][Next]_vars

-----------------------------------------------------------------------------
(* Properties                                                              *)

Steps == {"idle", "prepare", "persist_recovery", "pause", "submit", "answer",
          "persist_answer", "publication", "activate", "supersede",
          "persist_activated", "unpause", "persist_completed"}

KeyStore == [active : Key \cup {None}, retained : SUBSET Key, pending : SUBSET Key]

\* Every variable keeps its type; a call that runs has a working copy.
TypeOK ==
    /\ store \in [Provider -> KeyStore]
    /\ provider \in Provider
    /\ durable \in Rotation \cup {None}
    /\ held \in Rotation \cup {None}
    /\ lastError \in {"none", "rejected"}
    /\ signing \in {"open", "paused"}
    /\ pc \in Steps
    /\ work \in Rotation \cup {None}
    /\ pc # "idle" => work # None
    /\ received \subseteq Entry
    /\ log \in Seq(Entry)
    /\ published \in Key
    /\ used \subseteq Key
    /\ faults \in 0..MaxFaults

\* Whenever the application may sign, the key the manager signs with is the
\* key the live JWKS publishes and the log names as current: no crash, lost
\* answer or failing hook lets it sign with a key verifiers no longer accept
\* (the pause boundary of rotate_operational_key and resume_key_rotation).
SigningMatchesIdentity ==
    signing = "open" => /\ store[provider].active \in {None, published}
                        /\ published = LogKey

\* The key the log names and the key the JWKS publishes are always held by
\* some provider: _reconcile_rotation_keys never drops the last private key
\* of the live identity, whichever step a rotation stops at.
LiveKeysHeld ==
    \A k \in {LogKey, published} : \E p \in Provider : k \in KnownKeys(p)

\* A record saved as activated is still verified when it is resumed without
\* network calls: log and JWKS both name its key and no entry that would
\* replace the key is outstanding ("Publication was verified before
\* activation was saved; no network work remains").
ActivatedStaysVerified ==
    durable # None /\ IsActivated(durable) =>
        /\ LogKey = durable.new
        /\ published = durable.new
        /\ \A e \in received : e.prev # durable.new

\* After a crash at any step the saved record passes the key validation of
\* resume_key_rotation, so recovery never needs a replaced store or record.
SavedRecordRecoverable ==
    durable # None => RotationKeysValid(durable)

\* The registry never receives bytes that are not saved, nor any while the
\* application may sign ("persisted before submission, then paused").
SubmitsSavedPausedOnly ==
    [][\A e \in received' \ received :
          signing = "paused" /\ durable # None /\ e = EntryOf(durable)]_vars

\* With a truthful registry, once faults stop, a pause always ends.
SigningResumes == (signing = "paused") ~> (signing = "open")

\* With a truthful registry a saved rotation ends completed.
SavedRotationCompletes ==
    (durable # None) ~> (durable # None /\ durable.stage = "completed")

\* "When activated is False, call resume_key_rotation to retry the exact same
\* bytes": a saved rotation whose entry is in the log can be resumed.
LoggedRotationResumable ==
    durable # None /\ IsLogged(EntryOf(durable)) => durable.sub # "rejected"
=============================================================================
