---------------------------- MODULE StreamLifecycle ----------------------------
(***************************************************************************)
(* The replay of one identity's lifecycle from the entries of a            *)
(* transparency log (dnsid/c2sp_tlog/stream_verifier.py).  Anyone may      *)
(* append entries to the log, so the replay must tell the identity's own   *)
(* events from noise, apply each once however often it was logged, and     *)
(* refuse a history in which the identity's keys signed two continuations. *)
(*                                                                         *)
(* An event is a signed payload; its ID is a hash of the payload without   *)
(* the signatures, so the payload stands for the ID.  An entry is one      *)
(* physical copy: an event and the keys whose signatures the copy carries  *)
(* and which verify.  The log is revealed entry by entry as the replay     *)
(* reads it in index order.                                                *)
(***************************************************************************)
EXTENDS DomainLog

CONSTANTS
    Event,      \* event payloads addressed to the identity, and noise
    Key,        \* public keys
    Prior,      \* what verifying the predecessor of a MIGRATION yields
    Plan,       \* by name: what may be replayed, and with which options
    Now,        \* checkpoint_integration_time_ms
    MaxLog,     \* bound on the entries of the log
    None

\* Fields of a payload: type; the entity key of an ISSUANCE or the previous
\* key of a KEY_ROTATION; the new operational key of either; the event it
\* follows (None if absent); whether its sequence number and state hash are
\* those that follow from that event, or wrong or unreadable; its timestamp;
\* and whether it can be parsed at all ("noise" is not for
\* this identity, "malformed" fails the full parse, "invalid" carries
\* metadata that verify_lifecycle refuses).
Type == {"ISSUANCE", "KEY_ROTATION", "REVOCATION", "RETIREMENT",
         "DELEGATION", "MIGRATION"}

Payload == [type : Type, key : Key, new : Key, prev : Event \cup {None},
            link : {"right", "wrong"}, time : Nat,
            form : {"event", "noise", "malformed", "invalid"}]

\* An entry is a copy of an event.  A plan has the entries that may be logged, the
\* trusted key (StreamVerifierOptions.signer_key, or None), the keys whose holders
\* sign only what continues the history, and whether migrations are "resolved", or
\* "refused" for want of verify_migration.
Entry == [event : Event, sigs : SUBSET Key]
Plans == [entries : SUBSET Entry, trusted : Key \cup {None}, honest : SUBSET Key,
          migrations : {"resolved", "refused"}]

\* What the constants must be.  Where keys are in honest hands, the verifier trusts
\* one of them and reads predecessors.
ASSUME EventAssumption ==
    /\ Event \subseteq Payload
    /\ None \notin Event \cup Key
    /\ Prior \in [Event -> [entity : Key, operational : Key] \cup {None}]
    /\ None \notin [entity : Key, operational : Key]
    /\ \A p \in DOMAIN Plan :
          /\ Plan[p] \in Plans
          /\ Plan[p].honest # {} =>
                Plan[p].trusted \in Plan[p].honest /\ Plan[p].migrations = "resolved"
    /\ Now \in Nat /\ MaxLog \in Nat

VARIABLES
    part,     \* the name of the plan: given, not changed
    log,      \* the entries read so far, in index order
    selected, \* the applied events, in order
    index,    \* the log position each was applied from
    post,     \* post_keys: the operational key after each applied event
    entity,   \* the entity key established by the first
    status,   \* the identity's state after the applied events
    result,   \* "reading", "fatal", "verified" or "missing"
    vouched   \* history: events the honest keys have signed

vars == <<part, log, selected, index, post, entity, status, result, vouched>>

Init ==
    /\ part \in DOMAIN Plan
    /\ log = <<>>
    /\ selected = <<>>
    /\ index = <<>>
    /\ post = <<>>
    /\ entity = None
    /\ status = "none"
    /\ result = "reading"
    /\ vouched = {}

Options == Plan[part]

-----------------------------------------------------------------------------

Applied == {selected[i] : i \in DOMAIN selected}

Last(s) == s[Len(s)]

\* Authority for a candidate: the state after the event it names, if that
\* was applied, else the latest state.
Authority(e) ==
    IF e.prev \in Applied
    THEN CHOOSE i \in DOMAIN selected : selected[i] = e.prev
    ELSE Len(selected)

\* A trusted entity key, when there is one, must be the one established.
Pinned(k) == Options.trusted \in {None, k}

\* The key that must have signed an inbound MIGRATION.
MigrationSigner(e) == IF Options.trusted = None THEN Prior[e].entity ELSE Options.trusted

\* _candidate_is_authenticated with nothing applied yet.
GenesisAuthenticated(e, sigs) ==
    IF e.type = "ISSUANCE" THEN Pinned(e.key) /\ {e.key, e.new} \subseteq sigs
    ELSE MigrationSigner(e) \in sigs

\* Mutant: authority is always the latest state.
AuthenticatedLatest(e, sigs) ==
    IF selected = <<>> THEN GenesisAuthenticated(e, sigs)
    ELSE IF e.type = "ISSUANCE" THEN e.key = entity /\ {entity, e.new} \subseteq sigs
    ELSE IF e.type = "KEY_ROTATION" THEN {Last(post), e.new} \subseteq sigs
    ELSE entity \in sigs

\* Every signer role of the candidate is filled, under its authority.
Authenticated(e, sigs) ==
    IF selected = <<>> THEN GenesisAuthenticated(e, sigs)
    ELSE IF e.type = "ISSUANCE" THEN e.key = entity /\ {entity, e.new} \subseteq sigs
    ELSE IF e.type = "KEY_ROTATION" THEN {post[Authority(e)], e.new} \subseteq sigs
    ELSE entity \in sigs

\* A payload that cannot be parsed is evidence against the history only if
\* the identity's keys signed it.
MalformedAuthenticated(e, sigs) ==
    (selected = <<>> => e.type = "ISSUANCE") /\ Authenticated(e, sigs)

-----------------------------------------------------------------------------

\* The keys an accepted first event establishes.
Established(e) ==
    IF e.type = "ISSUANCE" THEN [entity |-> e.key, operational |-> e.new]
    ELSE Prior[e]

\* verify_lifecycle on a first event whose signatures are in place.
ValidGenesis(e) ==
    /\ e.prev = None /\ e.link = "right"
    /\ Established(e).entity # Established(e).operational
    /\ Pinned(Established(e).entity)

\* Mutant: a terminal state does not end the history.
ValidNextAnyState(e) ==
    /\ e.type \notin {"ISSUANCE", "MIGRATION"}
    /\ e.prev = Last(selected) /\ e.link = "right"
    /\ e.type = "KEY_ROTATION" =>
          e.key = Last(post) /\ e.new \notin {Last(post), entity}

\* verify_lifecycle on the event that would extend the applied ones.
ValidNext(e) ==
    /\ status = "ACTIVE"
    /\ e.type \notin {"ISSUANCE", "MIGRATION"}
    /\ e.prev = Last(selected) /\ e.link = "right"
    /\ e.type = "KEY_ROTATION" =>
          e.key = Last(post) /\ e.new \notin {Last(post), entity}

Valid(e) ==
    /\ e.form = "event"
    /\ e.time <= Now
    /\ IF selected = <<>> THEN ValidGenesis(e) ELSE ValidNext(e)

\* _applied_keys: the operational key after an accepted event.
OperationalAfter(e) ==
    IF selected = <<>> THEN Established(e).operational
    ELSE IF e.type = "KEY_ROTATION" THEN e.new
    ELSE Last(post)

\* _next_state: a delegation leaves the state alone.
StatusAfter(e) ==
    IF e.type = "REVOCATION" THEN "REVOKED"
    ELSE IF e.type = "RETIREMENT" THEN "RETIRED"
    ELSE "ACTIVE"

Skip == UNCHANGED <<selected, index, post, entity, status, result>>

Fatal == result' = "fatal" /\ UNCHANGED <<selected, index, post, entity, status>>

Apply(e) ==
    /\ selected' = Append(selected, e)
    /\ index' = Append(index, Len(log) + 1)
    /\ post' = Append(post, OperationalAfter(e))
    /\ entity' = IF selected = <<>> THEN Established(e).entity ELSE entity
    /\ status' = StatusAfter(e)
    /\ UNCHANGED result

\* Reading the predecessor log comes first, so that failing to verify it is
\* fatal, but is not tried for a MIGRATION the trusted key did not sign.
PriorFails(e, sigs) ==
    /\ selected = <<>> /\ e.type = "MIGRATION"
    /\ \/ Options.migrations = "refused"
       \/ (Options.trusted = None \/ Options.trusted \in sigs) /\ Prior[e] = None

\* One iteration of _verify_stream_lifecycle_steps.
Read(e, sigs) ==
    IF e.form = "noise" \/ e \in Applied THEN Skip
    ELSE IF e.form = "malformed"
         THEN IF MalformedAuthenticated(e, sigs) THEN Fatal ELSE Skip
    ELSE IF selected = <<>> /\ e.type \notin {"ISSUANCE", "MIGRATION"} THEN Skip
    ELSE IF PriorFails(e, sigs) THEN Fatal
    ELSE IF ~Authenticated(e, sigs) THEN Skip
    ELSE IF Valid(e) THEN Apply(e)
    ELSE Fatal

\* The next entry of the log.  An honest key's signature is found only on
\* what its holder signed.
AppendEntry(entry) ==
    /\ result = "reading"
    /\ Len(log) < MaxLog
    /\ entry.sigs \cap Options.honest = {} \/ entry.event \in vouched
    /\ log' = Append(log, entry)
    /\ Read(entry.event, entry.sigs)
    /\ UNCHANGED <<part, vouched>>

\* The holders of the honest keys sign one continuation of what is logged,
\* and no other before it is logged itself.
Vouch(e) ==
    /\ result = "reading"
    /\ Options.honest # {}
    /\ vouched \subseteq Applied
    /\ selected = <<>> => e.type = "ISSUANCE"
    /\ Valid(e)
    /\ e.type \in {"ISSUANCE", "KEY_ROTATION"} => e.new \in Options.honest
    /\ vouched' = vouched \cup {e}
    /\ UNCHANGED <<part, log, selected, index, post, entity, status, result>>

\* The end of the entries: an identity must have been established.
Finish ==
    /\ result = "reading"
    /\ result' = IF selected = <<>> THEN "missing" ELSE "verified"
    /\ UNCHANGED <<part, log, selected, index, post, entity, status, vouched>>

\* verify_occurrence: a copy of an applied event that carries its signatures.
Occurrence(entry) ==
    /\ entry.event \in Applied
    /\ IF entry.event = selected[1] THEN GenesisAuthenticated(entry.event, entry.sigs)
       ELSE Authenticated(entry.event, entry.sigs)

\* The end of the entries at a migration's cutoff, the last entry read: it
\* must be a signed copy of the final event.
FinishAtCutoff ==
    /\ result = "reading"
    /\ log # <<>>
    /\ IF selected # <<>> /\ Occurrence(Last(log)) /\ Last(log).event = Last(selected)
       THEN /\ result' = "verified"
            /\ index' = [index EXCEPT ![Len(index)] = Len(log)]
       ELSE result' = "missing" /\ UNCHANGED index
    /\ UNCHANGED <<part, log, selected, post, entity, status, vouched>>

Next ==
    \/ \E entry \in Options.entries : AppendEntry(entry)
    \/ \E e \in {entry.event : entry \in Options.entries} : Vouch(e)
    \/ Finish
    \/ FinishAtCutoff

Spec == Init /\ [][Next]_vars

-----------------------------------------------------------------------------

TypeOK ==
    /\ part \in DOMAIN Plan /\ log \in Seq(Entry) /\ Len(log) <= MaxLog
    /\ selected \in Seq(Event)
    /\ index \in Seq(1..MaxLog) /\ Len(index) = Len(selected)
    /\ post \in Seq(Key) /\ Len(post) = Len(selected)
    /\ entity \in Key \cup {None}
    /\ status \in {"none", "ACTIVE", "REVOKED", "RETIRED"}
    /\ result \in {"reading", "fatal", "verified", "missing"}
    /\ vouched \subseteq Event

\* The signatures event e needs in the state after the i-th applied event,
\* and in no state if i is 0.
Signers(e, i) ==
    IF e.type = "ISSUANCE" THEN {e.key, e.new}
    ELSE IF e.type = "KEY_ROTATION" THEN {IF i = 0 THEN e.key ELSE post[i], e.new}
    ELSE {entity}

\* Every applied event is backed by an entry of the log with all the
\* signatures it needs under the keys in force when it was applied: nobody
\* else can extend an identity's history, and a new operational key has
\* proved its possession (_candidate_is_authenticated).
HistorySigned ==
    \A i \in DOMAIN selected : \E j \in DOMAIN log :
        /\ log[j].event = selected[i]
        /\ Signers(selected[i], i - 1) \subseteq log[j].sigs

\* A log in which the identity's keys signed a second continuation of an
\* event that was already applied is refused, whatever came in between: the
\* replay never picks one of two branches (verify_stream_lifecycle,
\* "Authenticated forks or invalid transitions are fatal").
NoForkAccepted ==
    result # "fatal" =>
        \A i \in DOMAIN selected, j \in DOMAIN log :
            LET e == log[j].event
            IN  /\ index[i] < j /\ e.prev = selected[i]
                /\ e.form # "noise"
                /\ e.type = "ISSUANCE" => e.key = entity
                /\ Signers(e, i) \subseteq log[j].sigs
                => e \in Applied

\* Whatever others append, and however often and with whichever signatures
\* entries are copied, the history of an identity whose keys sign one
\* continuation at a time stays readable.
NoiseHarmless == Options.honest # {} => result # "fatal"

\* What the replay yields is a legal history of one identity.
Lifecycle == INSTANCE IdentityLifecycle
    WITH trusted <- Options.trusted, operational <- IF post = <<>> THEN None ELSE Last(post)

\* snapshot_at computes, in another module and from the events alone, the
\* state that the replay went through at the requested time, and refuses a
\* time that does not cut the history into a prefix and a rest.
SnapshotMatchesReplay ==
    (selected # <<>> /\ selected[1].type = "ISSUANCE") =>
        \A at \in 0..Now :
            LET in == {i \in DOMAIN selected : selected[i].time <= at}
                n == Cardinality(in)
                snap == SnapshotAt(selected, at)
            IN  IF n = 0 \/ in # 1..n THEN snap.state = "error"
                ELSE /\ snap.state = StatusAfter(selected[n])
                     /\ snap.active = post[n]

\* The reader's three checks together accept a record exactly when its keys
\* are the entity key and the active operational key of a live identity.
RecordAcceptedIffActive ==
    (selected # <<>> /\ selected[1].type = "ISSUANCE") =>
        \A ek, ku \in Key :
            (/\ BilateralBinding(selected, ek, ku)
             /\ OperationalContinuity(selected, InitialKey(selected), ku)
             /\ NonRevocation(selected, Now))
            <=> status = "ACTIVE" /\ ek = entity /\ ku = Last(post)

\* The age of a key counts from its first use, in the order of the history:
\* rotating it out and back in does not make it younger (key_timestamp, which
\* _check_key_age measures a record's key against).
KeyAgeFromFirstUse ==
    (selected # <<>> /\ selected[1].type = "ISSUANCE") =>
        \A i \in DOMAIN post :
            LET first == Min({j \in DOMAIN post : post[j] = post[i]})
            IN  KeyTimestamp(selected, post[i]) = selected[first].time

===============================================================================
