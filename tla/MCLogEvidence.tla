----------------------------- MODULE MCLogEvidence -----------------------------
(***************************************************************************)
(* The reading of a transparency log, in small instances: `part` says      *)
(* which of them a behaviour is about, and the variables of the others     *)
(* stay <<>>.  What is replayed, read and verified in each part is a plan. *)
(*   "forks"     replay of branches, wrong links, events from the future   *)
(*   "noise"     replay of what others log about an honest identity        *)
(*   "handover"  replay of a stream that begins with a migration           *)
(*   "chain"     three logs read by one reader, every stream over them     *)
(*   "others"    the same, partly served by other readers                  *)
(*   "record"    the verification of a record while the world moves on     *)
(*   "users"     two users of one reader, on a thread and on an event loop *)
(* The theorems of LogEvidenceProofs hold for any events, keys and plans.  *)
(***************************************************************************)
EXTENDS StreamLifecycle, TLC

CONSTANTS
    Log, RecordLog, Streams, MaxDepth, MaxEvents, MaxBytes,  \* LogMigration
    CertEnd, MaxTime, MaxEntries,                            \* IdentityEvidence
    ChainPlan, EvidencePlan,                                 \* of each part
    ek, k1, k2, other, la, lb, lc, i1, i2, u1, u2

VARIABLES
    stream, external, stack, budget, prior, answer,
    now, idLog, height, ku, su, withdrawn, trust, cache, idEntity, load, step, dnsAt, fetched,
    idStatus, boundAt, begun, used, granted

chainVars == <<stream, external, stack, budget, prior, answer>>
recordVars == <<now, idLog, height, ku, su, withdrawn, trust, cache, idEntity, load, step, dnsAt,
                fetched, idStatus, boundAt, begun, used, granted>>

ReplayPart == DOMAIN Plan
ChainPart == DOMAIN ChainPlan
EvidencePart == DOMAIN EvidencePlan

Reader == INSTANCE LogReaderProofs WITH
    chainPlan <- ChainPlan[part], plan <- EvidencePlan[part], MaxLog <- MaxEntries,
    log <- idLog, entity <- idEntity, status <- idStatus

ASSUME PlansAssumption ==
    /\ ReplayPart \cap ChainPart = {}
    /\ EvidencePart \cap (ReplayPart \cup ChainPart) = {}
    /\ Reader!MigrationAssumption
    /\ \A p \in ChainPart : Reader!IsChainPlan(ChainPlan[p])
    /\ Reader!EvidenceAssumption
    /\ \A p \in EvidencePart : Reader!IsPlan(EvidencePlan[p])

-----------------------------------------------------------------------------

MCInit ==
    /\ part \in ReplayPart \cup ChainPart \cup EvidencePart
    /\ IF part \in ReplayPart THEN Init
       ELSE /\ log = <<>> /\ selected = <<>> /\ index = <<>> /\ post = <<>>
            /\ entity = <<>> /\ status = <<>> /\ result = <<>> /\ vouched = <<>>
    /\ IF part \in ChainPart THEN Reader!ChainInit
       ELSE /\ stream = <<>> /\ external = <<>> /\ stack = <<>>
            /\ budget = <<>> /\ prior = <<>> /\ answer = <<>>
    /\ IF part \in EvidencePart THEN Reader!Init
       ELSE /\ now = <<>> /\ idLog = <<>> /\ height = <<>> /\ ku = <<>> /\ su = <<>>
            /\ withdrawn = <<>> /\ trust = <<>> /\ cache = <<>> /\ idEntity = <<>>
            /\ load = <<>> /\ step = <<>> /\ dnsAt = <<>> /\ fetched = <<>>
            /\ idStatus = <<>> /\ boundAt = <<>> /\ begun = <<>> /\ used = <<>>
            /\ granted = <<>>

MCNext ==
    /\ UNCHANGED part
    /\ \/ part \in ReplayPart /\ Next /\ UNCHANGED <<chainVars, recordVars>>
       \/ part \in ChainPart /\ Reader!ChainNext /\ UNCHANGED <<vars, recordVars>>
       \/ part \in EvidencePart /\ Reader!Next /\ UNCHANGED <<vars, chainVars>>

allVars == <<vars, chainVars, recordVars>>
MCSpec == MCInit /\ [][MCNext]_allVars

-----------------------------------------------------------------------------

\* Every applied event is backed by an entry of the log with all the signatures
\* it needs under the keys in force when it was applied: nobody else can extend
\* an identity's history, and a new operational key has proved its possession
\* (_candidate_is_authenticated).  A log in which the identity's keys signed a
\* second continuation of an applied event is refused, whatever came in between
\* ("Authenticated forks or invalid transitions are fatal"); but whatever others
\* append, and however entries are copied, the history of an identity whose keys
\* sign one continuation at a time stays readable (verify_stream_lifecycle).
ReplaySound == part \in ReplayPart => TypeOK /\ HistorySigned /\ NoForkAccepted /\ NoiseHarmless

\* snapshot_at computes, in another module and from the events alone, the state
\* that the replay went through at the requested time; the reader's three checks
\* together accept a record exactly when its keys are the entity key and the
\* active operational key of a live identity; and rotating a key out and back in
\* does not make it younger (key_timestamp).
SnapshotSound ==
    part \in ReplayPart => SnapshotMatchesReplay /\ RecordAcceptedIffActive /\ KeyAgeFromFirstUse

\* What the replay yields is a legal history of one identity, also when it
\* begins with a migration (verify_stream_lifecycle).
RefinesLifecycle ==
    /\ part \in ReplayPart => Lifecycle!Init
    /\ [][(part \in ReplayPart) => [Lifecycle!Next]_(Lifecycle!lifecycleVars)]_allVars

\* An accepted history is one chain from the identity's issuance to the stream
\* of the record, cut exactly where each migration signs, and every valid chain
\* within the limits is accepted (_verify_prior_history).  Also when other
\* readers supply part of it, each migration leads from one log to the next and
\* hands over a living identity (_validate_predecessor_history), and the whole
\* stays within the configured depth, events and bytes (_MigrationBudget).
MigrationSound ==
    part \in ChainPart =>
        /\ Reader!ChainTypeOK
        /\ Reader!AcceptedIsChain /\ Reader!ValidChainAccepted
        /\ Reader!AcceptedHandsOver /\ Reader!WithinLimits

\* The key of an accepted domain was the active key of a living identity, in a
\* log no older than the one this process trusted when the verification began
\* (_verify_identity_evidence, _load_complete_history), and its record was still
\* published less than its TTL ago, however long the rest of the verification
\* took (dns_acquired_at).  A granted non-revocation check has seen everything
\* that was logged up to the freshness bound before it, whatever other users of
\* the reader loaded, evicted or cached meanwhile (verify_non_revocation).
EvidenceSound ==
    /\ [](part \in EvidencePart => /\ Reader!TypeOK
                                   /\ Reader!AcceptedKeyWasActive
                                   /\ Reader!RevocationSeenInTime)
    /\ [][(part \in EvidencePart) => Reader!AcceptsPublishedRecord]_allVars

-----------------------------------------------------------------------------
(* Replay.                                                                 *)

\* A payload that is otherwise in order.
P(type, key, new, prev, time) ==
    [type |-> type, key |-> key, new |-> new, prev |-> prev, link |-> "right",
     time |-> time, form |-> "event"]

\* An ISSUANCE, its rotation back and forth, and what may follow each.
Issue == P("ISSUANCE", ek, k1, None, 1)
Rotation1(t) == P("KEY_ROTATION", k1, k2, Issue, t)
Rotation2 == P("KEY_ROTATION", k2, k1, Rotation1(2), 2)
Handover(t) == P("MIGRATION", ek, ek, None, t)
Enders(prev) == {P("REVOCATION", ek, ek, prev, 2), P("DELEGATION", ek, ek, prev, 1)}

\* Copies of an event: signed for every role, under each previous key, and
\* with a role left out.
Copies(e, keys) ==
    {[event |-> e, sigs |-> s] :
        s \in CASE e.type = "ISSUANCE" -> {{e.key, e.new}, {e.key}}
               [] e.type = "KEY_ROTATION" -> {{k, e.new} : k \in keys \ {ek}}
                       \cup IF e.key = k1 /\ e.new = k2 THEN {{e.key}} ELSE {}
               [] OTHER -> {{ek}} \cup IF e.prev \in {None, Issue, Handover(1)} THEN {{}} ELSE {}}

OwnKeys == {ek, k1, k2}
AllKeys == {ek, k1, k2, other}

\* Branches, wrong links, an event from the future, other issuances.
ForkEvents ==
    {Issue, P("ISSUANCE", ek, k2, None, 1), Rotation1(2), Rotation2,
     P("RETIREMENT", ek, ek, Issue, 3),
     P("RETIREMENT", ek, ek, P("REVOCATION", ek, ek, Issue, 2), 2),
     P("KEY_ROTATION", k1, ek, Issue, 2),
     [Rotation2 EXCEPT !.link = "wrong"]}
    \cup Enders(Issue) \cup {P("REVOCATION", ek, ek, Rotation1(2), 1)}
ForkEntries == UNION {Copies(e, OwnKeys) : e \in ForkEvents}

\* What an honest identity logs, and what others may log about it.
NoiseEvents ==
    {Issue, Rotation1(2), Rotation2,
     P("ISSUANCE", other, other, None, 1), P("ISSUANCE", ek, other, None, 1),
     P("MIGRATION", other, other, None, 1),
     P("KEY_ROTATION", k1, other, Issue, 1),
     P("KEY_ROTATION", other, other, Issue, 1),
     [P("KEY_ROTATION", k1, other, Issue, 1) EXCEPT !.form = "malformed"],
     P("REVOCATION", ek, ek, Rotation1(2), 2)}
NoiseEntries == UNION {Copies(e, AllKeys) : e \in NoiseEvents}

\* Verified predecessors: none, except for one of two handovers.
HandoverEvents ==
    {Handover(1), Handover(2), [Handover(1) EXCEPT !.form = "invalid"],
     P("KEY_ROTATION", k1, k2, Handover(1), 2),
     P("REVOCATION", ek, ek, Handover(1), 2),
     P("RETIREMENT", ek, ek, P("REVOCATION", ek, ek, Handover(1), 2), 2),
     [P("REVOCATION", ek, ek, Handover(1), 1) EXCEPT !.form = "malformed"],
     [P("ISSUANCE", ek, k1, None, 1) EXCEPT !.form = "noise"]}
HandoverEntries == UNION {Copies(e, OwnKeys) : e \in HandoverEvents}

AllEvents == ForkEvents \cup NoiseEvents \cup HandoverEvents
Predecessors ==
    [e \in AllEvents |-> IF e = Handover(1) THEN [entity |-> ek, operational |-> k1] ELSE None]
Replays ==
    LET plan(entries, trusted, honest) ==
            [entries |-> entries, trusted |-> trusted, honest |-> honest,
             migrations |-> "resolved"]
    IN  [forks |-> plan(ForkEntries, ek, {}), noise |-> plan(NoiseEntries, ek, OwnKeys),
         handover |-> plan(HandoverEntries, None, {})]

-----------------------------------------------------------------------------
(* Chains of logs: every stream of one or two events.                      *)

Logs == {la, lb, lc}
Issued(k) == [type |-> "ISSUANCE", entity |-> k]
Migrate(p, n, l) == [type |-> "MIGRATION", prev |-> p, cut |-> n, new |-> l]
Firsts(l) ==
    {Issued("trusted"), Issued("other")}
        \cup {Migrate(p, n, l) : p \in Logs, n \in {1, 2}}
        \cup IF l = lc THEN {} ELSE {Migrate(lc, 1, IF l = la THEN lb ELSE la), Migrate(lc, 0, l)}
Rests == {<<>>, <<[type |-> "ROTATION"]>>, <<[type |-> "REVOCATION"]>>}
StreamsOf(l) == {<<f>> \o r : f \in Firsts(l), r \in Rests}
AllStreams ==
    {(la :> x) @@ (lb :> y) @@ (lc :> z) :
        x \in StreamsOf(la), y \in StreamsOf(lb), z \in StreamsOf(lc)}

Chains ==
    [chain |-> [externals |-> {{}}, cutoffs |-> {0}],
     others |-> [externals |-> {{lb}, {lc}, {lb, lc}}, cutoffs |-> {1}]]

-----------------------------------------------------------------------------
(* Verification of a record, and users of its reader.                      *)

Records ==
    [record |-> [keys |-> {i1, i2}, threads |-> {}, tasks |-> {}, ttl |-> 2, maxAge |-> 2,
                 fresh |-> 1, life |-> 1, dnssec |-> "OFF"],
     users |-> [keys |-> {k1}, threads |-> {u1}, tasks |-> {u2}, ttl |-> 0, maxAge |-> 0,
                fresh |-> 0, life |-> 0, dnssec |-> "VALIDATED"]]

KeySymmetry == Permutations({i1, i2})

===============================================================================
