--------------------------- MODULE LogEvidenceProofs ---------------------------
(***************************************************************************)
(* Proofs about the reading of a transparency log, for any events, keys,   *)
(* logs, verifier options, users and limits: the replay of an identity's   *)
(* lifecycle (StreamLifecycle) is sound and implements IdentityLifecycle,  *)
(* and with the lemmas of LogReaderProofs a migrated history is one chain, *)
(* and an accepted record and a granted non-revocation check are as the    *)
(* log and the documents were.                                             *)
(***************************************************************************)
EXTENDS MCLogEvidence, SequenceTheorems, TLAPS

-----------------------------------------------------------------------------
(* verify_stream_lifecycle                                                 *)

\* Each event is applied once, from an entry that was read, and the keys are
\* known exactly from the first of them on.
Ordered ==
    /\ \A i, j \in DOMAIN selected : selected[i] = selected[j] => i = j
    /\ \A i \in DOMAIN index : index[i] <= Len(log)
    /\ selected = <<>> <=> status = "none"
    /\ selected = <<>> => entity = None
    /\ selected # <<>> => entity \in Key

\* Where keys are in honest hands: they are the identity's keys, and of what they
\* signed at most one event is not applied yet, the one that comes next.
Outstanding == vouched \ Applied
InHonestHands ==
    Options.honest # {} =>
        /\ result # "fatal"
        /\ selected # <<>> => entity = Options.trusted
        /\ \A i \in DOMAIN post : post[i] \in Options.honest
        /\ \A e, f \in Outstanding : e = f
        /\ \A e \in Outstanding :
              /\ Valid(e)
              /\ e.type \in {"ISSUANCE", "KEY_ROTATION"} => e.new \in Options.honest
              /\ selected = <<>> => e.type = "ISSUANCE"

ReplayInv == TypeOK /\ Ordered /\ HistorySigned /\ NoForkAccepted /\ InHonestHands

\* The fields of an event, and what its predecessor yields.
LEMMA EventTyped ==
    ASSUME NEW e \in Event
    PROVE  /\ e.key \in Key /\ e.new \in Key /\ e.type \in Type
           /\ Prior[e] # None => Prior[e].entity \in Key /\ Prior[e].operational \in Key
<1>1. e \in Payload
  BY Zenon, EventAssumption DEF EventAssumption
<1>2. e.key \in Key /\ e.new \in Key /\ e.type \in Type
  BY Zenon, <1>1 DEF Payload
<1>3. Prior[e] \in [entity : Key, operational : Key] \cup {None}
  BY Zenon, EventAssumption DEF EventAssumption
<1> QED
  BY Zenon, <1>2, <1>3

\* The options of a plan.
LEMMA OptionsTyped ==
    ASSUME part \in DOMAIN Plan
    PROVE  /\ Options \in Plans
           /\ Options.entries \subseteq Entry
           /\ Options.trusted \in Key \cup {None}
           /\ Options.honest \subseteq Key
           /\ Options.honest # {} =>
                /\ Options.trusted \in Options.honest /\ Options.trusted # None
                /\ Options.migrations = "resolved"
<1>1. /\ Options \in Plans
      /\ Options.honest # {} =>
           Options.trusted \in Options.honest /\ Options.migrations = "resolved"
  BY Zenon, EventAssumption DEF EventAssumption, Options
<1>2. /\ Options.entries \subseteq Entry /\ Options.trusted \in Key \cup {None}
      /\ Options.honest \subseteq Key
  BY Zenon, <1>1 DEF Plans
<1>3. None \notin Key
  BY Zenon, EventAssumption DEF EventAssumption
<1> QED
  BY Zenon, <1>1, <1>2, <1>3

\* The authority for an event that follows an applied one is the state after that.
LEMMA AuthorityUnique ==
    ASSUME Ordered, NEW e, NEW i \in DOMAIN selected, e.prev = selected[i]
    PROVE  Authority(e) = i
<1> DEFINE c == CHOOSE x \in DOMAIN selected : selected[x] = e.prev
<1>1. c \in DOMAIN selected /\ selected[c] = e.prev
  BY Zenon
<1>2. Authority(e) = c
  BY Zenon DEF Authority, Applied
<1>3. c = i
  BY Zenon, <1>1 DEF Ordered
<1> QED
  BY Zenon, <1>2, <1>3

\* The authority for a candidate is an applied event.
LEMMA AuthorityIn ==
    ASSUME TypeOK, selected # <<>>, NEW e
    PROVE  Authority(e) \in DOMAIN selected
<1>1. CASE e.prev \in Applied
  <2> DEFINE c == CHOOSE x \in DOMAIN selected : selected[x] = e.prev
  <2>1. c \in DOMAIN selected
    BY Zenon, <1>1 DEF Applied
  <2> QED
    BY Zenon, <1>1, <2>1 DEF Authority
<1>2. CASE e.prev \notin Applied
  <2>1. selected \in Seq(Event) /\ Len(selected) \in DOMAIN selected
    BY DEF TypeOK
  <2> QED
    BY Zenon, <1>2, <2>1 DEF Authority
<1> QED
  BY Zenon, <1>1, <1>2

\* Nothing is read yet.
LEMMA InitReplayInv == Init => ReplayInv
<1> SUFFICES ASSUME Init PROVE ReplayInv
  BY Zenon
<1>1. TypeOK
  BY EventAssumption DEF Init, TypeOK, EventAssumption
<1>2. Ordered /\ HistorySigned /\ NoForkAccepted /\ InHonestHands
  BY DEF Init, Ordered, HistorySigned, NoForkAccepted, InHonestHands, Outstanding, Applied
<1> QED
  BY Zenon, <1>1, <1>2 DEF ReplayInv

\* The three ways in which an entry is read, and when each is taken.
LEMMA ReadCases ==
    ASSUME NEW e, NEW sigs, Read(e, sigs)
    PROVE  \/ /\ Skip
              /\ \/ e.form = "noise" \/ e \in Applied
                 \/ e.form = "malformed" /\ ~MalformedAuthenticated(e, sigs)
                 \/ selected = <<>> /\ e.type \notin {"ISSUANCE", "MIGRATION"}
                 \/ ~Authenticated(e, sigs)
           \/ /\ Fatal /\ e \notin Applied
              /\ \/ e.form = "malformed" /\ MalformedAuthenticated(e, sigs)
                 \/ PriorFails(e, sigs)
                 \/ /\ Authenticated(e, sigs) /\ ~Valid(e)
                    /\ selected = <<>> => e.type \in {"ISSUANCE", "MIGRATION"}
           \/ /\ Apply(e) /\ e \notin Applied
              /\ Authenticated(e, sigs) /\ Valid(e) /\ ~PriorFails(e, sigs)
              /\ selected = <<>> => e.type \in {"ISSUANCE", "MIGRATION"}
<1> QED
  BY Zenon DEF Read

\* The first applied event establishes a pinned entity key and a separate
\* operational key, and is signed with the entity key.
LEMMA GenesisEstablishes ==
    ASSUME TypeOK, NEW e \in Event, NEW sigs, selected = <<>>,
           Authenticated(e, sigs), Valid(e), ~PriorFails(e, sigs),
           e.type \in {"ISSUANCE", "MIGRATION"}
    PROVE  /\ Established(e).entity \in Key /\ Established(e).operational \in Key
           /\ Established(e).entity # Established(e).operational
           /\ Pinned(Established(e).entity)
           /\ Established(e).entity \in sigs
           /\ e.type = "ISSUANCE" => /\ Established(e).entity = e.key
                                     /\ Established(e).operational = e.new
                                     /\ {e.key, e.new} \subseteq sigs
<1>1. Established(e).entity # Established(e).operational /\ Pinned(Established(e).entity)
  BY Zenon DEF Valid, ValidGenesis
<1>2. GenesisAuthenticated(e, sigs)
  BY Zenon DEF Authenticated
<1>3. CASE e.type = "ISSUANCE"
  <2>1. /\ Established(e).entity = e.key /\ Established(e).operational = e.new
        /\ {e.key, e.new} \subseteq sigs
    BY Zenon, <1>2, <1>3 DEF Established, GenesisAuthenticated
  <2> QED
    BY Zenon, <1>1, <2>1, EventTyped
<1>4. CASE e.type = "MIGRATION"
  <2>1. Established(e) = Prior[e] /\ MigrationSigner(e) \in sigs
    BY Zenon, <1>2, <1>4 DEF Established, GenesisAuthenticated
  <2>2. Prior[e] # None
    BY Zenon, <2>1, <1>4 DEF PriorFails, MigrationSigner
  <2>3. Prior[e].entity \in Key /\ Prior[e].operational \in Key
    BY Zenon, <2>2, EventTyped
  <2>4. Prior[e].entity \in sigs
    BY Zenon, <1>1, <2>1 DEF MigrationSigner, Pinned
  <2> QED
    BY Zenon, <1>1, <1>4, <2>1, <2>3, <2>4
<1> QED
  BY Zenon, <1>3, <1>4

\* What an applied event does to the sequences.
LEMMA ApplyExtends ==
    ASSUME TypeOK, NEW entry \in Entry, log' = Append(log, entry), Len(log) < MaxLog,
           NEW e \in Event, Apply(e)
    PROVE  /\ Len(log') = Len(log) + 1 /\ log'[Len(log) + 1] = entry
           /\ \A j \in DOMAIN log : log'[j] = log[j]
           /\ DOMAIN selected' = 1..(Len(selected) + 1) /\ Len(selected') = Len(selected) + 1
           /\ DOMAIN selected = 1..Len(selected) /\ DOMAIN log = 1..Len(log)
           /\ DOMAIN log' = 1..(Len(log) + 1)
           /\ DOMAIN post = DOMAIN selected /\ DOMAIN index = DOMAIN selected
           /\ DOMAIN post' = DOMAIN selected' /\ DOMAIN index' = DOMAIN selected'
           /\ \A i \in DOMAIN selected :
                 selected'[i] = selected[i] /\ post'[i] = post[i] /\ index'[i] = index[i]
           /\ selected'[Len(selected) + 1] = e
           /\ post'[Len(selected) + 1] = OperationalAfter(e)
           /\ index'[Len(selected) + 1] = Len(log) + 1
           /\ Applied' = Applied \cup {e}
           /\ selected' # <<>>
<1>1. /\ selected \in Seq(Event) /\ log \in Seq(Entry) /\ post \in Seq(Key)
      /\ index \in Seq(1..MaxLog) /\ Len(post) = Len(selected) /\ Len(index) = Len(selected)
  BY Zenon DEF TypeOK
<1>2. /\ selected' = Append(selected, e) /\ post' = Append(post, OperationalAfter(e))
      /\ index' = Append(index, Len(log) + 1)
  BY Zenon DEF Apply
<1>3. /\ Len(log') = Len(log) + 1 /\ log'[Len(log) + 1] = entry
      /\ \A j \in DOMAIN log : log'[j] = log[j]
      /\ DOMAIN log' = 1..(Len(log) + 1) /\ DOMAIN log = 1..Len(log)
  BY <1>1
<1>4. /\ DOMAIN selected' = 1..(Len(selected) + 1) /\ Len(selected') = Len(selected) + 1
      /\ DOMAIN selected = 1..Len(selected)
      /\ \A i \in DOMAIN selected : selected'[i] = selected[i]
      /\ selected'[Len(selected) + 1] = e
  BY <1>1, <1>2
<1>5. /\ DOMAIN post = DOMAIN selected /\ DOMAIN post' = DOMAIN selected'
      /\ \A i \in DOMAIN selected : post'[i] = post[i]
      /\ post'[Len(selected) + 1] = OperationalAfter(e)
  BY <1>1, <1>2, <1>4
<1>6. /\ DOMAIN index = DOMAIN selected /\ DOMAIN index' = DOMAIN selected'
      /\ \A i \in DOMAIN selected : index'[i] = index[i]
      /\ index'[Len(selected) + 1] = Len(log) + 1
  BY <1>1, <1>2, <1>4
<1>7. Applied' = Applied \cup {e}
  <2>1. Len(selected) \in Nat
    BY <1>1
  <2> QED
    BY <1>4, <2>1 DEF Applied
<1>8. selected' # <<>>
  BY <1>1, <1>2
<1> QED
  BY Zenon, <1>3, <1>4, <1>5, <1>6, <1>7, <1>8

\* An applied event keeps the types and the order of the history.
LEMMA ApplyTyped ==
    ASSUME ReplayInv, NEW entry \in Entry, log' = Append(log, entry), Len(log) < MaxLog,
           UNCHANGED <<part, vouched>>, NEW sigs,
           NEW e \in Event, Apply(e), e \notin Applied,
           Authenticated(e, sigs), Valid(e), ~PriorFails(e, sigs),
           selected = <<>> => e.type \in {"ISSUANCE", "MIGRATION"}
    PROVE  TypeOK' /\ Ordered' /\ OperationalAfter(e) \in Key
<1> USE DEF ReplayInv
<1>1. OperationalAfter(e) \in Key /\ (IF selected = <<>> THEN Established(e).entity ELSE entity) \in Key
  <2>1. CASE selected = <<>>
    BY Zenon, <2>1, GenesisEstablishes DEF OperationalAfter
  <2>2. CASE selected # <<>>
    <3>1. Last(post) \in Key
      BY <2>2 DEF TypeOK, Last
    <3>2. e.new \in Key
      BY Zenon, EventTyped
    <3> QED
      BY Zenon, <2>2, <3>1, <3>2 DEF OperationalAfter, Ordered
  <2> QED
    BY Zenon, <2>1, <2>2
<1>2. entity' \in Key
  BY Zenon, <1>1 DEF Apply
<1>3. status' \in {"ACTIVE", "REVOKED", "RETIRED"}
  BY Zenon DEF Apply, StatusAfter
<1>4. TypeOK'
  <2>1. log' \in Seq(Entry) /\ Len(log') <= MaxLog /\ Len(log) + 1 \in 1..MaxLog
    BY EventAssumption DEF TypeOK, EventAssumption
  <2>2. selected' \in Seq(Event) /\ index' \in Seq(1..MaxLog) /\ post' \in Seq(Key)
    BY <1>1, <2>1 DEF TypeOK, Apply
  <2>3. Len(index') = Len(selected') /\ Len(post') = Len(selected')
    BY <1>1 DEF TypeOK, Apply
  <2> QED
    BY Zenon, <1>2, <1>3, <2>1, <2>2, <2>3 DEF TypeOK, Apply
<1>5. Ordered'
  <2>1. \A i, j \in DOMAIN selected' : selected'[i] = selected'[j] => i = j
    <3>1. \A i \in DOMAIN selected : selected[i] # e
      BY Zenon DEF Applied
    <3> QED
      BY <3>1, ApplyExtends DEF Ordered
  <2>2. \A i \in DOMAIN index' : index'[i] <= Len(log')
    <3>1. Len(log) \in Nat /\ Len(selected) \in Nat /\ \A i \in DOMAIN index : index[i] \in Nat
      BY EventAssumption DEF TypeOK, EventAssumption
    <3> QED
      BY <3>1, ApplyExtends DEF Ordered
  <2> QED
    BY Zenon, <1>2, <1>3, <2>1, <2>2, ApplyExtends DEF Ordered
<1> QED
  BY Zenon, <1>1, <1>4, <1>5

\* An applied event is signed under the keys in force, which later events cannot
\* change any more.
LEMMA ApplySigned ==
    ASSUME ReplayInv, NEW entry \in Entry, log' = Append(log, entry), Len(log) < MaxLog,
           Apply(entry.event), Authenticated(entry.event, entry.sigs), Valid(entry.event),
           ~PriorFails(entry.event, entry.sigs),
           selected = <<>> => entry.event.type \in {"ISSUANCE", "MIGRATION"}
    PROVE  HistorySigned'
<1> DEFINE e == entry.event
<1>e. e \in Event
  BY Zenon DEF Entry
<1> USE DEF ReplayInv
<1>1. /\ Len(log') = Len(log) + 1 /\ log'[Len(log) + 1] = entry
      /\ \A j \in DOMAIN log : log'[j] = log[j]
      /\ DOMAIN log = 1..Len(log) /\ DOMAIN log' = 1..(Len(log) + 1)
      /\ DOMAIN selected = 1..Len(selected) /\ DOMAIN selected' = 1..(Len(selected) + 1)
      /\ \A i \in DOMAIN selected : selected'[i] = selected[i] /\ post'[i] = post[i]
      /\ selected'[Len(selected) + 1] = e
  BY Zenon, <1>e, ApplyExtends
<1>2. Len(log) \in Nat /\ Len(selected) \in Nat
  BY DEF TypeOK
<1> SUFFICES ASSUME NEW i \in DOMAIN selected'
             PROVE  \E j \in DOMAIN log' :
                       /\ log'[j].event = selected'[i]
                       /\ Signers(selected[i], i - 1)' \subseteq log'[j].sigs
  BY Zenon DEF HistorySigned
<1>3. CASE i \in DOMAIN selected
  <2>1. PICK j \in DOMAIN log : /\ log[j].event = selected[i]
                                /\ Signers(selected[i], i - 1) \subseteq log[j].sigs
    BY Zenon, <1>3 DEF HistorySigned
  <2>2. entity' = entity
    BY <1>1, <1>3 DEF Apply
  <2>3. i - 1 = 0 \/ i - 1 \in DOMAIN selected
    BY <1>1, <1>2, <1>3
  <2>4. Signers(selected[i], i - 1)' = Signers(selected[i], i - 1)
    BY Zenon, <1>1, <1>3, <2>2, <2>3 DEF Signers
  <2>5. j \in DOMAIN log' /\ log'[j] = log[j] /\ selected'[i] = selected[i]
    BY <1>1, <1>2, <1>3
  <2> QED
    BY Zenon, <2>1, <2>4, <2>5
<1>4. CASE i \notin DOMAIN selected
  <2>1. i = Len(selected) + 1 /\ selected'[i] = e
    BY <1>1, <1>2, <1>4
  <2>2. Signers(selected[i], i - 1)' \subseteq entry.sigs
    <3>1. CASE selected = <<>>
      <4>1. i - 1 = 0 /\ entity' = Established(e).entity
        BY <2>1, <3>1, <1>2 DEF Apply, TypeOK
      <4>2. /\ Established(e).entity \in entry.sigs
            /\ e.type = "ISSUANCE" => {e.key, e.new} \subseteq entry.sigs
        BY Zenon, <1>e, <3>1, GenesisEstablishes
      <4>3. e.type \in {"ISSUANCE", "MIGRATION"}
        BY Zenon, <3>1
      <4> QED
        BY Zenon, <2>1, <4>1, <4>2, <4>3 DEF Signers
    <3>2. CASE selected # <<>>
      <4>1. Len(selected) \in DOMAIN selected /\ Len(selected) # 0
        BY <3>2, <1>1, <1>2 DEF TypeOK
      <4>2. e.prev = selected[Len(selected)] /\ e.type # "ISSUANCE"
        BY Zenon, <3>2 DEF Valid, ValidNext, Last
      <4>3. Authority(e) = Len(selected)
        BY Zenon, <4>1, <4>2, AuthorityUnique
      <4>4. entity' = entity /\ i - 1 = Len(selected)
        BY <2>1, <3>2, <1>2 DEF Apply
      <4>5. post'[Len(selected)] = post[Len(selected)]
        BY Zenon, <1>1, <4>1
      <4>6. /\ e.type = "KEY_ROTATION" => {post[Len(selected)], e.new} \subseteq entry.sigs
            /\ e.type # "KEY_ROTATION" => entity \in entry.sigs
        BY Zenon, <3>2, <4>2, <4>3 DEF Authenticated
      <4> QED
        BY Zenon, <2>1, <4>1, <4>2, <4>4, <4>5, <4>6 DEF Signers
    <3> QED
      BY Zenon, <3>1, <3>2
  <2>3. Len(log) + 1 \in DOMAIN log'
    BY <1>1, <1>2
  <2> QED
    BY Zenon, <1>1, <2>1, <2>2, <2>3
<1> QED
  BY Zenon, <1>3, <1>4

\* A second continuation of an applied event, signed under the keys in force after
\* that event, is authenticated, however much was applied since.
LEMMA ForkAuthenticated ==
    ASSUME TypeOK, Ordered, NEW e, NEW sigs, NEW i \in DOMAIN selected, e.prev = selected[i],
           e.type = "ISSUANCE" => e.key = entity, Signers(e, i) \subseteq sigs
    PROVE  Authenticated(e, sigs)
<1>1. Authority(e) = i
  BY Zenon, AuthorityUnique
<1>2. selected # <<>> /\ i # 0
  BY DEF TypeOK
<1> QED
  BY Zenon, <1>1, <1>2 DEF Authenticated, Signers

\* An applied event leaves no authenticated fork behind.
LEMMA ApplyNoFork ==
    ASSUME ReplayInv, NEW entry \in Entry, log' = Append(log, entry), Len(log) < MaxLog,
           Apply(entry.event)
    PROVE  NoForkAccepted'
<1> DEFINE e == entry.event
<1>e. e \in Event
  BY Zenon DEF Entry
<1> USE DEF ReplayInv
<1>1. /\ Len(log') = Len(log) + 1 /\ log'[Len(log) + 1] = entry
      /\ \A j \in DOMAIN log : log'[j] = log[j]
      /\ DOMAIN log = 1..Len(log) /\ DOMAIN log' = 1..(Len(log) + 1)
      /\ DOMAIN selected = 1..Len(selected) /\ DOMAIN selected' = 1..(Len(selected) + 1)
      /\ \A i \in DOMAIN selected :
            selected'[i] = selected[i] /\ post'[i] = post[i] /\ index'[i] = index[i]
      /\ index'[Len(selected) + 1] = Len(log) + 1
      /\ Applied' = Applied \cup {e}
  BY Zenon, <1>e, ApplyExtends
<1>2. Len(log) \in Nat /\ Len(selected) \in Nat
  BY DEF TypeOK
<1> SUFFICES ASSUME result' # "fatal",
                    NEW i \in DOMAIN selected', NEW j \in DOMAIN log',
                    index'[i] < j, log'[j].event.prev = selected'[i],
                    log'[j].event.form # "noise",
                    log'[j].event.type = "ISSUANCE" => log'[j].event.key = entity',
                    Signers(log[j].event, i)' \subseteq log'[j].sigs
             PROVE  log'[j].event \in Applied'
  BY Zenon DEF NoForkAccepted
<1>3. CASE j = Len(log) + 1
  BY Zenon, <1>1, <1>3
<1>4. CASE j # Len(log) + 1
  <2>1. j \in DOMAIN log /\ log'[j] = log[j]
    BY <1>1, <1>2, <1>4
  <2>2. i \in DOMAIN selected
    BY <1>1, <1>2, <2>1
  <2>3. entity' = entity
    BY <1>1, <2>2 DEF Apply
  <2>4. i # 0 /\ post'[i] = post[i]
    BY <1>1, <2>2
  <2>5. Signers(log[j].event, i)' = Signers(log[j].event, i)
    BY Zenon, <2>1, <2>3, <2>4 DEF Signers
  <2>6. result # "fatal"
    BY Zenon DEF Apply
  <2>7. index[i] < j /\ log[j].event.prev = selected[i]
    BY Zenon, <1>1, <2>1, <2>2
  <2>8. log[j].event \in Applied
    BY Zenon, <2>1, <2>2, <2>3, <2>5, <2>6, <2>7 DEF NoForkAccepted
  <2> QED
    BY Zenon, <1>1, <2>1, <2>8
<1> QED
  BY Zenon, <1>3, <1>4

\* Where keys are in honest hands, whatever is authenticated and not applied yet is
\* the event that their holders have signed.
LEMMA HonestSigned ==
    ASSUME ReplayInv, Options.honest # {}, NEW e, NEW sigs,
           sigs \cap Options.honest = {} \/ e \in vouched,
           Authenticated(e, sigs), e \notin Applied,
           selected = <<>> => e.type \in {"ISSUANCE", "MIGRATION"}
    PROVE  e \in Outstanding
<1> USE DEF ReplayInv
<1>1. Options.trusted \in Options.honest /\ Options.trusted # None
  BY Zenon, OptionsTyped DEF TypeOK
<1>2. sigs \cap Options.honest # {}
  <2>1. CASE selected = <<>>
    <3>1. GenesisAuthenticated(e, sigs)
      BY Zenon, <2>1 DEF Authenticated
    <3>2. Options.trusted \in sigs
      BY Zenon, <1>1, <2>1, <3>1 DEF GenesisAuthenticated, Pinned, MigrationSigner
    <3> QED
      BY Zenon, <1>1, <3>2
  <2>2. CASE selected # <<>>
    <3>1. entity \in Options.honest
      BY Zenon, <1>1, <2>2 DEF InHonestHands
    <3>2. post[Authority(e)] \in Options.honest
      <4>1. Authority(e) \in DOMAIN selected
        BY Zenon, <2>2, AuthorityIn
      <4>2. DOMAIN post = DOMAIN selected
        BY DEF TypeOK
      <4> QED
        BY Zenon, <4>1, <4>2 DEF InHonestHands
    <3>3. entity \in sigs \/ post[Authority(e)] \in sigs
      BY Zenon, <2>2 DEF Authenticated
    <3> QED
      BY Zenon, <3>1, <3>2, <3>3
  <2> QED
    BY Zenon, <2>1, <2>2
<1> QED
  BY Zenon, <1>2 DEF Outstanding

\* Where keys are in honest hands, what is applied is what their holders signed.
LEMMA ApplyHonest ==
    ASSUME ReplayInv, NEW entry \in Entry, log' = Append(log, entry), Len(log) < MaxLog,
           UNCHANGED <<part, vouched>>, Options.honest # {},
           entry.sigs \cap Options.honest = {} \/ entry.event \in vouched,
           Apply(entry.event), entry.event \notin Applied,
           Authenticated(entry.event, entry.sigs), Valid(entry.event),
           selected = <<>> => entry.event.type \in {"ISSUANCE", "MIGRATION"}
    PROVE  InHonestHands'
<1> DEFINE e == entry.event
<1>e. e \in Event
  BY Zenon DEF Entry
<1> USE DEF ReplayInv
<1>1. e \in Outstanding
  BY Zenon, HonestSigned
<1>2. /\ Applied' = Applied \cup {e} /\ DOMAIN post' = DOMAIN selected'
      /\ DOMAIN post = DOMAIN selected
      /\ DOMAIN selected = 1..Len(selected) /\ DOMAIN selected' = 1..(Len(selected) + 1)
      /\ \A i \in DOMAIN selected : post'[i] = post[i]
      /\ post'[Len(selected) + 1] = OperationalAfter(e)
  BY Zenon, <1>e, ApplyExtends
<1>3. Len(selected) \in Nat
  BY DEF TypeOK
<1>4. Outstanding' = {}
  <2>1. vouched' = vouched /\ \A f \in Outstanding : f = e
    BY Zenon, <1>1 DEF InHonestHands
  <2> QED
    BY Zenon, <1>2, <2>1 DEF Outstanding
<1>5. Options' = Options
  BY Zenon DEF Options
<1>6. Options.trusted \in Options.honest /\ Options.trusted # None
  BY Zenon, OptionsTyped DEF TypeOK
<1>7. OperationalAfter(e) \in Options.honest /\ entity' = Options.trusted
  <2>0. /\ e.type \in {"ISSUANCE", "KEY_ROTATION"} => e.new \in Options.honest
        /\ selected = <<>> => e.type = "ISSUANCE"
    BY Zenon, <1>1 DEF InHonestHands
  <2>1. CASE selected = <<>>
    <3>1. Established(e).entity = e.key /\ Established(e).operational = e.new
      BY Zenon, <2>0, <2>1 DEF Established
    <3>2. Options.trusted = e.key
      BY Zenon, <1>6, <2>1, <3>1 DEF Valid, ValidGenesis, Pinned
    <3> QED
      BY Zenon, <2>0, <2>1, <3>1, <3>2 DEF OperationalAfter, Apply
  <2>2. CASE selected # <<>>
    <3>1. Len(post) \in DOMAIN post
      BY <2>2 DEF TypeOK
    <3>2. Last(post) \in Options.honest
      BY Zenon, <3>1 DEF InHonestHands, Last
    <3> QED
      BY Zenon, <2>0, <2>2, <3>2 DEF OperationalAfter, Apply, InHonestHands
  <2> QED
    BY Zenon, <2>1, <2>2
<1>8. \A i \in DOMAIN post' : post'[i] \in Options.honest
  BY <1>2, <1>3, <1>7 DEF InHonestHands
<1>9. result' # "fatal"
  BY Zenon DEF Apply, InHonestHands
<1> QED
  BY Zenon, <1>4, <1>5, <1>7, <1>8, <1>9 DEF InHonestHands

\* An entry that is passed over or ends the replay.
LEMMA NotAppliedInv ==
    ASSUME ReplayInv, NEW entry \in Entry, log' = Append(log, entry), Len(log) < MaxLog,
           UNCHANGED <<part, vouched, selected, index, post, entity, status>>,
           result' \in {result, "fatal"},
           Options.honest # {} => result' # "fatal",
           result' # "fatal" =>
               \/ entry.event.form = "noise" \/ entry.event \in Applied
               \/ selected = <<>> \/ ~Authenticated(entry.event, entry.sigs)
    PROVE  ReplayInv'
<1> DEFINE e == entry.event
<1> USE DEF ReplayInv
<1>0. /\ log \in Seq(Entry) /\ selected \in Seq(Event) /\ Len(log) \in Nat
      /\ MaxLog \in Nat /\ \A i \in DOMAIN index : index[i] \in Nat
  BY EventAssumption DEF TypeOK, EventAssumption
<1>1. /\ log' \in Seq(Entry) /\ Len(log') = Len(log) + 1 /\ log'[Len(log) + 1] = entry
      /\ \A j \in DOMAIN log : log'[j] = log[j]
      /\ DOMAIN log = 1..Len(log) /\ DOMAIN log' = 1..(Len(log) + 1)
  BY <1>0
<1>2. TypeOK'
  BY <1>0, <1>1 DEF TypeOK
<1>3. Ordered'
  BY <1>0, <1>1 DEF Ordered
<1>4. HistorySigned'
  <2> SUFFICES ASSUME NEW i \in DOMAIN selected
               PROVE  \E j \in DOMAIN log' :
                         /\ log'[j].event = selected[i]
                         /\ Signers(selected[i], i - 1) \subseteq log'[j].sigs
    BY DEF HistorySigned, Signers
  <2>1. PICK j \in DOMAIN log : /\ log[j].event = selected[i]
                                /\ Signers(selected[i], i - 1) \subseteq log[j].sigs
    BY Zenon DEF HistorySigned
  <2>2. j \in DOMAIN log' /\ log'[j] = log[j]
    BY <1>0, <1>1
  <2> QED
    BY Zenon, <2>1, <2>2
<1>5. Applied' = Applied /\ Options' = Options
  BY Zenon DEF Applied, Options
<1>6. NoForkAccepted'
  <2> SUFFICES ASSUME result' # "fatal",
                      NEW i \in DOMAIN selected, NEW j \in DOMAIN log',
                      index[i] < j, log'[j].event.prev = selected[i],
                      log'[j].event.form # "noise",
                      log'[j].event.type = "ISSUANCE" => log'[j].event.key = entity,
                      Signers(log'[j].event, i) \subseteq log'[j].sigs
               PROVE  log'[j].event \in Applied
    BY <1>5 DEF NoForkAccepted, Signers
  <2>1. CASE j = Len(log) + 1
    <3>1. log'[j] = entry
      BY Zenon, <1>1, <2>1
    <3>2. Authenticated(e, entry.sigs)
      BY Zenon, <3>1, ForkAuthenticated
    <3>3. selected # <<>>
      BY <1>0
    <3> QED
      BY Zenon, <3>1, <3>2, <3>3
  <2>2. CASE j # Len(log) + 1
    <3>1. j \in DOMAIN log /\ log'[j] = log[j]
      BY <1>0, <1>1, <2>2
    <3>2. result # "fatal"
      BY Zenon
    <3> QED
      BY Zenon, <3>1, <3>2 DEF NoForkAccepted
  <2> QED
    BY Zenon, <2>1, <2>2
<1>7. InHonestHands'
  <2>1. Outstanding' = Outstanding
    BY Zenon, <1>5 DEF Outstanding
  <2>2. \A f : Valid(f)' = Valid(f)
    BY <1>5 DEF Valid, ValidGenesis, ValidNext, Established, Pinned, Last
  <2> QED
    BY Zenon, <1>5, <2>1, <2>2 DEF InHonestHands
<1> QED
  BY Zenon, <1>2, <1>3, <1>4, <1>6, <1>7

\* Reading an entry keeps the invariant.
LEMMA AppendEntryInv ==
    ASSUME ReplayInv, NEW entry \in Options.entries, AppendEntry(entry)
    PROVE  ReplayInv'
<1> DEFINE e == entry.event
           sigs == entry.sigs
<1> USE DEF ReplayInv
<1>1. entry \in Entry
  BY Zenon, OptionsTyped DEF TypeOK
<1>e. e \in Event
  BY Zenon, <1>1 DEF Entry
<1>2. /\ log' = Append(log, entry) /\ Len(log) < MaxLog /\ UNCHANGED <<part, vouched>>
      /\ result = "reading" /\ (sigs \cap Options.honest = {} \/ e \in vouched)
      /\ Read(e, sigs)
  BY Zenon DEF AppendEntry
<1>3. CASE /\ Skip
           /\ \/ e.form = "noise" \/ e \in Applied
              \/ e.form = "malformed" /\ ~MalformedAuthenticated(e, sigs)
              \/ selected = <<>> /\ e.type \notin {"ISSUANCE", "MIGRATION"}
              \/ ~Authenticated(e, sigs)
  <2>1. e.form = "noise" \/ e \in Applied \/ selected = <<>> \/ ~Authenticated(e, sigs)
    BY Zenon, <1>3 DEF MalformedAuthenticated
  <2> QED
    BY Zenon, <1>1, <1>2, <1>3, <2>1, NotAppliedInv DEF Skip
<1>4. CASE /\ Fatal /\ e \notin Applied
           /\ \/ e.form = "malformed" /\ MalformedAuthenticated(e, sigs)
              \/ PriorFails(e, sigs)
              \/ /\ Authenticated(e, sigs) /\ ~Valid(e)
                 /\ selected = <<>> => e.type \in {"ISSUANCE", "MIGRATION"}
  <2>1. Options.honest = {}
    <3> SUFFICES ASSUME Options.honest # {} PROVE FALSE
      BY Zenon
    <3>1. CASE e.form = "malformed" /\ MalformedAuthenticated(e, sigs)
      <4>1. e \in Outstanding
        BY Zenon, <1>2, <1>4, <3>1, HonestSigned DEF MalformedAuthenticated
      <4> QED
        BY Zenon, <3>1, <4>1 DEF InHonestHands, Valid
    <3>2. CASE PriorFails(e, sigs)
      <4>1. /\ Options.trusted \in Options.honest /\ Options.trusted # None
            /\ Options.migrations = "resolved"
        BY Zenon, OptionsTyped DEF TypeOK
      <4>2. selected = <<>> /\ e.type = "MIGRATION" /\ Options.trusted \in sigs
        BY Zenon, <3>2, <4>1 DEF PriorFails
      <4>3. e \in Outstanding
        BY Zenon, <1>2, <1>4, <4>1, <4>2 DEF Outstanding
      <4> QED
        BY Zenon, <4>2, <4>3 DEF InHonestHands
    <3>3. CASE /\ Authenticated(e, sigs) /\ ~Valid(e)
               /\ selected = <<>> => e.type \in {"ISSUANCE", "MIGRATION"}
      <4>1. e \in Outstanding
        BY Zenon, <1>2, <1>4, <3>3, HonestSigned
      <4> QED
        BY Zenon, <3>3, <4>1 DEF InHonestHands
    <3> QED
      BY Zenon, <1>4, <3>1, <3>2, <3>3
  <2> QED
    BY Zenon, <1>1, <1>2, <1>4, <2>1, NotAppliedInv DEF Fatal
<1>5. CASE /\ Apply(e) /\ e \notin Applied
           /\ Authenticated(e, sigs) /\ Valid(e) /\ ~PriorFails(e, sigs)
           /\ selected = <<>> => e.type \in {"ISSUANCE", "MIGRATION"}
  <2>1. TypeOK' /\ Ordered'
    BY Zenon, <1>1, <1>e, <1>2, <1>5, ApplyTyped
  <2>2. HistorySigned'
    BY Zenon, <1>1, <1>2, <1>5, ApplySigned
  <2>3. NoForkAccepted'
    BY Zenon, <1>1, <1>2, <1>5, ApplyNoFork
  <2>4. InHonestHands'
    <3>1. CASE Options.honest = {}
      BY Zenon, <1>2, <3>1 DEF InHonestHands, Options
    <3>2. CASE Options.honest # {}
      BY Zenon, <1>1, <1>2, <1>5, <3>2, ApplyHonest
    <3> QED
      BY Zenon, <3>1, <3>2
  <2> QED
    BY Zenon, <2>1, <2>2, <2>3, <2>4
<1> QED
  BY Zenon, <1>2, <1>3, <1>4, <1>5, ReadCases

\* The steps that leave the applied events alone, and the log.
LEMMA SameHistoryInv ==
    ASSUME ReplayInv, UNCHANGED <<part, log, selected, post, entity, status>>,
           TypeOK', result # "fatal", result' # "fatal",
           \A i \in DOMAIN index : index[i] <= index'[i] /\ index'[i] <= Len(log),
           InHonestHands'
    PROVE  ReplayInv'
<1> USE DEF ReplayInv
<1>0. /\ DOMAIN index = DOMAIN selected /\ DOMAIN index' = DOMAIN selected
      /\ \A i \in DOMAIN index : index[i] \in Nat /\ index'[i] \in Nat
      /\ DOMAIN log \subseteq Nat
  BY EventAssumption DEF TypeOK, EventAssumption
<1>1. Ordered'
  BY Zenon, <1>0 DEF Ordered
<1>2. HistorySigned'
  BY DEF HistorySigned, Signers
<1>3. NoForkAccepted'
  <2> SUFFICES ASSUME NEW i \in DOMAIN selected, NEW j \in DOMAIN log,
                      index'[i] < j, log[j].event.prev = selected[i],
                      log[j].event.form # "noise",
                      log[j].event.type = "ISSUANCE" => log[j].event.key = entity,
                      Signers(log[j].event, i) \subseteq log[j].sigs
               PROVE  log[j].event \in Applied
    BY DEF NoForkAccepted, Signers, Applied
  <2>1. index[i] < j
    BY <1>0
  <2> QED
    BY Zenon, <2>1 DEF NoForkAccepted
<1> QED
  BY Zenon, <1>1, <1>2, <1>3

\* Signing the next continuation keeps the invariant.
LEMMA VouchInv ==
    ASSUME ReplayInv, NEW e \in Event, Vouch(e)
    PROVE  ReplayInv'
<1> USE DEF ReplayInv
<1>1. /\ UNCHANGED <<part, log, selected, index, post, entity, status, result>>
      /\ result = "reading" /\ vouched' = vouched \cup {e} /\ Valid(e)
      /\ vouched \subseteq Applied /\ (selected = <<>> => e.type = "ISSUANCE")
      /\ e.type \in {"ISSUANCE", "KEY_ROTATION"} => e.new \in Options.honest
  BY Zenon DEF Vouch
<1>2. TypeOK'
  BY Zenon, <1>1 DEF TypeOK
<1>3. Applied' = Applied /\ Options' = Options
  BY Zenon, <1>1 DEF Applied, Options
<1>4. Outstanding' \subseteq {e}
  BY Zenon, <1>1, <1>3 DEF Outstanding
<1>5. Valid(e)'
  BY Zenon, <1>1, <1>3 DEF Valid, ValidGenesis, ValidNext, Established, Pinned, Last
<1>6. InHonestHands'
  BY Zenon, <1>1, <1>3, <1>4, <1>5 DEF InHonestHands
<1>7. \A i \in DOMAIN index : index[i] <= index'[i] /\ index'[i] <= Len(log)
  BY <1>1, EventAssumption DEF TypeOK, Ordered, EventAssumption
<1> QED
  BY Zenon, <1>1, <1>2, <1>6, <1>7, SameHistoryInv

\* So does the end of the entries.
LEMMA FinishInv ==
    ASSUME ReplayInv, Finish \/ FinishAtCutoff
    PROVE  ReplayInv'
<1> USE DEF ReplayInv
<1>0. /\ UNCHANGED <<part, log, selected, post, entity, status, vouched>>
      /\ result = "reading" /\ result' \in {"verified", "missing"}
      /\ \/ index' = index
         \/ /\ log # <<>> /\ selected # <<>>
            /\ index' = [index EXCEPT ![Len(index)] = Len(log)]
  BY Zenon DEF Finish, FinishAtCutoff
<1>1. MaxLog \in Nat /\ Len(log) \in Nat /\ index \in Seq(1..MaxLog)
  BY EventAssumption DEF TypeOK, EventAssumption
<1>2. /\ index' \in Seq(1..MaxLog) /\ Len(index') = Len(index)
      /\ \A i \in DOMAIN index : index[i] <= index'[i] /\ index'[i] <= Len(log)
  <2>1. CASE index' = index
    BY <1>1, <2>1 DEF Ordered
  <2>2. CASE log # <<>> /\ selected # <<>> /\ index' = [index EXCEPT ![Len(index)] = Len(log)]
    <3>1. Len(log) \in 1..MaxLog
      BY <1>1, <2>2 DEF TypeOK
    <3>2. /\ index' \in Seq(1..MaxLog) /\ Len(index') = Len(index)
          /\ \A i \in DOMAIN index : index'[i] \in {index[i], Len(log)}
      <4>1. Len(index) \in 1..Len(index)
        BY <1>1, <2>2 DEF TypeOK
      <4>2. index' \in Seq(1..MaxLog) /\ Len(index') = Len(index)
        BY <1>1, <2>2, <3>1, <4>1, ExceptSeq
      <4> QED
        BY Zenon, <1>1, <2>2, <4>2
    <3>3. \A i \in DOMAIN index : index[i] <= Len(log) /\ index[i] \in Nat
      BY <1>1 DEF Ordered
    <3>4. \A i \in DOMAIN index : index[i] <= index'[i] /\ index'[i] <= Len(log)
      <4> SUFFICES ASSUME NEW i \in DOMAIN index
                   PROVE  index[i] <= index'[i] /\ index'[i] <= Len(log)
        BY Zenon
      <4>1. Len(log) \in Nat /\ index[i] \in Nat /\ index[i] <= Len(log)
        BY Zenon, <1>1, <3>3
      <4>2. index'[i] = index[i] \/ index'[i] = Len(log)
        BY Zenon, <3>2
      <4> QED
        BY <4>1, <4>2
    <3> QED
      BY Zenon, <3>2, <3>4
  <2> QED
    BY Zenon, <1>0, <2>1, <2>2
<1>3. TypeOK'
  BY Zenon, <1>0, <1>2 DEF TypeOK
<1>4. Applied' = Applied /\ Options' = Options
  BY <1>0 DEF Applied, Options
<1>5. \A f : Valid(f)' = Valid(f)
  BY <1>0, <1>4 DEF Valid, ValidGenesis, ValidNext, Established, Pinned, Last
<1>6. Outstanding' = Outstanding
  BY Zenon, <1>0, <1>4 DEF Outstanding
<1>7. InHonestHands'
  BY Zenon, <1>0, <1>4, <1>5, <1>6 DEF InHonestHands
<1> QED
  BY Zenon, <1>0, <1>2, <1>3, <1>7, SameHistoryInv

\* Nothing changes.
LEMMA StutterReplay ==
    ASSUME ReplayInv, UNCHANGED vars
    PROVE  ReplayInv'
<1> USE DEF ReplayInv, vars
<1>1. TypeOK' /\ Ordered'
  BY Zenon DEF TypeOK, Ordered
<1>2. HistorySigned' /\ NoForkAccepted'
  BY DEF HistorySigned, Signers, NoForkAccepted, Applied
<1>3. InHonestHands'
  BY DEF InHonestHands, Outstanding, Applied, Options, Valid, ValidGenesis, ValidNext,
         Established, Pinned, Last
<1> QED
  BY Zenon, <1>1, <1>2, <1>3

\* Every step of the replay keeps the invariant.
LEMMA ReplayStep ==
    ASSUME ReplayInv, [Next]_vars
    PROVE  ReplayInv'
<1>1. ASSUME NEW entry \in Options.entries, AppendEntry(entry) PROVE ReplayInv'
  BY Zenon, <1>1, AppendEntryInv
<1>2. ASSUME NEW e \in {entry.event : entry \in Options.entries}, Vouch(e) PROVE ReplayInv'
  <2>1. e \in Event
    BY Zenon, OptionsTyped DEF ReplayInv, TypeOK, Entry
  <2> QED
    BY Zenon, <1>2, <2>1, VouchInv
<1>3. CASE Finish \/ FinishAtCutoff
  BY Zenon, <1>3, FinishInv
<1>4. CASE UNCHANGED vars
  BY Zenon, <1>4, StutterReplay
<1> QED
  BY Zenon, <1>1, <1>2, <1>3, <1>4 DEF Next

\* Every step of the replay is one of the identity's lifecycle, or none.
LEMMA LifecycleStep ==
    ASSUME ReplayInv, [Next]_vars
    PROVE  [Lifecycle!Next]_(Lifecycle!lifecycleVars)
<1> USE DEF ReplayInv
<1> DEFINE Op == IF post = <<>> THEN None ELSE Last(post)
<1>1. ASSUME NEW entry \in Options.entries, AppendEntry(entry)
      PROVE  \/ Lifecycle!Next
             \/ UNCHANGED <<part, status, entity, post>>
             \/ UNCHANGED <<part, status, entity>> /\ Op' = Op
  <2> DEFINE e == entry.event
             sigs == entry.sigs
  <2>1. entry \in Entry /\ e \in Event
    BY Zenon, <1>1, OptionsTyped DEF TypeOK, Entry
  <2>2. /\ log' = Append(log, entry) /\ Len(log) < MaxLog /\ part' = part
        /\ Read(e, sigs)
    BY Zenon, <1>1 DEF AppendEntry
  <2>3. CASE Skip \/ Fatal
    BY Zenon, <2>2, <2>3 DEF Skip, Fatal
  <2>4. CASE /\ Apply(e)
             /\ Authenticated(e, sigs) /\ Valid(e) /\ ~PriorFails(e, sigs)
             /\ selected = <<>> => e.type \in {"ISSUANCE", "MIGRATION"}
    <3>1. Op' = OperationalAfter(e)
      <4>1. post \in Seq(Key) /\ post' = Append(post, OperationalAfter(e))
        BY Zenon, <2>4 DEF Apply, TypeOK
      <4> QED
        BY <4>1 DEF Last
    <3>2. Options' = Options
      BY Zenon, <2>2 DEF Options
    <3>3. CASE selected = <<>>
      <4> DEFINE k == Established(e).entity
                 o == Established(e).operational
      <4>1. k \in Key /\ o \in Key /\ k # o /\ Pinned(k)
        BY Zenon, <2>1, <2>4, <3>3, GenesisEstablishes
      <4>2. status = "none" /\ status' = "ACTIVE" /\ entity' = k /\ Op' = o
        BY Zenon, <2>4, <3>1, <3>3 DEF Ordered, Apply, StatusAfter, OperationalAfter
      <4>3. Lifecycle!Establish(k, o)
        BY Zenon, <3>2, <4>1, <4>2 DEF Lifecycle!Establish, Pinned
      <4> QED
        BY Zenon, <4>1, <4>3 DEF Lifecycle!Next
    <3>4. CASE selected # <<>>
      <4>1. post # <<>> /\ Op = Last(post)
        BY <3>4 DEF TypeOK
      <4>2. /\ status = "ACTIVE" /\ entity' = entity /\ status' = StatusAfter(e)
            /\ e.type \notin {"ISSUANCE", "MIGRATION"}
            /\ e.type = "KEY_ROTATION" => e.new \notin {Last(post), entity}
        BY Zenon, <2>4, <3>4 DEF Valid, ValidNext, Apply
      <4>3. e.new \in Key
        BY Zenon, <2>1, EventTyped
      <4>4. CASE e.type = "KEY_ROTATION"
        <5>1. Op' = e.new /\ status' = status
          BY Zenon, <3>1, <3>4, <4>2, <4>4 DEF OperationalAfter, StatusAfter
        <5>2. Lifecycle!Rotate(e.new)
          BY Zenon, <3>2, <4>1, <4>2, <4>4, <5>1 DEF Lifecycle!Rotate
        <5> QED
          BY Zenon, <4>3, <5>2 DEF Lifecycle!Next
      <4>5. CASE e.type # "KEY_ROTATION"
        <5>1. Op' = Op
          BY Zenon, <3>1, <3>4, <4>1, <4>5 DEF OperationalAfter
        <5>2. status' = status \/ status' = "REVOKED" \/ status' = "RETIRED"
          BY Zenon, <4>2 DEF StatusAfter
        <5>3. \A s : status' = s => \/ Lifecycle!End(s)
                                    \/ UNCHANGED <<part, status, entity>> /\ Op' = Op
          BY Zenon, <3>2, <4>2, <5>1 DEF Lifecycle!End
        <5> QED
          BY Zenon, <2>2, <4>2, <5>1, <5>2, <5>3 DEF Lifecycle!Next
      <4> QED
        BY Zenon, <4>4, <4>5
    <3> QED
      BY Zenon, <3>3, <3>4
  <2> QED
    BY Zenon, <2>2, <2>3, <2>4, ReadCases
<1>2. ASSUME NEW e, Vouch(e) PROVE UNCHANGED <<part, status, entity, post>>
  BY Zenon, <1>2 DEF Vouch
<1>3. ASSUME Finish \/ FinishAtCutoff \/ UNCHANGED vars
      PROVE  UNCHANGED <<part, status, entity, post>>
  BY Zenon, <1>3 DEF Finish, FinishAtCutoff, vars
<1>4. \/ Lifecycle!Next
      \/ UNCHANGED <<part, status, entity, post>>
      \/ UNCHANGED <<part, status, entity>> /\ Op' = Op
  BY Zenon, <1>1, <1>2, <1>3 DEF Next
<1> QED
  BY Zenon, <1>4 DEF Lifecycle!lifecycleVars, Options, Last

-----------------------------------------------------------------------------
(* What the reading of the logs guarantees, for any events, keys and plans.  *)

\* The invariants of the parts that have one.
PartsInv ==
    /\ part \in ReplayPart => ReplayInv
    /\ part \in ChainPart /\ external = {} => Reader!MigrationInv
    /\ part \in EvidencePart => Reader!EvidenceInv

\* What the lemmas of LogReaderProofs assume of the constants.
LEMMA EvidenceConstants == Reader!EvidenceAssumption
<1> QED
  BY PlansAssumption DEF PlansAssumption

\* What they assume of the logs and of the limits.
LEMMA ChainConstants == Reader!MigrationAssumption
<1> QED
  BY PlansAssumption DEF PlansAssumption

\* Each part starts with its invariant.
LEMMA PartsInit == MCInit => PartsInv
<1>1. ASSUME MCInit, part \in ReplayPart PROVE ReplayInv
  BY <1>1, InitReplayInv DEF MCInit, ReplayPart
<1>2. ASSUME MCInit, part \in EvidencePart PROVE Reader!EvidenceInv
  <2>1. Reader!IsPlan(EvidencePlan[part])
    BY <1>2, PlansAssumption DEF PlansAssumption
  <2>2. Reader!Init
    BY <1>2 DEF MCInit
  <2> QED
    BY <2>1, <2>2, EvidenceConstants, Reader!EvidenceInit
<1>3. ASSUME MCInit, part \in ChainPart PROVE Reader!MigrationInv
  <2>1. Reader!IsChainPlan(ChainPlan[part])
    BY <1>3, PlansAssumption DEF PlansAssumption
  <2>2. Reader!ChainInit
    BY <1>3 DEF MCInit
  <2> QED
    BY <2>1, <2>2, ChainConstants, Reader!InitMigrationInv
<1> QED
  BY <1>1, <1>2, <1>3 DEF PartsInv

\* A step of the composition is a step, or a stutter, of the part it is about.
LEMMA PartSteps ==
    ASSUME [MCNext]_allVars
    PROVE  /\ part' = part
           /\ part \in ReplayPart => [Next]_vars
           /\ part \in ChainPart => [Reader!ChainNext]_(Reader!migrationVars)
           /\ part \in EvidencePart => [Reader!Next]_(Reader!vars)
<1>1. CASE UNCHANGED allVars
  <2>1. UNCHANGED vars /\ UNCHANGED recordVars /\ UNCHANGED chainVars
    BY <1>1 DEF allVars
  <2>2. part' = part
    BY <2>1 DEF vars
  <2>3. UNCHANGED Reader!vars
    BY <2>1, <2>2 DEF recordVars, Reader!vars, Reader!world, Reader!reader,
       Reader!verification
  <2>4. UNCHANGED Reader!migrationVars
    BY <2>1, <2>2 DEF chainVars, Reader!migrationVars
  <2> QED
    BY <2>1, <2>2, <2>3, <2>4
<1>2. CASE MCNext
  <2>1. part' = part
    BY <1>2 DEF MCNext
  <2>2. part \in ReplayPart => part \notin ChainPart \cup EvidencePart
    BY PlansAssumption DEF PlansAssumption
  <2>3. part \in EvidencePart => part \notin ReplayPart \cup ChainPart
    BY PlansAssumption DEF PlansAssumption
  <2>4. part \in ReplayPart => Next
    BY <1>2, <2>2 DEF MCNext
  <2>5. part \in EvidencePart => Reader!Next
    BY <1>2, <2>3 DEF MCNext
  <2>6. part \in ChainPart => part \notin ReplayPart \cup EvidencePart
    BY PlansAssumption DEF PlansAssumption
  <2>7. part \in ChainPart => Reader!ChainNext
    BY <1>2, <2>6 DEF MCNext
  <2> QED
    BY <2>1, <2>4, <2>5, <2>7
<1> QED
  BY <1>1, <1>2

\* Every step keeps the invariant of its part.
LEMMA PartsStep == PartsInv /\ [MCNext]_allVars => PartsInv'
<1> SUFFICES ASSUME PartsInv, [MCNext]_allVars PROVE PartsInv'
  OBVIOUS
<1>1. part' = part
  BY PartSteps
<1>2. part \in ReplayPart => ReplayInv'
  BY PartSteps, ReplayStep DEF PartsInv
<1>3. part \in EvidencePart => Reader!EvidenceInv'
  BY PartSteps, EvidenceConstants, Reader!EvidenceStep DEF PartsInv
<1>4. part \in ChainPart /\ external' = {} => Reader!MigrationInv'
  BY PartSteps, ChainConstants, Reader!ExternalKept, Reader!NextMigrationInv DEF PartsInv
<1> QED
  BY <1>1, <1>2, <1>3, <1>4 DEF PartsInv, ReplayPart, ChainPart, EvidencePart

\* The invariants of the parts hold together.
LEMMA PartsInvariant == MCSpec => []PartsInv
<1> QED
  BY PartsInit, PartsStep, PTL DEF MCSpec

\* Whatever is appended to a log, and for any events, keys and verifier options:
\* each applied event carries the signatures it needs under the keys then in
\* force, no log with two signed continuations is accepted, and the history of
\* keys in honest hands stays readable (verify_stream_lifecycle).
THEOREM ReplayIsSound == MCSpec => []ReplaySound
<1>1. PartsInv => ReplaySound
  BY DEF PartsInv, ReplayInv, ReplaySound, InHonestHands, NoiseHarmless
<1> QED
  BY <1>1, PartsInvariant, PTL

\* For any events, keys and verifier options, every step of the replay is a legal
\* step in the life of one identity, or leaves it as it is: the identity is
\* established once under the pinned key, its operational key moves only from the
\* active key to a new one, and its end is final (verify_stream_lifecycle).
THEOREM ReplayRefinesLifecycle == MCSpec => RefinesLifecycle
<1>1. MCInit => (part \in ReplayPart => Lifecycle!Init)
  BY DEF MCInit, Init, Lifecycle!Init
<1>2. PartsInv /\ [MCNext]_allVars =>
         [(part \in ReplayPart) => [Lifecycle!Next]_(Lifecycle!lifecycleVars)]_allVars
  BY PartSteps, LifecycleStep DEF PartsInv
<1> QED
  BY <1>1, <1>2, PartsInvariant, PTL DEF MCSpec, RefinesLifecycle

\* Whatever the logs hold and whatever the limits: a history that this reader
\* rebuilt alone is one chain from the identity's issuance to the stream of the
\* record, in which each log's part ends exactly where the next migration signs
\* the cutoff, no log comes twice, and the identity was alive at every handoff
\* (_verify_prior_history, _stitch_migration_history).
THEOREM MigratedHistoryIsChain == MCSpec => [](part \in ChainPart => Reader!AcceptedIsChain)
<1>1. PartsInv => (part \in ChainPart => Reader!AcceptedIsChain)
  BY Reader!ChainFromInv DEF PartsInv, Reader!AcceptedIsChain
<1> QED
  BY <1>1, PartsInvariant, PTL

\* For any keys, users, TTL, freshness bound, bundle lifetime and log length, while
\* the log, the documents, the clock and other users of the reader move on: the key
\* of an accepted record was active in a log no older than the one trusted at the
\* start and no check looked at an older log than the one before; its record was
\* published less than its TTL ago; and a granted non-revocation check has seen all
\* that was logged up to the freshness bound (_verify_domain_uncached,
\* _load_complete_history, verify_non_revocation).
THEOREM EvidenceIsSound == MCSpec => EvidenceSound
<1> DEFINE Held == part \in EvidencePart => /\ Reader!TypeOK
                                            /\ Reader!AcceptedKeyWasActive
                                            /\ Reader!RevocationSeenInTime
           Taken == [(part \in EvidencePart) => Reader!AcceptsPublishedRecord]_allVars
<1>1. PartsInv => Held
  BY EvidenceConstants, Reader!KeyActive DEF PartsInv, Reader!EvidenceInv, Reader!Typed,
     Reader!Granted
<1>2. PartsInv /\ [MCNext]_allVars => Taken
  BY PartSteps, EvidenceConstants, Reader!AcceptPublished DEF PartsInv
<1>3. MCSpec => []Held
  BY <1>1, PartsInvariant, PTL
<1>4. MCSpec => [][(part \in EvidencePart) => Reader!AcceptsPublishedRecord]_allVars
  BY <1>2, PartsInvariant, PTL DEF MCSpec
<1> QED
  BY <1>3, <1>4, PTL DEF EvidenceSound

===============================================================================
