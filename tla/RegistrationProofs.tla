-------------------------- MODULE RegistrationProofs --------------------------
(***************************************************************************)
(* The split signing of events and the work with the registry, for any     *)
(* drafts, signers and writers, any domains and any number of calls.       *)
(***************************************************************************)
EXTENDS MCRegistration, FiniteSetTheorems, TLAPS

(***************************************************************************)
(* An envelope determines the entry that may be made of it: every role's   *)
(* signature is by the key the envelope or the writer's context names,     *)
(* over the envelope.  So an entry that is written twice is the same.      *)
(***************************************************************************)
Envelopes ==
    UNION {SigningPlan[p].others \cup {Split!event_to_c2sp_envelope(q) : q \in SigningPlan[p].requests}
           : p \in Part}

RoleKey(env, r) == Split!key_for_role(env, r, WriterContext)
Roles(env) == Split!required_c2sp_signature_names(env.type)

Complete(env) ==
    /\ Split!prepared_envelope_valid(env, env.lr)
    /\ \A r \in Roles(env) : RoleKey(env, r) # Split!None

Sealed(env) ==
    [env |-> env, sigs |-> [r \in Roles(env) |-> Split!Signature(RoleKey(env, r), env)]]

Entries == {Sealed(env) : env \in {e \in Envelopes : Complete(e)}}

\* The stream of an entry that is no genesis has begun.
Begun(e) == e.env.seq # 0 => \E j \in 1..Len(log) : log[j].env.lr = e.env.lr

SplitInv ==
    /\ part \in Part /\ drafts \subseteq Envelopes
    /\ log \in Seq(Entries)
    /\ writing \in [SigningPlan[part].writers -> {<<>>} \cup {<<e>> : e \in Entries}]
    /\ \A w \in SigningPlan[part].writers : writing[w] # <<>> => Begun(writing[w][1])
    /\ \A i, j \in 1..Len(log) : log[i] = log[j] => i = j
    /\ Split!SignsOnlyExpected /\ Split!StartsWithGenesis

\* What an entry is.
LEMMA EntryFacts ==
    ASSUME NEW e \in Entries
    PROVE  /\ e = Sealed(e.env) /\ e.env \in Envelopes /\ Complete(e.env)
           /\ DOMAIN e.sigs = Roles(e.env)
           /\ \A r \in Roles(e.env) : e.sigs[r] = Split!Signature(RoleKey(e.env, r), e.env)
  BY DEF Entries, Sealed

\* Nothing is written yet, and only foreign keys have signed.
LEMMA InitSplitInv == Init => SplitInv
  <1> SUFFICES ASSUME Init PROVE SplitInv  OBVIOUS
  <1>1. part \in Part /\ drafts \subseteq Envelopes /\ log = <<>>
    BY DEF Init, Split!Init, Envelopes
  <1>2. writing = [w \in SigningPlan[part].writers |-> <<>>]
    BY DEF Init, Split!Init, Split!NoEntry
  <1>3. Split!SignsOnlyExpected
    BY DEF Init, Split!Init, Split!SignsOnlyExpected, Split!Signature
  <1> QED  BY <1>1, <1>2, <1>3 DEF SplitInv, Split!StartsWithGenesis

\* A process signs only what it was told to expect: its context is checked before
\* it signs, and the context it must have been given depends on its role.
LEMMA SignExpected ==
    ASSUME Split!SignsOnlyExpected, NEW s \in Signers, NEW env, NEW over, NEW sigs,
           Split!Sign(s, env, over, sigs)
    PROVE  Split!SignsOnlyExpected'
  <1>1. /\ env = over /\ s.role \in Roles(env)
        /\ Split!context_sufficient(env, s.role, s.ctx) /\ Split!expected_identity(env, s.ctx)
        /\ s.key = Split!key_for_role(env, s.role, s.ctx)
        /\ made' = made \cup {Split!Signature(s.key, env)}
    BY DEF Split!Sign, Split!prepared_integrity, Roles
  <1>2. env.type = "MIGRATION" => s.role = "ae"
    BY <1>1 DEF Roles, Split!required_c2sp_signature_names
  <1>3. s.role = "op" => env.op = s.key
    BY <1>1 DEF Split!key_for_role
  <1>4. Split!Approves(s, env)
    BY <1>1, <1>2, <1>3
       DEF Split!Approves, Roles, Split!context_sufficient, Split!expected_identity
  <1> QED  BY <1>1, <1>4 DEF Split!SignsOnlyExpected, Split!Signature

\* A complete entry of a draft is the one the draft determines.
LEMMA CompleteIsSealed ==
    ASSUME NEW env \in Envelopes, NEW sigs \in Split!SigSets(env), Split!entry_complete(env, sigs)
    PROVE  [env |-> env, sigs |-> sigs] = Sealed(env) /\ Sealed(env) \in Entries
  <1>1. /\ Split!prepared_envelope_valid(env, env.lr) /\ DOMAIN sigs = Roles(env)
        /\ \A r \in Roles(env) : RoleKey(env, r) # Split!None
                                 /\ sigs[r] = Split!Signature(RoleKey(env, r), env)
    BY DEF Split!entry_complete, Split!verify_existing_signatures, Roles, RoleKey
  <1>2. PICK R : sigs \in [R -> made]  BY DEF Split!SigSets
  <1>3. sigs = [r \in Roles(env) |-> Split!Signature(RoleKey(env, r), env)]
    BY <1>1, <1>2
  <1>4. Complete(env)  BY <1>1 DEF Complete
  <1> QED  BY <1>3, <1>4 DEF Sealed, Entries

\* The components count with the Cardinality of FiniteSets.
LEMMA SameCardinality ==
    \A T : Split!Cardinality(T) = Cardinality(T) /\ Reg!Cardinality(T) = Cardinality(T)
  BY DEF Split!Cardinality, Reg!Cardinality, Cardinality

\* An event that continues a stream finds an entry on it.
LEMMA ChainBegun ==
    ASSUME NEW env, log \in Seq(Entries), env.seq # 0, Split!ChainValid(env)
    PROVE  \E j \in 1..Len(log) : log[j].env.lr = env.lr
  <1>1. Split!Stream(env.lr) # {}
    BY FS_EmptySet, SameCardinality DEF Split!ChainValid
  <1>2. DOMAIN log = 1..Len(log)  OBVIOUS
  <1> QED  BY <1>1, <1>2 DEF Split!Stream

\* Appending an entry keeps every stream's beginning, and every entry single.
LEMMA AppendEntry ==
    ASSUME SplitInv, NEW e \in Entries, Begun(e), ~Split!Appended(e), log' = log \o <<e>>
    PROVE  /\ log' \in Seq(Entries) /\ Len(log') = Len(log) + 1
           /\ \A i \in 1..Len(log) : log'[i] = log[i]
           /\ \A i, j \in 1..Len(log') : log'[i] = log'[j] => i = j
           /\ Split!StartsWithGenesis'
  <1>1. /\ log \in Seq(Entries) /\ Len(log) \in Nat /\ DOMAIN log = 1..Len(log)
        /\ \A i, j \in 1..Len(log) : log[i] = log[j] => i = j
    BY DEF SplitInv
  <1>2. /\ log' \in Seq(Entries) /\ Len(log') = Len(log) + 1
        /\ \A i \in 1..Len(log) : log'[i] = log[i]
        /\ log'[Len(log) + 1] = e
    BY <1>1
  <1>3. \A i \in 1..Len(log) : log[i] # e  BY <1>1 DEF Split!Appended
  <1>4. \A i, j \in 1..Len(log') : log'[i] = log'[j] => i = j  BY <1>1, <1>2, <1>3
  <1>5. Split!StartsWithGenesis'
    <2>1. SUFFICES ASSUME NEW i \in 1..Len(log'),
                          \A j \in 1..(i - 1) : log'[j].env.lr # log'[i].env.lr
                   PROVE  /\ log'[i].env.seq = 0
                          /\ \/ log'[i].env.type = "ISSUANCE"
                             \/ /\ log'[i].env.type = "MIGRATION"
                                /\ log'[i].env.new_lr = log'[i].env.lr
      BY DEF Split!StartsWithGenesis
    <2>2. CASE i \in 1..Len(log)
      <3>1. \A j \in 1..(i - 1) : j \in 1..Len(log)  BY <1>1, <2>2
      <3>2. \A j \in 1..(i - 1) : log[j].env.lr # log[i].env.lr  BY <1>2, <2>1, <2>2, <3>1
      <3> QED  BY <1>2, <2>2, <3>2 DEF SplitInv, Split!StartsWithGenesis
    <2>3. CASE i = Len(log) + 1
      <3>1. log'[i] = e /\ \A j \in 1..Len(log) : log[j].env.lr # e.env.lr
        BY <1>1, <1>2, <2>1, <2>3
      <3>2. e.env.seq = 0  BY <3>1 DEF Begun
      <3>3. Split!prepared_envelope_valid(e.env, e.env.lr)  BY EntryFacts DEF Complete
      <3> QED  BY <3>1, <3>2, <3>3 DEF Split!prepared_envelope_valid
    <2> QED  BY <1>1, <1>2, <2>2, <2>3
  <1> QED  BY <1>2, <1>4, <1>5

\* Every step of split signing keeps the invariant.
LEMMA SplitStep ==
    ASSUME SplitInv, part' = part, Split!Next
    PROVE  SplitInv'
  <1> DEFINE Writers == SigningPlan[part].writers
             Slots == {<<>>} \cup {<<e>> : e \in Entries}
  <1>1. ASSUME NEW q \in SigningPlan[part].requests, Split!Prepare(q) PROVE SplitInv'
    <2>1. drafts' \subseteq Envelopes  BY <1>1 DEF Split!Prepare, SplitInv, Envelopes
    <2>2. UNCHANGED <<made, writing, log>>  BY <1>1 DEF Split!Prepare
    <2> QED  BY <2>1, <2>2 DEF SplitInv, Split!SignsOnlyExpected, Split!StartsWithGenesis, Begun
  <1>2. ASSUME NEW s \in Signers, NEW env, NEW over, NEW sigs, Split!Sign(s, env, over, sigs)
        PROVE  SplitInv'
    <2>1. Split!SignsOnlyExpected'  BY <1>2, SignExpected DEF SplitInv
    <2>2. UNCHANGED <<drafts, writing, log>>  BY <1>2 DEF Split!Sign
    <2> QED  BY <2>1, <2>2 DEF SplitInv, Split!StartsWithGenesis, Begun
  <1>3. ASSUME NEW w \in Writers, NEW env \in drafts, NEW sigs \in Split!SigSets(env),
               Split!StartWrite(w, env, sigs)
        PROVE  SplitInv'
    <2> DEFINE e == [env |-> env, sigs |-> sigs]
    <2>1. e \in Entries
      BY <1>3, CompleteIsSealed DEF SplitInv, Split!StartWrite
    <2>2. Begun(e)
      BY <1>3, ChainBegun DEF Split!StartWrite, Begun, SplitInv
    <2>3. writing' = [writing EXCEPT ![w] = <<e>>] /\ UNCHANGED <<drafts, made, log>>
      BY <1>3 DEF Split!StartWrite
    <2> HIDE DEF e
    <2>4. writing' \in [Writers -> Slots]  BY <2>1, <2>3 DEF SplitInv
    <2>5. \A v \in Writers : writing'[v] # <<>> => Begun(writing'[v][1])
      BY <2>2, <2>3 DEF SplitInv
    <2>6. \A x : Begun(x)' <=> Begun(x)  BY <2>3 DEF Begun
    <2> QED  BY <2>3, <2>4, <2>5, <2>6 DEF SplitInv, Split!SignsOnlyExpected, Split!StartsWithGenesis, Begun
  <1>4. ASSUME NEW w \in Writers, Split!Submit(w) \/ Split!SubmitFails(w)
        PROVE  SplitInv'
    <2>1. /\ writing[w] # <<>> /\ writing' = [writing EXCEPT ![w] = <<>>]
          /\ UNCHANGED <<drafts, made>>
      BY <1>4 DEF Split!Submit, Split!SubmitFails, Split!NoEntry
    <2>2. PICK e \in Entries : writing[w] = <<e>>  BY <2>1 DEF SplitInv
    <2>3. Begun(e)
      <3>1. Begun(writing[w][1])  BY <2>1 DEF SplitInv
      <3> QED  BY <2>2, <3>1
    <2>4. /\ writing' \in [Writers -> Slots]
          /\ \A v \in Writers : writing'[v] # <<>> => writing'[v] = writing[v]
      BY <2>1 DEF SplitInv
    <2>5. Split!SignsOnlyExpected'  BY <2>1 DEF SplitInv, Split!SignsOnlyExpected
    <2>6. CASE log' = log
      BY <2>1, <2>4, <2>5, <2>6 DEF SplitInv, Split!StartsWithGenesis, Begun
    <2>7. CASE log' # log
      <3>1. log' = log \o <<e>> /\ ~Split!Appended(e)
        BY <1>4, <2>2, <2>7 DEF Split!Submit, Split!SubmitFails
      <3>2. /\ log' \in Seq(Entries) /\ Len(log') = Len(log) + 1
            /\ \A i \in 1..Len(log) : log'[i] = log[i]
            /\ \A i, j \in 1..Len(log') : log'[i] = log'[j] => i = j
            /\ Split!StartsWithGenesis'
        BY <2>3, <3>1, AppendEntry
      <3>3. Len(log) \in Nat  BY DEF SplitInv
      <3>4. ASSUME NEW x, Begun(x), x.env.seq # 0
            PROVE  \E j \in 1..Len(log') : log'[j].env.lr = x.env.lr
        <4>1. PICK j \in 1..Len(log) : log[j].env.lr = x.env.lr  BY <3>4 DEF Begun
        <4>2. j \in 1..Len(log') /\ log'[j] = log[j]  BY <3>2, <3>3
        <4> QED  BY <4>1, <4>2
      <3>5. \A v \in Writers : writing'[v] # <<>> => Begun(writing'[v][1])
        BY <2>4 DEF SplitInv
      <3> QED  BY <2>1, <2>4, <2>5, <3>2, <3>4, <3>5 DEF SplitInv, Begun
    <2> QED  BY <2>6, <2>7
  <1> QED  BY <1>1, <1>2, <1>3, <1>4 DEF Split!Next

\* The invariant says what EntriesAuthorised does.
LEMMA SplitInvSuffices == SplitInv => EntriesAuthorised
  <1> SUFFICES ASSUME SplitInv PROVE EntriesAuthorised  OBVIOUS
  <1>1. ASSUME NEW i \in 1..Len(log)
        PROVE  log[i] \in Entries
    BY DEF SplitInv
  <1>2. ASSUME NEW env, Complete(env), NEW r \in Roles(env)
        PROVE  RoleKey(env, r) = Split!Holder(env, r)
    BY <1>2 DEF Complete, Roles, RoleKey, Split!Holder, Split!key_for_role,
                Split!required_c2sp_signature_names
  <1>3. ASSUME NEW env, Complete(env), env.type = "ISSUANCE"
        PROVE  WriterContext.entity_key \in {Split!None, env.ek}
    BY <1>3 DEF Complete, Roles, RoleKey, Split!key_for_role, Split!required_c2sp_signature_names
  <1>4. Split!EntriesAuthorised
    BY <1>1, <1>2, <1>3, EntryFacts DEF Split!EntriesAuthorised, Roles
  <1>5. Split!AppendedOnce
    BY <1>1, EntryFacts DEF Split!AppendedOnce, SplitInv
  <1> QED  BY <1>4, <1>5 DEF EntriesAuthorised, SplitInv

-----------------------------------------------------------------------------
(* The registry and the application *)

Statuses == {"PENDING", "VERIFICATION", "VERIFIED", "READY", "ERROR", "REJECTED", "CANCELLED",
             "REVOKED", "RETIRED"}
Operations == {"register", "verify", "challenge", "cancel", "unregister", "wait", "await",
               "publish", "end"}
Places == {"start", "detail", "poll", "sleep", "content", "submit", "again"}

AgentRecords ==
    [domain : Domain, status : Statuses, published : BOOLEAN, managed : {"client", "registry"},
     answered : BOOLEAN, mine : BOOLEAN]
Calls ==
    [op : Operations \cup {"none"}, at : Places \cup {"idle"}, domain : Domain, id : Nat,
     left : 0..MaxWait]
Outcomes ==
    [op : Operations \cup {"none"}, how : {"returned", "raised", "none"}, id : Nat, facts : Nat,
     seen : Nat, status : Statuses \cup {"none"}, published : BOOLEAN, created : Nat]
Ids == 1..Len(agents)

\* Under an idempotency key the application's only agent is the one the registry
\* remembers for the key.
RegistryOK ==
    /\ agents \in Seq(AgentRecords)
    /\ current \in [Domain -> 0..Len(agents)] /\ idem \in 0..Len(agents)
    /\ Keyed => \A i \in Ids : agents[i].mine => i = idem

\* What a call knows where it stands: the detail is read of an agent that was
\* created, the agent to end exists, what is submitted is the local content, and
\* a sleep has time left.
CallOK ==
    /\ call \in Calls
    /\ call.at = "detail" => call.op = "register" /\ call.id \in Ids
    /\ call.op = "end" => call.id \in Ids
    /\ call.at = "submit" => call.op = "publish" /\ call.id = 1
    /\ call.at \in {"poll", "sleep"} => call.op \in {"wait", "await"}
    /\ call.at = "sleep" => call.left # 0

\* What the end of a call says.
OutcomeOK ==
    /\ outcome \in Outcomes
    /\ Reg!ReturnsWhatItCreated /\ Reg!FailureKeepsFacts
    /\ outcome.op = "await" /\ outcome.how = "returned" =>
         outcome.seen \in Ids /\ agents[outcome.seen].managed = "registry" /\ outcome.published
    /\ outcome.op = "publish" /\ outcome.how = "returned" => outcome.id = 1

AppOK ==
    /\ known \subseteq Ids /\ calls \in 0..MaxCalls
    /\ ended \subseteq Ids \X Ids /\ Reg!EndsNamedAgent

RegInv == part \in Part /\ RegistryOK /\ CallOK /\ OutcomeOK /\ AppOK

\* No agent is ever removed or managed by another party.
Grown ==
    /\ Len(agents) <= Len(agents')
    /\ \A i \in Ids : agents'[i].managed = agents[i].managed

\* What is assumed of the constants.
LEMMA RegConstants ==
    /\ Exact \in Domain /\ Keyed \in BOOLEAN /\ MaxWait \in Nat /\ MaxAgents \in Nat /\ MaxCalls \in Nat
    /\ \A p \in Part : RegistryPlan[p].domains \subseteq Domain
  BY RegistrationAssumption DEF Reg!WorkflowAssumption

\* No call is under way.
LEMMA NoCallFacts ==
    /\ Reg!NoCall \in Calls /\ Reg!NoCall.op = "none" /\ Reg!NoCall.at = "idle"
  BY RegConstants DEF Reg!NoCall, Calls, Operations, Places

\* No call has ended.
LEMMA NoOutcomeFacts ==
    /\ Reg!NoOutcome \in Outcomes /\ Reg!NoOutcome.op = "none" /\ Reg!NoOutcome.how = "none"
    /\ Reg!NoOutcome.id = 0 /\ Reg!NoOutcome.facts = 0 /\ Reg!NoOutcome.created = 0
  BY DEF Reg!NoOutcome, Outcomes

\* An empty registry.
LEMMA InitRegInv == Init => RegInv
  <1> SUFFICES ASSUME Init PROVE RegInv  OBVIOUS
  <1> USE RegConstants DEF Init, Reg!Init
  <1>1. RegistryOK  BY DEF RegistryOK, Ids
  <1>2. CallOK  BY NoCallFacts DEF CallOK
  <1>3. OutcomeOK  BY NoOutcomeFacts DEF OutcomeOK, Reg!ReturnsWhatItCreated, Reg!FailureKeepsFacts
  <1>4. AppOK  BY DEF AppOK, Reg!EndsNamedAgent
  <1> QED  BY <1>1, <1>2, <1>3, <1>4 DEF RegInv

\* An agent changes its status; who asked for it and who manages it stay.
LEMMA AgentSet ==
    ASSUME RegInv, NEW i \in Ids, NEW a \in AgentRecords, Reg!SetAgent(i, a),
           a.managed = agents[i].managed, a.mine = agents[i].mine, UNCHANGED <<current, idem>>
    PROVE  RegistryOK' /\ Grown
  BY DEF RegInv, RegistryOK, Ids, Grown, Reg!SetAgent

\* An agent is created.
LEMMA AgentAdded ==
    ASSUME RegInv, NEW a \in AgentRecords, NEW d \in Domain, agents' = Append(agents, a),
           current' = [current EXCEPT ![d] = Len(agents) + 1],
           idem' = idem \/ idem' = Len(agents) + 1,
           Keyed => (a.mine => idem = 0 /\ idem' = Len(agents) + 1)
                    /\ (~a.mine => idem' = idem)
    PROVE  RegistryOK' /\ Grown /\ Len(agents') = Len(agents) + 1
  <1>1. agents \in Seq(AgentRecords) /\ Len(agents) \in Nat  BY DEF RegInv, RegistryOK
  <1>2. /\ agents' \in Seq(AgentRecords) /\ Len(agents') = Len(agents) + 1
        /\ \A i \in Ids : agents'[i] = agents[i]
        /\ agents'[Len(agents) + 1] = a
    BY <1>1 DEF Ids
  <1>3. Grown
    <2>1. \A i \in Ids : agents'[i].managed = agents[i].managed  BY <1>2
    <2>2. Len(agents) <= Len(agents')  BY <1>1, <1>2
    <2> QED  BY <2>1, <2>2 DEF Grown
  <1>4. current' \in [Domain -> 0..Len(agents')] /\ idem' \in 0..Len(agents')
    BY <1>1, <1>2 DEF RegInv, RegistryOK
  <1>5. Keyed => \A i \in 1..Len(agents') : agents'[i].mine => i = idem'
    BY <1>1, <1>2 DEF RegInv, RegistryOK, Ids
  <1> QED  BY <1>2, <1>3, <1>4, <1>5 DEF RegistryOK, Ids

\* What does not change stays right while the registry grows.
LEMMA GrownKeeps ==
    ASSUME RegInv, Grown, Len(agents') \in Nat
    PROVE  /\ UNCHANGED call => CallOK'
           /\ UNCHANGED outcome => OutcomeOK'
           /\ UNCHANGED <<known, calls, ended>> => AppOK'
           /\ \A i \in Ids : i \in Ids'
  <1>1. Len(agents) \in Nat  BY DEF RegInv, RegistryOK
  <1>2. \A i \in Ids : i \in Ids'  BY <1>1 DEF Ids, Grown
  <1>3. UNCHANGED call => CallOK'  BY <1>2 DEF RegInv, CallOK
  <1>4. UNCHANGED outcome => OutcomeOK'
    BY <1>2 DEF RegInv, OutcomeOK, Reg!ReturnsWhatItCreated, Reg!FailureKeepsFacts, Grown
  <1>5. UNCHANGED <<known, calls, ended>> => AppOK'
    BY <1>2 DEF RegInv, AppOK, Reg!EndsNamedAgent
  <1> QED  BY <1>2, <1>3, <1>4, <1>5

\* A registry that is left alone.
LEMMA Untouched ==
    ASSUME RegInv, UNCHANGED agents
    PROVE  Grown /\ Len(agents') \in Nat
  BY DEF RegInv, RegistryOK, Grown

\* The agent of a domain.
LEMMA HasAgent ==
    ASSUME RegInv, NEW d \in Domain, Reg!Has(d)
    PROVE  current[d] \in Ids /\ Reg!Agent(d) = agents[current[d]] /\ Reg!Agent(d) \in AgentRecords
  BY DEF RegInv, RegistryOK, Reg!Has, Reg!Agent, Ids

\* How a call ends.
LEMMA Ends ==
    ASSUME call \in Calls, NEW o \in Outcomes
    PROVE  /\ Reg!Raise(o) => /\ call' = Reg!NoCall /\ outcome' \in Outcomes
                              /\ outcome'.op = call.op /\ outcome'.how = "raised"
                              /\ outcome'.facts = o.facts /\ outcome'.created = o.created
           /\ Reg!Return(o) => /\ call' = Reg!NoCall /\ outcome' \in Outcomes
                               /\ outcome'.op = call.op /\ outcome'.how = "returned"
                               /\ outcome'.seen = o.seen /\ outcome'.id = o.id
                               /\ outcome'.published = o.published
  BY DEF Reg!Raise, Reg!Return, Reg!End, Outcomes, Calls

\* A call that raises says what it knows to have been created.
LEMMA Raised ==
    ASSUME RegInv, NEW o \in Outcomes, o.facts = o.created, Reg!Raise(o)
    PROVE  CallOK' /\ OutcomeOK'
  <1>1. call \in Calls  BY DEF RegInv, CallOK
  <1>2. /\ call' = Reg!NoCall /\ outcome' \in Outcomes /\ outcome'.how = "raised"
        /\ outcome'.facts = outcome'.created
    BY <1>1, Ends
  <1>3. CallOK'  BY <1>2, NoCallFacts DEF CallOK
  <1> QED  BY <1>2, <1>3 DEF OutcomeOK, Reg!ReturnsWhatItCreated, Reg!FailureKeepsFacts

\* A call that returns.
LEMMA Returned ==
    ASSUME RegInv, NEW o \in Outcomes, Reg!Return(o),
           call.op = "register" => o.seen = o.id,
           call.op = "await" => o.seen \in Ids' /\ agents'[o.seen].managed = "registry" /\ o.published,
           call.op = "publish" => o.id = 1
    PROVE  CallOK' /\ OutcomeOK'
  <1>1. call \in Calls  BY DEF RegInv, CallOK
  <1>2. /\ call' = Reg!NoCall /\ outcome' \in Outcomes /\ outcome'.how = "returned"
        /\ outcome'.op = call.op /\ outcome'.seen = o.seen /\ outcome'.id = o.id
        /\ outcome'.published = o.published
    BY <1>1, Ends
  <1>3. CallOK'  BY <1>2, NoCallFacts DEF CallOK
  <1> QED  BY <1>2, <1>3 DEF OutcomeOK, Reg!ReturnsWhatItCreated, Reg!FailureKeepsFacts

\* A request that was acted on, whose answer may be lost.
LEMMA Answered ==
    ASSUME RegInv, NEW o \in Outcomes, NEW lost \in BOOLEAN, o.facts = o.created, Reg!Answer(lost, o),
           call.op \notin {"register", "await"}, call.op = "publish" => o.id = 1
    PROVE  CallOK' /\ OutcomeOK'
  <1>1. CASE lost  BY <1>1, Raised, NoOutcomeFacts DEF Reg!Answer
  <1>2. CASE ~lost  BY <1>2, Returned DEF Reg!Answer
  <1> QED  BY <1>1, <1>2

\* A call goes on where it may.
LEMMA Went ==
    ASSUME RegInv, NEW at \in Places \ {"detail", "submit", "sleep"}, Reg!Go(at),
           at = "poll" => call.op \in {"wait", "await"},
           UNCHANGED agents
    PROVE  CallOK' /\ OutcomeOK'
  <1>1. call \in Calls  BY DEF RegInv, CallOK
  <1>2. /\ call' \in Calls /\ call'.at = at /\ call'.op = call.op /\ call'.id = call.id
        /\ call'.left = call.left
    BY <1>1 DEF Reg!Go, Calls
  <1>3. CallOK'  BY <1>2 DEF CallOK, RegInv, Ids
  <1> QED  BY <1>3, Untouched, GrownKeeps DEF Reg!Go

\* Failures of a registration.
LEMMA RegistrationFails ==
    ASSUME RegInv, NEW i \in Ids', Reg!RegisterRaises(i), RegistryOK', Grown, UNCHANGED <<part, calls, ended>>
    PROVE  RegInv'
  <1> DEFINE o == [Reg!NoOutcome EXCEPT !.facts = i, !.created = i]
  <1>1. i \in Nat /\ Len(agents') \in Nat  BY DEF RegistryOK, Ids
  <1>2. o \in Outcomes /\ o.facts = o.created
    BY <1>1, NoOutcomeFacts DEF Outcomes
  <1>3. Reg!Raise(o) /\ known' = known \cup ({i} \ {0})
    BY DEF Reg!RegisterRaises, Reg!Facts
  <1>4. CallOK' /\ OutcomeOK'  BY <1>2, <1>3, Raised
  <1>5. AppOK'
    BY <1>1, <1>3, GrownKeeps DEF RegInv, AppOK, Reg!EndsNamedAgent
  <1> QED  BY <1>4, <1>5 DEF RegInv

\* The registry's own work and other clients.
LEMMA RegistryStep ==
    ASSUME RegInv, Reg!Registry, UNCHANGED part
    PROVE  RegInv'
  <1> USE DEF Statuses
  <1>1. agents \in Seq(AgentRecords) /\ \A i \in Ids : agents[i] \in AgentRecords
    BY DEF RegInv, RegistryOK, Ids
  <1>2. ASSUME NEW i \in Ids, Reg!Progress(i) \/ Reg!OtherActs(i) PROVE RegInv'
    <2>1. PICK a \in AgentRecords : /\ Reg!SetAgent(i, a)
                                    /\ a.managed = agents[i].managed /\ a.mine = agents[i].mine
      <3>1. PICK x \in AgentRecords : x = agents[i]  BY <1>1
      <3> DEFINE To(st) == [x EXCEPT !.status = st]
      <3>2. \A st \in Statuses : /\ To(st) \in AgentRecords
                                 /\ To(st).managed = x.managed /\ To(st).mine = x.mine
        BY DEF AgentRecords
      <3>3. [x EXCEPT !.answered = TRUE] \in AgentRecords
            /\ [x EXCEPT !.answered = TRUE].managed = x.managed
            /\ [x EXCEPT !.answered = TRUE].mine = x.mine
        BY DEF AgentRecords
      <3> DEFINE Ready == [x EXCEPT !.status = "READY", !.published = TRUE]
      <3>4. Ready \in AgentRecords /\ Ready.managed = x.managed /\ Ready.mine = x.mine
        BY DEF AgentRecords
      <3>5. \/ \E st \in Statuses : Reg!SetAgent(i, To(st))
            \/ Reg!SetAgent(i, [x EXCEPT !.answered = TRUE])
            \/ Reg!SetAgent(i, Ready)
        BY <1>2, <3>1 DEF Reg!Progress, Reg!OtherActs
      <3> HIDE DEF To, Ready
      <3> QED  BY <3>1, <3>2, <3>3, <3>4, <3>5
    <2>2. UNCHANGED <<current, idem, call, outcome, known, calls, ended>>
      BY <1>2 DEF Reg!Progress, Reg!OtherActs, Reg!app
    <2>3. RegistryOK' /\ Grown  BY <2>1, <2>2, AgentSet
    <2> QED  BY <2>2, <2>3, GrownKeeps DEF RegInv, RegistryOK
  <1>3. ASSUME NEW d \in Domain, Reg!OtherRevokes(d) PROVE RegInv'
    <2>1. current[d] \in Ids /\ Reg!Agent(d) = agents[current[d]] /\ Reg!Agent(d) \in AgentRecords
      BY <1>3, HasAgent DEF Reg!OtherRevokes
    <2>2. [Reg!Agent(d) EXCEPT !.status = "REVOKED"] \in AgentRecords
          /\ [Reg!Agent(d) EXCEPT !.status = "REVOKED"].managed = agents[current[d]].managed
          /\ [Reg!Agent(d) EXCEPT !.status = "REVOKED"].mine = agents[current[d]].mine
      BY <2>1 DEF AgentRecords
    <2>3. UNCHANGED <<current, idem, call, outcome, known, calls, ended>>
      BY <1>3 DEF Reg!OtherRevokes, Reg!app
    <2>4. RegistryOK' /\ Grown  BY <1>3, <2>1, <2>2, <2>3, AgentSet DEF Reg!OtherRevokes
    <2> QED  BY <2>3, <2>4, GrownKeeps DEF RegInv, RegistryOK
  <1>4. ASSUME NEW d \in Domain, NEW m \in {"client", "registry"}, Reg!OtherRegisters(d, m)
        PROVE  RegInv'
    <2>1. Reg!Created(d, m, FALSE) \in AgentRecords /\ Reg!Created(d, m, FALSE).mine = FALSE
      BY DEF Reg!Created, AgentRecords
    <2>2. UNCHANGED <<idem, call, outcome, known, calls, ended>>
      BY <1>4 DEF Reg!OtherRegisters, Reg!app
    <2>3. RegistryOK' /\ Grown  BY <1>4, <2>1, <2>2, AgentAdded DEF Reg!OtherRegisters
    <2> QED  BY <2>2, <2>3, GrownKeeps DEF RegInv, RegistryOK
  <1> QED  BY <1>2, <1>3, <1>4, RegConstants DEF Reg!Registry, RegInv, Ids

\* Beginning a call.
LEMMA BeginStep ==
    ASSUME RegInv, NEW op \in Operations, NEW d \in Domain, NEW i \in Nat, op = "end" => i \in Ids,
           Reg!Begin(op, d, i), UNCHANGED part
    PROVE  RegInv'
  <1>1. UNCHANGED <<agents, current, idem, known, ended>> /\ calls' = calls + 1 /\ calls < MaxCalls
    BY DEF Reg!Begin, Reg!registry
  <1>2. /\ call' \in Calls /\ call'.op = op /\ call'.at = "start" /\ call'.id = i
    BY RegConstants DEF Reg!Begin, Calls, Places
  <1>3. CallOK'  BY <1>1, <1>2 DEF CallOK, Ids
  <1>4. OutcomeOK'
    BY NoOutcomeFacts DEF Reg!Begin, OutcomeOK, Reg!ReturnsWhatItCreated, Reg!FailureKeepsFacts
  <1>5. AppOK'  BY <1>1, RegConstants DEF RegInv, AppOK, Reg!EndsNamedAgent, Ids
  <1>6. RegistryOK'  BY <1>1 DEF RegInv, RegistryOK, Ids
  <1> QED  BY <1>3, <1>4, <1>5, <1>6 DEF RegInv

\* The POST of a registration: a replay under the key finds the agent that was
\* created, so the application has one agent only.
LEMMA RegisterPostStep ==
    ASSUME RegInv, NEW d \in Domain, NEW m \in {"client", "registry"},
           NEW answer \in {"lost", "invalid", "valid"}, Reg!RegisterPost(d, m, answer), UNCHANGED part
    PROVE  RegInv'
  <1> USE RegConstants
  <1>1. /\ agents \in Seq(AgentRecords) /\ Len(agents) \in Nat /\ idem \in 0..Len(agents)
        /\ call \in Calls /\ call.op = "register"
    BY DEF RegInv, RegistryOK, CallOK, Reg!RegisterPost, Reg!At
  <1> DEFINE replay == Keyed /\ idem # 0
             i == IF replay THEN idem ELSE Len(agents) + 1
  <1>2. RegistryOK' /\ Grown /\ i \in Ids' /\ (replay => UNCHANGED agents)
    <2>1. CASE replay
      <3>1. UNCHANGED <<agents, current, idem>>
        BY <2>1 DEF Reg!RegisterPost, Reg!SendsKey, Reg!registry
      <3> QED  BY <1>1, <2>1, <3>1 DEF RegInv, RegistryOK, Ids, Grown
    <2>2. CASE ~replay
      <3>1. /\ agents' = Append(agents, Reg!Created(d, m, TRUE))
            /\ current' = [current EXCEPT ![d] = Len(agents) + 1]
            /\ idem' = IF Keyed THEN Len(agents) + 1 ELSE idem
        BY <2>2 DEF Reg!RegisterPost, Reg!SendsKey
      <3>2. Reg!Created(d, m, TRUE) \in AgentRecords /\ Reg!Created(d, m, TRUE).mine = TRUE
        BY DEF Reg!Created, AgentRecords, Statuses
      <3>3. RegistryOK' /\ Grown /\ Len(agents') = Len(agents) + 1
        BY <2>2, <3>1, <3>2, AgentAdded
      <3> QED  BY <1>1, <2>2, <3>3 DEF Ids
    <2> QED  BY <2>1, <2>2
  <1>3. UNCHANGED <<calls, ended>> /\ Len(agents') \in Nat
    BY <1>2 DEF Reg!RegisterPost, RegistryOK
  <1>4. CASE answer = "lost"
    <2>1. Reg!Raise(Reg!NoOutcome) /\ UNCHANGED known  BY <1>4 DEF Reg!RegisterPost
    <2>2. CallOK' /\ OutcomeOK'  BY <2>1, Raised, NoOutcomeFacts
    <2> QED  BY <1>2, <1>3, <2>1, <2>2, GrownKeeps DEF RegInv
  <1>5. CASE answer = "invalid"
    <2>1. Reg!RegisterRaises(i)  BY <1>5 DEF Reg!RegisterPost, Reg!SendsKey
    <2> QED  BY <1>2, <1>3, <2>1, RegistrationFails
  <1>6. CASE answer = "valid"
    <2>1. /\ call' = [call EXCEPT !.at = "detail", !.id = i,
                                  !.domain = IF replay THEN agents[i].domain ELSE d]
          /\ UNCHANGED <<outcome, known>>
      BY <1>6 DEF Reg!RegisterPost, Reg!SendsKey
    <2>2. (IF replay THEN agents[i].domain ELSE d) \in Domain
      <3>1. ASSUME replay PROVE agents[idem] \in AgentRecords  BY <1>1, <3>1
      <3>2. ASSUME replay PROVE agents[idem].domain \in Domain  BY <3>1, <3>2 DEF AgentRecords
      <3> QED  BY <3>2
    <2>3. i \in Nat  BY <1>1
    <2> HIDE DEF i, replay
    <2>4. call' \in Calls /\ call'.at = "detail" /\ call'.op = "register" /\ call'.id = i
      BY <1>1, <2>1, <2>2, <2>3 DEF Calls, Places
    <2>5. CallOK'  BY <1>2, <2>4 DEF CallOK
    <2> QED  BY <1>2, <1>3, <2>1, <2>5, GrownKeeps DEF RegInv
  <1> QED  BY <1>4, <1>5, <1>6

\* The detail is read, or any exchange fails.
LEMMA RegisterEndStep ==
    ASSUME RegInv, Reg!RegisterDetail \/ Reg!ExchangeFails, UNCHANGED part
    PROVE  RegInv'
  <1>1. UNCHANGED <<agents, current, idem, calls, ended>>
    BY DEF Reg!RegisterDetail, Reg!ExchangeFails, Reg!registry
  <1>2. RegistryOK' /\ Grown /\ Len(agents') \in Nat
    BY <1>1, Untouched DEF RegInv, RegistryOK, Ids
  <1>3. call.at = "detail" => call.op = "register" /\ call.id \in Ids /\ call.id \in Ids'
    BY <1>1 DEF RegInv, CallOK, Ids
  <1>4. CASE call.at = "detail" /\ Reg!RegisterRaises(call.id)
    BY <1>1, <1>2, <1>3, <1>4, RegistrationFails
  <1>5. CASE Reg!Raise(Reg!NoOutcome) /\ UNCHANGED known
    <2>1. CallOK' /\ OutcomeOK'  BY <1>5, Raised, NoOutcomeFacts
    <2> QED  BY <1>1, <1>2, <1>5, <2>1, GrownKeeps DEF RegInv
  <1>6. CASE /\ Reg!RegisterDetail /\ Reg!Has(call.domain) /\ Reg!SameAgent(call.id)
    <2> DEFINE i == call.id
               o == [Reg!NoOutcome EXCEPT !.id = i, !.seen = current[call.domain], !.created = i]
    <2>1. /\ call.op = "register" /\ Reg!Return(o) /\ known' = known \cup {i}
          /\ current[call.domain] = i
      BY <1>6 DEF Reg!RegisterDetail, Reg!At, Reg!SameAgent
    <2>2. i \in Ids /\ i \in Nat  BY <1>3, <1>6 DEF Reg!RegisterDetail, Reg!At, Ids, RegInv, RegistryOK
    <2>3. o \in Outcomes /\ o.seen = o.id
      BY <2>1, <2>2, NoOutcomeFacts DEF Outcomes
    <2>4. CallOK' /\ OutcomeOK'  BY <2>1, <2>3, Returned
    <2>5. AppOK'  BY <1>1, <2>1, <2>2 DEF RegInv, AppOK, Reg!EndsNamedAgent, Ids
    <2> QED  BY <1>2, <2>4, <2>5 DEF RegInv
  <1> QED  BY <1>4, <1>5, <1>6 DEF Reg!RegisterDetail, Reg!ExchangeFails, Reg!At

\* Requests that change the status of a domain's agent: challenge, end, cancel and
\* the submission of a signature.
LEMMA RequestStep ==
    ASSUME RegInv, NEW lost \in BOOLEAN, NEW st \in {"REVOKED", "RETIRED"},
           \/ Reg!SubmitChallenge(lost) \/ Reg!EndAgent(st, lost) \/ Reg!CancelAgent(lost)
           \/ Reg!PublishSubmit(lost),
           UNCHANGED part
    PROVE  RegInv'
  <1> DEFINE d == call.domain
             a == Reg!Agent(d)
  <1>1. d \in Domain /\ Reg!Has(d) /\ UNCHANGED <<current, idem, known, calls>>
    BY DEF RegInv, CallOK, Calls, Reg!SubmitChallenge, Reg!EndAgent, Reg!CancelAgent,
           Reg!PublishSubmit, Reg!app
  <1>2. current[d] \in Ids /\ a = agents[current[d]] /\ a \in AgentRecords
    BY <1>1, HasAgent
  <1>3. PICK x \in AgentRecords : /\ Reg!SetAgent(current[d], x)
                                  /\ x.managed = a.managed /\ x.mine = a.mine
    <2>1. PICK b \in AgentRecords : b = a  BY <1>2
    <2> DEFINE To(s) == [b EXCEPT !.status = s]
    <2>2. \A s \in Statuses : /\ To(s) \in AgentRecords
                              /\ To(s).managed = b.managed /\ To(s).mine = b.mine
      BY DEF AgentRecords
    <2>3. [b EXCEPT !.answered = TRUE] \in AgentRecords
          /\ [b EXCEPT !.answered = TRUE].managed = b.managed
          /\ [b EXCEPT !.answered = TRUE].mine = b.mine
      BY DEF AgentRecords
    <2> DEFINE Ready == [b EXCEPT !.status = "READY", !.published = TRUE]
    <2>4. Ready \in AgentRecords /\ Ready.managed = b.managed /\ Ready.mine = b.mine
      BY DEF AgentRecords, Statuses
    <2>5. \/ \E s \in Statuses : Reg!SetAgent(current[d], To(s))
          \/ Reg!SetAgent(current[d], [b EXCEPT !.answered = TRUE])
          \/ Reg!SetAgent(current[d], Ready)
      BY <2>1 DEF Reg!SubmitChallenge, Reg!EndAgent, Reg!CancelAgent, Reg!PublishSubmit, Statuses
    <2> HIDE DEF To, Ready
    <2> QED  BY <2>1, <2>2, <2>3, <2>4, <2>5
  <1>4. RegistryOK' /\ Grown  BY <1>1, <1>2, <1>3, AgentSet
  <1>5. Len(agents') \in Nat  BY <1>4 DEF RegistryOK
  <1>6. CallOK' /\ OutcomeOK'
    <2>1. CASE call.op = "publish"
      <3>1. Reg!Answer(lost, [Reg!NoOutcome EXCEPT !.id = call.id]) /\ call.at = "submit"
        BY <2>1 DEF Reg!SubmitChallenge, Reg!EndAgent, Reg!CancelAgent, Reg!PublishSubmit, Reg!At
      <3>2. call.id = 1  BY <3>1 DEF RegInv, CallOK
      <3> DEFINE o == [Reg!NoOutcome EXCEPT !.id = call.id]
      <3>3. o \in Outcomes /\ o.id = 1 /\ o.facts = o.created
        BY <3>2, NoOutcomeFacts DEF Outcomes
      <3> QED  BY <2>1, <3>1, <3>3, Answered
    <2>2. CASE call.op # "publish"
      <3>1. Reg!Answer(lost, Reg!NoOutcome) /\ call.op \in {"challenge", "end", "cancel"}
        BY <2>2 DEF Reg!SubmitChallenge, Reg!EndAgent, Reg!CancelAgent, Reg!PublishSubmit, Reg!At
      <3> QED  BY <2>2, <3>1, Answered, NoOutcomeFacts
    <2> QED  BY <2>1, <2>2
  <1>7. AppOK'
    <2>1. CASE UNCHANGED ended  BY <1>1, <1>4, <1>5, <2>1, GrownKeeps
    <2>2. CASE Reg!EndAgent(st, lost)
      <3>1. /\ call.id = current[d] /\ ended' = ended \cup {<<current[d], current[d]>>}
        BY <2>2 DEF Reg!EndAgent, Reg!NamesAgent
      <3>2. current[d] \in Ids' /\ \A i \in Ids : i \in Ids'  BY <1>2, <1>4, <1>5, GrownKeeps
      <3> QED  BY <1>1, <3>1, <3>2 DEF RegInv, AppOK, Reg!EndsNamedAgent
    <2> QED  BY <2>1, <2>2 DEF Reg!SubmitChallenge, Reg!CancelAgent, Reg!PublishSubmit, Reg!app
  <1> QED  BY <1>4, <1>6, <1>7 DEF RegInv

\* Calls that read the registry, and unregister_agent.
LEMMA ReadStep ==
    ASSUME RegInv, UNCHANGED part,
           \/ Reg!VerifyAgent \/ Reg!VerifyDetail \/ Reg!StartWait \/ Reg!AwaitStart \/ Reg!PublishStart
           \/ \E lost \in BOOLEAN : Reg!UnregisterAgent(lost)
    PROVE  RegInv'
  <1>1. /\ UNCHANGED <<agents, idem, known, calls, ended>> /\ call.domain \in Domain
    BY DEF Reg!VerifyAgent, Reg!VerifyDetail, Reg!StartWait, Reg!AwaitStart, Reg!PublishStart,
           Reg!UnregisterAgent, Reg!app, Reg!registry, RegInv, CallOK, Calls
  <1>2. RegistryOK'
    BY <1>1 DEF Reg!VerifyAgent, Reg!VerifyDetail, Reg!StartWait, Reg!AwaitStart, Reg!PublishStart,
           Reg!UnregisterAgent, Reg!registry, RegInv, RegistryOK, Ids
  <1>3. AppOK'  BY <1>1, Untouched, GrownKeeps
  <1>4. CASE Reg!Raise(Reg!NoOutcome)
    BY <1>2, <1>3, <1>4, Raised, NoOutcomeFacts DEF RegInv
  <1>5. ASSUME NEW at \in {"poll", "again", "content"}, Reg!Go(at),
               at = "poll" => call.op \in {"wait", "await"}
        PROVE  RegInv'
    BY <1>1, <1>2, <1>3, <1>5, Went DEF RegInv, Places
  <1>6. CASE Reg!VerifyDetail /\ Reg!Has(call.domain)
    <2> DEFINE o == [Reg!NoOutcome EXCEPT !.seen = current[call.domain]]
    <2>1. Reg!Return(o) /\ call.op = "verify"  BY <1>6 DEF Reg!VerifyDetail, Reg!At
    <2>2. current[call.domain] \in Nat  BY <1>1 DEF RegInv, RegistryOK
    <2>3. o \in Outcomes  BY <2>2, NoOutcomeFacts DEF Outcomes
    <2> QED  BY <1>2, <1>3, <2>1, <2>3, Returned DEF RegInv
  <1>7. CASE \E lost \in BOOLEAN : Reg!UnregisterAgent(lost)
    <2>1. PICK lost \in BOOLEAN : Reg!UnregisterAgent(lost)  BY <1>7
    <2>2. Reg!Answer(lost, Reg!NoOutcome) /\ call.op = "unregister"
      BY <2>1 DEF Reg!UnregisterAgent, Reg!At
    <2> QED  BY <1>2, <1>3, <2>2, Answered, NoOutcomeFacts DEF RegInv
  <1> QED
    BY <1>4, <1>5, <1>6, <1>7
       DEF Reg!VerifyAgent, Reg!VerifyDetail, Reg!StartWait, Reg!AwaitStart, Reg!PublishStart, Reg!At

\* A poll, a sleep, and what follows the wait for a managed publication.
LEMMA WaitStep ==
    ASSUME RegInv, UNCHANGED part,
           Reg!Poll \/ Reg!Sleep \/ \E b \in BOOLEAN : Reg!AwaitAgain(b)
    PROVE  RegInv'
  <1>1. UNCHANGED <<agents, current, idem, known, calls, ended>> /\ call.domain \in Domain
    BY DEF Reg!Poll, Reg!Sleep, Reg!AwaitAgain, Reg!app, Reg!registry, RegInv, CallOK, Calls
  <1>2. RegistryOK' /\ AppOK'
    BY <1>1, Untouched, GrownKeeps DEF RegInv, RegistryOK, Ids
  <1>3. SUFFICES CallOK' /\ OutcomeOK'  BY <1>2 DEF RegInv
  <1> DEFINE d == call.domain
             a == Reg!Agent(d)
             seen == [Reg!NoOutcome EXCEPT !.seen = current[d], !.status = a.status,
                                           !.published = a.published]
  <1>4. ASSUME Reg!Has(d)
        PROVE  /\ current[d] \in Ids /\ a = agents[current[d]] /\ a \in AgentRecords
               /\ seen \in Outcomes /\ seen.facts = seen.created
               /\ seen.seen = current[d] /\ seen.published = a.published
    <2>1. current[d] \in Ids /\ a = agents[current[d]] /\ a \in AgentRecords
      BY <1>1, <1>4, HasAgent
    <2>2. current[d] \in Nat /\ a.status \in Statuses /\ a.published \in BOOLEAN
      BY <2>1 DEF Ids, RegInv, RegistryOK, AgentRecords
    <2>3. PICK s, t, u : s = current[d] /\ t = a.status /\ u = a.published  OBVIOUS
    <2>4. LET o == [Reg!NoOutcome EXCEPT !.seen = s, !.status = t, !.published = u]
          IN  /\ o \in Outcomes /\ o.facts = o.created /\ o.seen = s /\ o.published = u
      BY <2>2, <2>3, NoOutcomeFacts DEF Outcomes
    <2> QED  BY <2>1, <2>3, <2>4
  <1> HIDE DEF seen
  <1>5. CASE Reg!Raise(Reg!NoOutcome)  BY <1>5, Raised, NoOutcomeFacts
  <1>6. CASE Reg!Has(d) /\ Reg!Raise(seen)  BY <1>4, <1>6, Raised
  <1>7. CASE Reg!Has(d) /\ call.op = "wait" /\ Reg!Return(seen)  BY <1>4, <1>7, Returned
  <1>8. CASE Reg!Go("again")  BY <1>1, <1>8, Went DEF Places
  <1>9. CASE Reg!Poll /\ Reg!Go("sleep") /\ call.left # 0
    <2>1. call \in Calls /\ call.op \in {"wait", "await"}
      BY <1>9 DEF RegInv, CallOK, Reg!Poll
    <2>2. call' \in Calls /\ call'.at = "sleep" /\ call'.op = call.op /\ call'.left = call.left
      BY <1>9, <2>1 DEF Reg!Go, Calls, Places
    <2>3. CallOK'  BY <1>9, <2>1, <2>2 DEF CallOK
    <2> QED  BY <1>1, <1>9, <2>3, Untouched, GrownKeeps DEF Reg!Go
  <1>10. CASE Reg!Sleep
    <2>1. /\ call \in Calls /\ call.op \in {"wait", "await"} /\ call.left # 0
          /\ call' = [call EXCEPT !.at = "poll", !.left = call.left - 1] /\ UNCHANGED outcome
      BY <1>10 DEF RegInv, CallOK, Reg!Sleep
    <2>2. call.left - 1 \in 0..MaxWait  BY <2>1, RegConstants DEF Calls
    <2>3. call' \in Calls /\ call'.at = "poll" /\ call'.op = call.op
      BY <2>1, <2>2 DEF Calls, Places
    <2>4. CallOK'  BY <2>1, <2>3 DEF CallOK
    <2> QED  BY <1>1, <2>1, <2>4, Untouched, GrownKeeps
  <1>11. CASE Reg!Has(d) /\ Reg!StillManaged(a) /\ Reg!Return(seen) /\ call.op = "await"
    <2>1. agents'[current[d]].managed = "registry" /\ a.published /\ current[d] \in Ids'
      BY <1>1, <1>4, <1>11 DEF Reg!StillManaged, Ids
    <2> QED  BY <1>4, <1>11, <2>1, Returned
  <1>12. CASE \E b \in BOOLEAN : Reg!AwaitAgain(b)
    BY <1>5, <1>11, <1>12 DEF Reg!AwaitAgain, Reg!At, seen
  <1>13. CASE Reg!Poll
    BY <1>5, <1>6, <1>7, <1>8, <1>9, <1>13 DEF Reg!Poll, Reg!TargetSeen, seen
  <1> QED  BY <1>10, <1>12, <1>13

\* The registry's content is compared with the local record.
LEMMA ContentStep ==
    ASSUME RegInv, UNCHANGED part, NEW b \in BOOLEAN, Reg!PublishContent(b)
    PROVE  RegInv'
  <1>1. UNCHANGED <<agents, current, idem, known, calls, ended>> /\ call.op = "publish"
    BY DEF Reg!PublishContent, Reg!app, Reg!registry, Reg!At
  <1>2. RegistryOK' /\ AppOK'
    BY <1>1, Untouched, GrownKeeps DEF RegInv, RegistryOK, Ids
  <1>3. CASE b
    <2>1. call' = [call EXCEPT !.at = "submit", !.id = 1] /\ UNCHANGED outcome /\ call \in Calls
      BY <1>3 DEF Reg!PublishContent, Reg!Matches, RegInv, CallOK
    <2>2. call' \in Calls /\ call'.at = "submit" /\ call'.op = "publish" /\ call'.id = 1
      BY <1>1, <2>1 DEF Calls, Places
    <2>3. CallOK'  BY <2>2 DEF CallOK
    <2> QED  BY <1>1, <1>2, <2>1, <2>3, Untouched, GrownKeeps DEF RegInv
  <1>4. CASE ~b
    BY <1>2, <1>4, Raised, NoOutcomeFacts DEF Reg!PublishContent, Reg!Matches, RegInv
  <1> QED  BY <1>3, <1>4

\* Every step of the application and of the registry keeps the invariant.
LEMMA RegStep ==
    ASSUME RegInv, UNCHANGED part, Reg!Next
    PROVE  RegInv'
  <1>1. CASE Reg!Registry  BY <1>1, RegistryStep
  <1>2. CASE Reg!Client
    <2>1. ASSUME NEW op \in Operations \ {"end"}, Reg!Begin(op, Exact, 0) PROVE RegInv'
      BY <2>1, BeginStep, RegConstants
    <2>2. ASSUME NEW i \in known, Reg!Begin("end", agents[i].domain, i) PROVE RegInv'
      <3>1. i \in Ids /\ i \in Nat  BY DEF RegInv, AppOK, Ids, RegistryOK
      <3>2. agents[i] \in AgentRecords  BY <3>1 DEF RegInv, RegistryOK, Ids
      <3>3. agents[i].domain \in Domain  BY <3>2 DEF AgentRecords
      <3> QED  BY <2>2, <3>1, <3>3, BeginStep DEF Operations
    <2>3. ASSUME NEW d \in RegistryPlan[part].domains, NEW m \in {"client", "registry"},
                 NEW answer \in {"lost", "invalid", "valid"}, Reg!RegisterPost(d, m, answer)
          PROVE  RegInv'
      <3>1. d \in Domain  BY RegConstants DEF RegInv
      <3> QED  BY <2>3, <3>1, RegisterPostStep
    <2>4. CASE Reg!RegisterDetail \/ Reg!ExchangeFails  BY <2>4, RegisterEndStep
    <2>5. ASSUME NEW lost \in BOOLEAN, NEW st \in {"REVOKED", "RETIRED"},
                 \/ Reg!SubmitChallenge(lost) \/ Reg!EndAgent(st, lost) \/ Reg!CancelAgent(lost)
                 \/ Reg!PublishSubmit(lost)
          PROVE  RegInv'
      BY <2>5, RequestStep
    <2>6. CASE \/ Reg!VerifyAgent \/ Reg!VerifyDetail \/ Reg!StartWait \/ Reg!AwaitStart
               \/ Reg!PublishStart \/ \E lost \in BOOLEAN : Reg!UnregisterAgent(lost)
      BY <2>6, ReadStep
    <2>7. CASE Reg!Poll \/ Reg!Sleep \/ \E b \in BOOLEAN : Reg!AwaitAgain(b)
      BY <2>7, WaitStep
    <2>8. CASE \E b \in BOOLEAN : Reg!PublishContent(b)  BY <2>8, ContentStep
    <2> QED  BY <1>2, <2>1, <2>2, <2>3, <2>4, <2>5, <2>6, <2>7, <2>8 DEF Reg!Client, Operations
  <1> QED  BY <1>1, <1>2 DEF Reg!Next

\* The invariant says what ActsOnItsAgent does.
LEMMA RegInvSuffices == RegInv => ActsOnItsAgent
  <1> SUFFICES ASSUME RegInv PROVE ActsOnItsAgent  OBVIOUS
  <1>1. Reg!TypeOK
    <2>1. \A i \in 1..Len(agents) : agents[i] \in AgentRecords  BY DEF RegInv, RegistryOK
    <2>2. \A i \in 1..Len(agents) : agents[i].domain \in Domain  BY <2>1 DEF AgentRecords
    <2>3. call.left \in 0..MaxWait  BY DEF RegInv, CallOK, Calls
    <2> QED  BY <2>2, <2>3, RegConstants DEF RegInv, RegistryOK, AppOK, Reg!TypeOK, Ids
  <1>2. Reg!CreatesOnce
    <2> DEFINE Mine == {i \in 1..Len(agents) : agents[i].mine}
    <2>1. SUFFICES ASSUME Keyed PROVE Cardinality(Mine) <= 1
      BY SameCardinality DEF Reg!CreatesOnce
    <2>2. Mine \subseteq {idem}  BY <2>1 DEF RegInv, RegistryOK, Ids
    <2>3. IsFiniteSet({idem}) /\ Cardinality({idem}) = 1  BY FS_Singleton
    <2>4. Cardinality(Mine) <= Cardinality({idem})  BY <2>2, <2>3, FS_Subset
    <2> QED  BY <2>3, <2>4
  <1>3. Reg!AwaitedIsManaged /\ Reg!SignsLocalContent
    BY DEF RegInv, OutcomeOK, CallOK, Reg!AwaitedIsManaged, Reg!SignsLocalContent, Reg!At
  <1> QED  BY <1>1, <1>2, <1>3 DEF RegInv, OutcomeOK, AppOK, ActsOnItsAgent

-----------------------------------------------------------------------------
(* Theorems *)

RegistrationInv == RegInv /\ SplitInv

\* The invariants of the two components hold together.
LEMMA RegistrationInvariant == Spec => []RegistrationInv
  <1>1. Init => RegistrationInv  BY InitRegInv, InitSplitInv DEF RegistrationInv
  <1>2. RegistrationInv /\ [Next]_vars => RegistrationInv'
    <2> SUFFICES ASSUME RegistrationInv, [Next]_vars PROVE RegistrationInv'  OBVIOUS
    <2>1. UNCHANGED part  BY DEF Next, vars
    <2>2. ASSUME UNCHANGED registryVars PROVE RegInv'
      BY <2>1, <2>2
         DEF registryVars, RegistrationInv, RegInv, RegistryOK, CallOK, OutcomeOK, AppOK, Ids,
             Reg!ReturnsWhatItCreated, Reg!FailureKeepsFacts, Reg!EndsNamedAgent
    <2>3. ASSUME UNCHANGED signingVars PROVE SplitInv'
      BY <2>1, <2>3
         DEF signingVars, RegistrationInv, SplitInv, Begun, Split!SignsOnlyExpected,
             Split!StartsWithGenesis
    <2>4. CASE Reg!Next /\ UNCHANGED signingVars
      BY <2>1, <2>3, <2>4, RegStep DEF RegistrationInv
    <2>5. CASE Split!Next /\ UNCHANGED registryVars
      BY <2>1, <2>2, <2>5, SplitStep DEF RegistrationInv
    <2> QED  BY <2>2, <2>3, <2>4, <2>5 DEF Next, vars, RegistrationInv
  <1> QED  BY <1>1, <1>2, PTL DEF Spec

\* A registration that is retried under its key creates one agent and returns it,
\* an error after the registry's answer says what was created, only the agent that
\* was named is ended, only a record the registry manages is awaited, and only the
\* local content is submitted.
THEOREM ActsOnOwnAgent == Spec => []ActsOnItsAgent
  <1>1. RegistrationInv => ActsOnItsAgent  BY RegInvSuffices DEF RegistrationInv
  <1> QED  BY <1>1, RegistrationInvariant, PTL

\* Every entry on the log is signed over its very envelope by the key of every
\* role, once; a process signs only what its context expects; and a stream starts
\* with an event that may start it.
THEOREM OnlyAuthorisedEntries == Spec => []EntriesAuthorised
  <1>1. RegistrationInv => EntriesAuthorised  BY SplitInvSuffices DEF RegistrationInv
  <1> QED  BY <1>1, RegistrationInvariant, PTL

===============================================================================
