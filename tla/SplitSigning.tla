----------------------------- MODULE SplitSigning -----------------------------
(***************************************************************************)
(* Split signing of a lifecycle event (dnsid/c2sp_tlog/prepared.py and the *)
(* envelope rules of event_codec.py): processes that each hold the key of  *)
(* one signer role pass a prepared event around, check it as untrusted     *)
(* input, and add their own signature; a writer appends the complete       *)
(* entry.                                                                  *)
(*                                                                         *)
(* An envelope is a record of the fields the code looks at; `op' is ku or  *)
(* new_ku.  A signature is the key that made it with the bytes it covers.  *)
(* What a process receives is any draft in circulation with any signatures   *)
(* made so far, in any roles.                                              *)
(***************************************************************************)
EXTENDS Naturals, Sequences, FiniteSets

CONSTANTS
    Foreign,        \* keys nobody here holds
    ForeignSigned,  \* the drafts they have signed
    Signers,        \* processes: role, key held, expected context, bound reference
    WriterContext,  \* the context writers verify entries in
    Intended        \* the draft every process expects

VARIABLES
    plan,      \* the events to prepare, with the reference and the chain given (requests),
               \* the envelopes prepared elsewhere (others) and the writers: not changed
    drafts,    \* envelopes in circulation
    made,      \* signatures made
    writing,   \* writer -> the entry it is about to submit, if any
    log        \* entries of the stream, in order

vars == <<plan, drafts, made, writing, log>>

None == "none"
NoEntry == <<>>

Signature(key, env) == [key |-> key, env |-> env]

Init ==
    /\ drafts = plan.others
    /\ made = {Signature(k, e) : k \in Foreign, e \in ForeignSigned}
    /\ writing = [w \in plan.writers |-> NoEntry] /\ log = <<>>

-----------------------------------------------------------------------------
(* Checks on an envelope and its signatures.                               *)

required_c2sp_signature_names(type) ==
    CASE type = "ISSUANCE" -> {"ae", "op"}
      [] type = "KEY_ROTATION" -> {"prev_op", "new_op"}
      [] OTHER -> {"ae"}

\* The shape of a chain: only genesis events have no predecessor.
public_chain_shape(env) == IF env.seq = 0 THEN env.prev = None ELSE env.prev # None

\* The signed context is the bound reference, whose stream is not the bare FQDN.
public_fields_valid(env, lr) == env.lr = lr /\ env.lr # env.fqdn

prepared_envelope_valid(env, lr) ==
    /\ public_fields_valid(env, lr) /\ public_chain_shape(env)
    /\ env.seq = 0 => env.type \in {"ISSUANCE", "MIGRATION"}
    /\ env.seq = 0 /\ env.type = "MIGRATION" => env.new_lr = lr

\* The key a role must sign with, None where the code raises.
key_for_role(env, role, ctx) ==
    CASE role = "ae" /\ env.type = "ISSUANCE" ->
           IF ctx.entity_key \in {None, env.ek} THEN env.ek ELSE None
      [] role = "ae" /\ env.type # "ISSUANCE" -> ctx.entity_key
      [] role \in {"op", "new_op"} -> env.op
      [] role = "prev_op" -> ctx.previous_operational_key

\* Mutant: a signature is checked against its key only, not against the bytes.
existing_signatures_any(env, over, sigs, ctx) ==
    \A r \in DOMAIN sigs : sigs[r].key = key_for_role(env, r, ctx)

verify_existing_signatures(env, over, sigs, ctx) ==
    \A r \in DOMAIN sigs :
        /\ key_for_role(env, r, ctx) # None
        /\ sigs[r] = Signature(key_for_role(env, r, ctx), over)

expected_identity(env, ctx) ==
    /\ ctx.fqdn \in {None, env.fqdn}
    /\ env.type = "MIGRATION" => ctx.new_lr \in {None, env.new_lr}
    /\ IF env.type = "ISSUANCE"
       THEN ctx.gi \in {None, env.gi} /\ ctx.operational_key \in {None, env.op}
       ELSE ctx.gi = None

\* What each role must have been told before it signs.
context_sufficient(env, role, ctx) ==
    /\ role = "ae" /\ env.type # "ISSUANCE" =>
         ctx.fqdn # None /\ (env.type = "MIGRATION" => ctx.new_lr # None)
    /\ role = "op" =>
         None \notin {ctx.fqdn, ctx.gi, ctx.entity_key, ctx.operational_key}

-----------------------------------------------------------------------------
(* Messages: an envelope, the bytes to sign, and signatures by role.       *)

SigSets(env) == UNION {[R -> made] : R \in SUBSET required_c2sp_signature_names(env.type)}

\* The chain metadata of a new event: a genesis event has none, any other needs it.
prepare_chain_valid(q) ==
    CASE q.type = "ISSUANCE" -> q.chain \in {<<>>, <<0, None>>}
      [] q.type = "MIGRATION" /\ q.new_lr = q.lr /\ q.chain = <<>> -> TRUE
      [] OTHER -> q.chain # <<>>

event_to_c2sp_envelope(q) ==
    LET chain == IF q.chain = <<>> THEN <<0, None>> ELSE q.chain
    IN  [type |-> q.type, fqdn |-> q.fqdn, gi |-> q.gi, ek |-> q.ek, op |-> q.op,
         new_lr |-> q.new_lr, lr |-> q.lr, seq |-> chain[1], prev |-> chain[2]]

\* prepare_event.
Prepare(q) ==
    /\ prepare_chain_valid(q)
    /\ prepared_envelope_valid(event_to_c2sp_envelope(q), q.lr)
    /\ drafts' = drafts \cup {event_to_c2sp_envelope(q)}
    /\ UNCHANGED <<made, writing, log>>

\* parse_prepared_event, or parse_prepared_issuance where the signer has no
\* reference of its own yet: it takes the signed one.
Parses(s, env, sigs) ==
    /\ s.lr = None => env.type = "ISSUANCE"
    /\ prepared_envelope_valid(env, IF s.lr = None THEN env.lr ELSE s.lr)
    /\ expected_identity(env, s.ctx)
    /\ verify_existing_signatures(env, env, sigs, s.ctx)

\* The bytes to sign still are those of the envelope.
prepared_integrity(env, over) == env = over

\* sign_prepared_event, on a message parsed before; `over' are the bytes it holds.
\* (With replace_existing a role signs the same bytes with the same key again.)
Sign(s, env, over, sigs) ==
    /\ prepared_integrity(env, over)
    /\ Parses(s, env, sigs)
    /\ s.role \in required_c2sp_signature_names(env.type)
    /\ context_sufficient(env, s.role, s.ctx)
    /\ expected_identity(env, s.ctx)
    /\ verify_existing_signatures(env, over, sigs, s.ctx)
    /\ s.role \notin DOMAIN sigs
    /\ s.key = key_for_role(env, s.role, s.ctx)
    /\ made' = made \cup {Signature(s.key, over)}
    /\ UNCHANGED <<drafts, writing, log>>

\* A stored entry names, for each signature, the key its envelope records.
c2sp_envelope_to_event(env, sigs) ==
    /\ env.type = "ISSUANCE" => sigs["ae"].key = env.ek /\ sigs["op"].key = env.op
    /\ env.type = "KEY_ROTATION" => sigs["new_op"].key = env.op

\* entry_bytes: every role has signed, and every signature verifies.
entry_complete(env, sigs) ==
    /\ prepared_envelope_valid(env, env.lr)
    /\ DOMAIN sigs = required_c2sp_signature_names(env.type)
    /\ verify_existing_signatures(env, env, sigs, WriterContext)
    /\ c2sp_envelope_to_event(env, sigs)

\* The places of a stream's entries on the log.
Stream(lr) == {i \in DOMAIN log : log[i].env.lr = lr}

\* validate_chain (external): the event is next on its stream, or already on it.
ChainValid(env) ==
    LET stream == Stream(env.lr)
    IN  \/ env.seq = Cardinality(stream)
        \/ \E i \in stream :
             log[i].env = env /\ env.seq = Cardinality({j \in stream : j < i})

\* write_prepared_event up to the call of submit.
StartWrite(w, env, sigs) ==
    /\ writing[w] = NoEntry
    /\ entry_complete(env, sigs)
    /\ env.seq # 0 => ChainValid(env)
    /\ writing' = [writing EXCEPT ![w] = <<[env |-> env, sigs |-> sigs]>>]
    /\ UNCHANGED <<drafts, made, log>>

\* An append under the same idempotency key was made before (external).
Appended(entry) == \E i \in DOMAIN log : log[i] = entry

\* submit; if its answer is lost the application may write the event again.
Submit(w) ==
    /\ writing[w] # NoEntry
    /\ log' = IF Appended(writing[w][1]) THEN log ELSE log \o writing[w]
    /\ writing' = [writing EXCEPT ![w] = NoEntry]
    /\ UNCHANGED <<drafts, made>>

\* The request is lost before it reaches the log.
SubmitFails(w) ==
    /\ writing[w] # NoEntry
    /\ writing' = [writing EXCEPT ![w] = NoEntry]
    /\ UNCHANGED <<drafts, made, log>>

Next ==
    /\ \/ \E q \in plan.requests : Prepare(q)
       \/ \E s \in Signers, env \in drafts, over \in drafts :
            \E sigs \in SigSets(env) : Sign(s, env, over, sigs)
       \/ \E w \in plan.writers :
            \/ \E env \in drafts : \E sigs \in SigSets(env) : StartWrite(w, env, sigs)
            \/ Submit(w) \/ SubmitFails(w)
    /\ UNCHANGED plan

Spec == Init /\ [][Next]_vars

\* The key a writer takes for a role.
Holder(env, role) ==
    CASE role = "ae" -> IF env.type = "ISSUANCE" THEN env.ek ELSE WriterContext.entity_key
      [] role = "prev_op" -> WriterContext.previous_operational_key
      [] OTHER -> env.op

\* The signatures made so far on the intended event, as its message holds them.
Collected ==
    [r \in {r \in required_c2sp_signature_names(Intended.type) :
              Signature(Holder(Intended, r), Intended) \in made} |->
        Signature(Holder(Intended, r), Intended)]

PrepareIntended == \E q \in plan.requests : event_to_c2sp_envelope(q) = Intended /\ Prepare(q)
SignIntended == \E s \in Signers : Intended \in drafts /\ Sign(s, Intended, Intended, Collected)
WriteIntended == \E w \in plan.writers : StartWrite(w, Intended, Collected)
SubmitIntended ==
    \E w \in plan.writers : writing[w] # NoEntry /\ writing[w][1].env = Intended /\ Submit(w)

-----------------------------------------------------------------------------

\* The log holds only entries in which each role's own key has signed exactly
\* the appended envelope, whichever signatures were swapped between drafts on
\* the way (entry_bytes); where the writer knows the entity key, an issuance is
\* signed with that one.
EntriesAuthorised ==
    \A i \in 1..Len(log) :
        /\ \A r \in required_c2sp_signature_names(log[i].env.type) :
             /\ r \in DOMAIN log[i].sigs
             /\ log[i].sigs[r] = Signature(Holder(log[i].env, r), log[i].env)
        /\ log[i].env.type = "ISSUANCE" => WriterContext.entity_key \in {None, log[i].env.ek}

\* A process signs only what it was told to expect: the identity, and for a
\* migration the destination ("cannot obtain a signature for an unexpected
\* identity", C2spVerificationContext).
Approves(s, env) ==
    /\ s.role \in required_c2sp_signature_names(env.type)
    /\ s.ctx.fqdn # None => env.fqdn = s.ctx.fqdn
    /\ env.type = "ISSUANCE" /\ s.ctx.gi # None => env.gi = s.ctx.gi
    /\ env.type = "MIGRATION" => env.new_lr = s.ctx.new_lr
    /\ s.role = "op" => env.op = s.key

SignsOnlyExpected ==
    \A m \in made : m.key \in Foreign \/ \E s \in Signers : s.key = m.key /\ Approves(s, m.env)

\* Every stream starts with an ISSUANCE or with a MIGRATION to that very stream
\* (_assert_prepared_envelope, write_prepared_event).
StartsWithGenesis ==
    \A i \in 1..Len(log) :
        (\A j \in 1..(i - 1) : log[j].env.lr # log[i].env.lr) =>
            /\ log[i].env.seq = 0
            /\ \/ log[i].env.type = "ISSUANCE"
               \/ log[i].env.type = "MIGRATION" /\ log[i].env.new_lr = log[i].env.lr

\* However often an event is written again after a lost answer, and by
\* whichever writer, it is on the log once (write_prepared_event).
AppendedOnce == \A i, j \in 1..Len(log) : log[i].env = log[j].env => i = j

===============================================================================
