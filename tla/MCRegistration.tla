---------------------------- MODULE MCRegistration ----------------------------
(***************************************************************************)
(* Work with the registry and the split signing of events, each on its     *)
(* own: `part` says which of them a behaviour is about, the other stays as *)
(* it begins, and the constants say what is done in each part.             *)
(*   "create"   registration, cancellation and the end of agents           *)
(*   "publish"  verification and publication, with polls                   *)
(*   "sign"     a signer for each role, drafts of two identities           *)
(*   "write"    two writers that race and retry                            *)
(* The theorems of RegistrationProofs hold of any domains, calls, drafts,  *)
(* signers and writers that satisfy RegistrationAssumption.                *)
(***************************************************************************)
EXTENDS Naturals, Sequences

CONSTANTS
    Domain, Exact, Keyed, RegistryPlan,                   \* RegistryWorkflow
    MaxAgents, MaxCalls, MaxWait,                         \* bounds
    Foreign, ForeignSigned, Signers, WriterContext, Intended, SigningPlan  \* SplitSigning

VARIABLES
    part,
    agents, current, idem, call, known, calls, outcome, ended,
    drafts, made, writing, log

registryVars == <<agents, current, idem, call, known, calls, outcome, ended>>
signingVars == <<drafts, made, writing, log>>
vars == <<part, registryVars, signingVars>>

RegistryPart == {"create", "publish"}
SigningPart == {"sign", "write"}
Part == RegistryPart \cup SigningPart

Reg == INSTANCE RegistryWorkflow WITH plan <- RegistryPlan[part]
Split == INSTANCE SplitSigning WITH plan <- SigningPlan[part]

ASSUME RegistrationAssumption ==
    /\ Reg!WorkflowAssumption
    /\ \A p \in Part : RegistryPlan[p].domains \subseteq Domain

-----------------------------------------------------------------------------

Init == part \in Part /\ Reg!Init /\ Split!Init

Next ==
    /\ UNCHANGED part
    /\ \/ part \in RegistryPart /\ Reg!Next /\ UNCHANGED signingVars
       \/ part \in SigningPart /\ Split!Next /\ UNCHANGED registryVars

OfRegistry(A) == A /\ UNCHANGED <<part, signingVars>>
OfSigning(A) == A /\ UNCHANGED <<part, registryVars>>

\* Every exchange with the registry ends, with an answer or after its timeout.
\* The intended event is passed to each signer and writer, and requests that
\* are made again and again get through.
Fairness ==
    /\ WF_vars(part = "publish" /\ OfRegistry(Reg!Client))
    /\ WF_vars(part = "write" /\ OfSigning(Split!PrepareIntended))
    /\ WF_vars(part = "write" /\ OfSigning(Split!SignIntended))
    /\ SF_vars(part = "write" /\ OfSigning(Split!WriteIntended))
    /\ SF_vars(part = "write" /\ OfSigning(Split!SubmitIntended))

Spec == Init /\ [][Next]_vars /\ Fairness

-----------------------------------------------------------------------------

\* However often register_agent is retried with its key, after lost answers and
\* failures of any step, it creates one agent; it returns the agent its own POST
\* created, even if the domain changed hands before the detail was read
\* (_register_agent_steps), and a failure after the registry's answer says what
\* was created.  revoke_agent and retire_agent never end another agent than the
\* one they were given ("safe retries after domain re-registration").  Managed
\* publication is confirmed only of a record the registry owns, even if the domain
\* was registered again during the wait (await_registry_managed_publication), and
\* only the local record's content is ever signed and submitted
\* (publish_client_controlled_record).
ActsOnItsAgent ==
    /\ Reg!TypeOK
    /\ Reg!CreatesOnce /\ Reg!ReturnsWhatItCreated /\ Reg!FailureKeepsFacts
    /\ Reg!EndsNamedAgent
    /\ Reg!AwaitedIsManaged /\ Reg!SignsLocalContent

\* The log holds only entries in which each role's own key has signed exactly
\* the appended envelope, whichever signatures were swapped between drafts on
\* the way (entry_bytes); a process signs only what it was told to expect
\* ("cannot obtain a signature for an unexpected identity",
\* C2spVerificationContext); every stream starts with an ISSUANCE or with a
\* MIGRATION to that very stream (_assert_prepared_envelope); and however often
\* and by whichever writer an event is written again after a lost answer, it is
\* on the log once (write_prepared_event).
EntriesAuthorised ==
    /\ Split!EntriesAuthorised /\ Split!AppendedOnce
    /\ Split!SignsOnlyExpected
    /\ Split!StartsWithGenesis

\* Every call to the registry ends, polls included (wait_for_status has a
\* deadline), and whatever the order in which the roles sign, the intended event
\* is completed and appended (sign_prepared_event, write_prepared_event).
CallsEnd ==
    /\ (part = "publish" /\ call.op # "none") ~> call.op = "none"
    /\ part = "write" ~> \E i \in 1..Len(log) : log[i].env = Intended

-----------------------------------------------------------------------------
(* Small instances: two identities' drafts, a signer for each role, and    *)
(* one or two writers.                                                     *)

CONSTANTS d1, d2, w1, w2

MCDomain == {d1, d2}
MCRegistryPlan ==
    [p \in Part |->
        IF p = "publish"
        THEN [ops |-> {"register", "verify", "challenge", "wait", "await", "publish"},
              domains |-> {d1}, target |-> "VERIFIED"]
        ELSE [ops |-> {"register", "end", "unregister", "cancel"},
              domains |-> {d1, d2}, target |-> "none"]]

Nothing == "none"

E(type, fqdn, gi, ek, op, new_lr, lr, seq, prev) ==
    [type |-> type, fqdn |-> fqdn, gi |-> gi, ek |-> ek, op |-> op, new_lr |-> new_lr,
     lr |-> lr, seq |-> seq, prev |-> prev]

Issue == E("ISSUANCE", "f", "g", "ek", "ku", Nothing, "L", 0, Nothing)
IssueOtherEk == E("ISSUANCE", "f", "g", "x", "ku", Nothing, "L", 0, Nothing)
Rotate == E("KEY_ROTATION", "f", Nothing, Nothing, "new", Nothing, "L", 1, "I")
Revoke == E("REVOCATION", "f", Nothing, Nothing, Nothing, Nothing, "L", 1, "I")
RevokeOther == E("REVOCATION", "f2", Nothing, Nothing, Nothing, Nothing, "L", 1, "I")
RevokeUnchained == E("REVOCATION", "f", Nothing, Nothing, Nothing, Nothing, "L", 0, Nothing)
Move == E("MIGRATION", "f", Nothing, Nothing, Nothing, "M", "L", 1, "I")
MoveOther == E("MIGRATION", "f", Nothing, Nothing, Nothing, "M2", "L", 1, "I")
Arrive == E("MIGRATION", "f", Nothing, Nothing, Nothing, "M", "M", 0, Nothing)

Ctx(ek, prev, op, fqdn, gi, new_lr) ==
    [entity_key |-> ek, previous_operational_key |-> prev, operational_key |-> op,
     fqdn |-> fqdn, gi |-> gi, new_lr |-> new_lr]

S(role, key, ctx, lr) == [role |-> role, key |-> key, ctx |-> ctx, lr |-> lr]

IssueSigners ==
    {S("ae", "ek", Ctx("ek", Nothing, Nothing, "f", "g", Nothing), Nothing),
     S("op", "ku", Ctx("ek", Nothing, "ku", "f", "g", Nothing), Nothing)}
LifecycleSigners ==
    {S("ae", "ek", Ctx("ek", Nothing, Nothing, "f", Nothing, Nothing), "L"),
     S("ae", "ek", Ctx("ek", Nothing, Nothing, "f", Nothing, "M"), "L"),
     S("ae", "ek", Ctx("ek", Nothing, Nothing, "f", Nothing, "M"), "M"),
     S("prev_op", "ku", Ctx("ek", "ku", Nothing, "f", Nothing, Nothing), "L"),
     S("new_op", "new", Ctx("ek", "ku", Nothing, "f", Nothing, Nothing), "L")}
AllSigners == IssueSigners \cup LifecycleSigners

MCForeign == {"x"}
MCForeignSigned == {IssueOtherEk}
MCWriterContext == Ctx("ek", "ku", Nothing, Nothing, Nothing, Nothing)
Q(env, chain) ==
    [type |-> env.type, fqdn |-> env.fqdn, gi |-> env.gi, ek |-> env.ek, op |-> env.op,
     new_lr |-> env.new_lr, lr |-> env.lr, chain |-> chain]

LifecycleRequests ==
    {Q(Issue, <<>>), Q(Issue, <<1, "I">>), Q(Rotate, <<1, "I">>), Q(Rotate, <<>>),
     Q(Move, <<1, "I">>), Q(Arrive, <<>>)}
LifecycleOthers == {IssueOtherEk, RevokeOther, RevokeUnchained, MoveOther}
WriteRequests == {Q(Issue, <<>>), Q(Rotate, <<1, "I">>), Q(Revoke, <<1, "I">>)}
IssueOthers == {IssueOtherEk}

MCSigningPlan ==
    [p \in Part |->
        IF p = "write" THEN [requests |-> WriteRequests, others |-> IssueOthers, writers |-> {w1, w2}]
        ELSE [requests |-> LifecycleRequests, others |-> LifecycleOthers, writers |-> {w1}]]

===============================================================================
