--------------------------- MODULE RegistryWorkflow ---------------------------
(***************************************************************************)
(* The owner's side of registration and publication: the methods of        *)
(* RegistryClient (dnsid/registry_client.py) and the two publication       *)
(* methods of IdentityManager (dnsid/manager.py), against a registry that  *)
(* other clients of the same owner use and whose answers may be lost.      *)
(*                                                                         *)
(* One application makes one call after another.  A call is a sequence of  *)
(* HTTP exchanges; each exchange is one step, between which the registry   *)
(* moves on.  The registry is external: agents are numbered by the         *)
(* immutable ID it gives them, and `current' is the agent a domain has.    *)
(***************************************************************************)
EXTENDS Naturals, Sequences, FiniteSets

CONSTANTS
    Domain, Exact,    \* names the registry gives out; the one asked for by name
    Keyed,            \* whether register_agent is called with an idempotency key
    MaxAgents,        \* bound: agents ever created
    MaxCalls,         \* bound: calls made
    MaxWait           \* timeout of wait_for_status, in intervals

\* What the constants must be.
WorkflowAssumption ==
    /\ Exact \in Domain /\ Keyed \in BOOLEAN
    /\ MaxWait \in Nat /\ MaxAgents \in Nat /\ MaxCalls \in Nat

VARIABLES
    plan,      \* the calls the application makes (ops), the domains the registry gives
               \* out, and target_state of wait_for_status, "none" for none: given, not changed
    agents,    \* registry: agents by ID, never removed
    current,   \* registry: domain -> ID of its agent, 0 for none
    idem,      \* registry: ID created under the application's key, 0 before
    call,      \* the call in progress
    known,     \* IDs the application has learned
    calls,     \* how many calls were made
    outcome,   \* how the last call ended
    ended      \* IDs this client's revoke and retire changed, with the IDs passed

vars == <<plan, agents, current, idem, call, known, calls, outcome, ended>>
registry == <<agents, current, idem>>
app == <<known, calls, ended>>

NoCall == [op |-> "none", at |-> "idle", domain |-> Exact, id |-> 0, left |-> 0]
NoOutcome == [op |-> "none", how |-> "none", id |-> 0, facts |-> 0, seen |-> 0,
              status |-> "none", published |-> FALSE, created |-> 0]

failed(status) == status \in {"ERROR", "REJECTED", "CANCELLED"}
terminal(status) == status \in {"RETIRED", "REVOKED", "REJECTED", "CANCELLED"}

Agent(d) == agents[current[d]]
Has(d) == current[d] # 0

Init ==
    /\ agents = <<>> /\ current = [d \in Domain |-> 0] /\ idem = 0
    /\ call = NoCall /\ known = {} /\ calls = 0 /\ outcome = NoOutcome /\ ended = {}

-----------------------------------------------------------------------------
(* The registry (external), driven by its own work and by other clients.   *)

Created(d, managed, mine) ==
    [domain |-> d, status |-> "PENDING", published |-> FALSE, managed |-> managed,
     answered |-> FALSE, mine |-> mine]

SetAgent(i, a) == agents' = [agents EXCEPT ![i] = a]

\* Verification and publication proceed, or fail.
Progress(i) ==
    /\ LET a == agents[i]
       IN  \/ a.status = "PENDING" /\ SetAgent(i, [a EXCEPT !.status = "VERIFICATION"])
           \/ a.status = "VERIFICATION" /\ a.answered /\ SetAgent(i, [a EXCEPT !.status = "VERIFIED"])
           \/ /\ a.status = "VERIFIED" /\ a.managed = "registry"
              /\ SetAgent(i, [a EXCEPT !.status = "READY", !.published = TRUE])
           \/ a.status \in {"PENDING", "VERIFICATION"} /\ SetAgent(i, [a EXCEPT !.status = "ERROR"])
    /\ UNCHANGED <<current, idem, call, app, outcome>>

\* Another client answers a challenge, or publishes a record itself.
OtherActs(i) ==
    /\ LET a == agents[i]
       IN  \/ a.status = "VERIFICATION" /\ ~a.answered /\ SetAgent(i, [a EXCEPT !.answered = TRUE])
           \/ /\ a.status = "VERIFIED" /\ a.managed = "client"
              /\ SetAgent(i, [a EXCEPT !.status = "READY", !.published = TRUE])
    /\ UNCHANGED <<current, idem, call, app, outcome>>

\* Another client revokes the agent of a domain; its DNS record stays for a while.
OtherRevokes(d) ==
    /\ Has(d) /\ ~terminal(Agent(d).status)
    /\ SetAgent(current[d], [Agent(d) EXCEPT !.status = "REVOKED"])
    /\ UNCHANGED <<current, idem, call, app, outcome>>

\* Another client registers a domain that is free or whose agent has ended.
OtherRegisters(d, managed) ==
    /\ Len(agents) < MaxAgents /\ (Has(d) => terminal(Agent(d).status))
    /\ agents' = Append(agents, Created(d, managed, FALSE))
    /\ current' = [current EXCEPT ![d] = Len(agents) + 1]
    /\ UNCHANGED <<idem, call, app, outcome>>

-----------------------------------------------------------------------------
(* The client.  Return and Raise end a call.                               *)

End(o) == call' = NoCall /\ outcome' = o

Return(o) == End([o EXCEPT !.op = call.op, !.how = "returned"])
Raise(o) == End([o EXCEPT !.op = call.op, !.how = "raised"])

Begin(op, d, i) ==
    /\ call = NoCall /\ calls < MaxCalls /\ op \in plan.ops
    /\ call' = [op |-> op, at |-> "start", domain |-> d, id |-> i, left |-> MaxWait]
    /\ calls' = calls + 1 /\ outcome' = NoOutcome
    /\ UNCHANGED <<registry, known, ended>>

\* The registry acted on the request; its answer may be lost.
Answer(lost, o) == IF lost THEN Raise(NoOutcome) ELSE Return(o)

At(op, at) == call.op = op /\ call.at = at
Go(at) == call' = [call EXCEPT !.at = at] /\ UNCHANGED outcome

\* What the error of a registration says of what the registry created.
Facts(i) == i

\* The answer said that agent i was created, and a later check or read failed.
RegisterRaises(i) ==
    /\ Raise([NoOutcome EXCEPT !.facts = Facts(i), !.created = i])
    /\ known' = known \cup ({Facts(i)} \ {0})

\* Any exchange may fail before it reaches the registry, or be refused by it.
ExchangeFails ==
    /\ call.at \in {"start", "detail", "poll", "content", "submit", "again"}
    /\ IF call.at = "detail" THEN RegisterRaises(call.id)
       ELSE Raise(NoOutcome) /\ UNCHANGED known
    /\ UNCHANGED <<registry, calls, ended>>

\* Whether the POST carries the Idempotency-Key header.
SendsKey == Keyed

\* POST /api/v1/agent creates an agent, or finds the one of the same key; the
\* answer may be lost on the way back, or fail a check (its status, its domain, its
\* publication_config, ...).
RegisterPost(d, managed, answer) ==
    /\ At("register", "start")
    /\ LET replay == SendsKey /\ idem # 0
           i == IF replay THEN idem ELSE Len(agents) + 1
       IN  /\ IF replay THEN UNCHANGED registry
              ELSE /\ Len(agents) < MaxAgents /\ (Has(d) => terminal(Agent(d).status))
                   /\ agents' = Append(agents, Created(d, managed, TRUE))
                   /\ current' = [current EXCEPT ![d] = i]
                   /\ idem' = IF SendsKey THEN i ELSE idem
           /\ CASE answer = "lost" -> Raise(NoOutcome) /\ UNCHANGED known
                [] answer = "invalid" -> RegisterRaises(i)
                [] answer = "valid" ->
                     /\ call' = [call EXCEPT !.at = "detail", !.id = i,
                                             !.domain = IF replay THEN agents[i].domain ELSE d]
                     /\ UNCHANGED <<outcome, known>>
    /\ UNCHANGED <<calls, ended>>

\* Mutant: the detail is taken for the agent just created.
SameAgentAny(i) == TRUE

\* The detail read back is of the agent the POST created.
SameAgent(i) == current[call.domain] = i

\* GET the detail of the domain the POST named.
RegisterDetail ==
    /\ At("register", "detail")
    /\ LET i == call.id
       IN  IF Has(call.domain) /\ SameAgent(i)
           THEN /\ Return([NoOutcome EXCEPT !.id = i, !.seen = current[call.domain], !.created = i])
                /\ known' = known \cup {i}
           ELSE RegisterRaises(i)
    /\ UNCHANGED <<registry, calls, ended>>

\* POST verify, then GET the registration.
VerifyAgent ==
    /\ At("verify", "start")
    /\ Has(call.domain)
    /\ Go("again")
    /\ UNCHANGED <<registry, app>>

VerifyDetail ==
    /\ At("verify", "again")
    /\ IF Has(call.domain) THEN Return([NoOutcome EXCEPT !.seen = current[call.domain]])
       ELSE Raise(NoOutcome)
    /\ UNCHANGED <<registry, app>>

\* POST the signed challenge; the registry verifies it later.
SubmitChallenge(lost) ==
    /\ At("challenge", "start")
    /\ Has(call.domain) /\ Agent(call.domain).status = "VERIFICATION"
    /\ SetAgent(current[call.domain], [Agent(call.domain) EXCEPT !.answered = TRUE])
    /\ Answer(lost, NoOutcome)
    /\ UNCHANGED <<current, idem, app>>

\* The request names the immutable agent ID, and the registry compares it.
NamesAgent(i) == current[call.domain] = i

\* revoke_agent and retire_agent.
EndAgent(status, lost) ==
    /\ call.op = "end" /\ call.at = "start"
    /\ Has(call.domain) /\ NamesAgent(call.id)
    /\ ~terminal(Agent(call.domain).status) /\ Agent(call.domain).status # "PENDING"
    /\ SetAgent(current[call.domain], [Agent(call.domain) EXCEPT !.status = status])
    /\ ended' = ended \cup {<<call.id, current[call.domain]>>}
    /\ Answer(lost, NoOutcome)
    /\ UNCHANGED <<current, idem, known, calls>>

\* cancel_agent, for an agent still in the registration workflow.
CancelAgent(lost) ==
    /\ At("cancel", "start")
    /\ Has(call.domain) /\ Agent(call.domain).status \in {"PENDING", "VERIFICATION", "VERIFIED"}
    /\ SetAgent(current[call.domain], [Agent(call.domain) EXCEPT !.status = "CANCELLED"])
    /\ Answer(lost, NoOutcome)
    /\ UNCHANGED <<current, idem, app>>

\* unregister_agent; 404 and 405 are ignored.
UnregisterAgent(lost) ==
    /\ At("unregister", "start")
    /\ current' = [current EXCEPT ![call.domain] = 0]
    /\ Answer(lost, NoOutcome)
    /\ UNCHANGED <<agents, idem, app>>

-----------------------------------------------------------------------------
(* wait_for_status, alone and inside await_registry_managed_publication.   *)

StartWait ==
    /\ At("wait", "start")
    /\ Go("poll")
    /\ UNCHANGED <<registry, app>>

\* Whether a poll ends the wait, and how.
TargetSeen(a) == plan.target # "none" /\ call.op = "wait" /\ a.status = plan.target
Settled(a) == a.published \/ failed(a.status) \/ terminal(a.status)

Poll ==
    /\ call.at = "poll"
    /\ IF ~Has(call.domain) THEN Raise(NoOutcome)
       ELSE LET a == Agent(call.domain)
                seen == [NoOutcome EXCEPT !.seen = current[call.domain], !.status = a.status,
                                          !.published = a.published]
            IN  IF TargetSeen(a) THEN Return(seen)
                ELSE IF Settled(a)
                THEN IF plan.target # "none" /\ call.op = "wait" /\ ~a.published THEN Raise(seen)
                     ELSE IF call.op = "wait" THEN Return(seen)
                     ELSE IF a.published THEN Go("again") ELSE Raise(seen)
                ELSE IF call.left = 0 THEN Raise(seen)
                ELSE Go("sleep")
    /\ UNCHANGED <<registry, app>>

\* Mutant: the time slept is not counted.
SleepUncounted ==
    /\ call.at = "sleep"
    /\ call' = [call EXCEPT !.at = "poll"]
    /\ UNCHANGED <<registry, app, outcome>>

Sleep ==
    /\ call.at = "sleep"
    /\ call' = [call EXCEPT !.at = "poll", !.left = call.left - 1]
    /\ UNCHANGED <<registry, app, outcome>>

\* await_registry_managed_publication: who publishes is read before the wait...
AwaitStart ==
    /\ At("await", "start")
    /\ IF Has(call.domain) /\ Agent(call.domain).managed = "registry" THEN Go("poll")
       ELSE Raise(NoOutcome)
    /\ UNCHANGED <<registry, app>>

StillManaged(a) == a.managed = "registry" /\ ~failed(a.status) /\ a.published

\* ... and again after it, when the published record is verified.
AwaitAgain(verified) ==
    /\ At("await", "again")
    /\ IF Has(call.domain) /\ StillManaged(Agent(call.domain)) /\ verified
       THEN Return([NoOutcome EXCEPT !.seen = current[call.domain],
                                     !.status = Agent(call.domain).status,
                                     !.published = Agent(call.domain).published])
       ELSE Raise(NoOutcome)
    /\ UNCHANGED <<registry, app>>

-----------------------------------------------------------------------------
(* publish_client_controlled_record.                                       *)

PublishStart ==
    /\ At("publish", "start")
    /\ IF Has(call.domain) /\ Agent(call.domain).managed = "client" THEN Go("content")
       ELSE Raise(NoOutcome)
    /\ UNCHANGED <<registry, app>>

\* The canonical content names the local record's tags and its signing key.
Matches(local) == local

\* POST record: the registry's content, which may be anything, is compared.
PublishContent(local) ==
    /\ At("publish", "content")
    /\ IF Matches(local)
       THEN /\ call' = [call EXCEPT !.at = "submit", !.id = IF local THEN 1 ELSE 0]
            /\ UNCHANGED outcome
       ELSE Raise(NoOutcome)
    /\ UNCHANGED <<registry, app>>

\* POST signature: the record is published if the registry accepts it.
PublishSubmit(lost) ==
    /\ At("publish", "submit")
    /\ Has(call.domain) /\ Agent(call.domain).status = "VERIFIED"
    /\ SetAgent(current[call.domain],
                [Agent(call.domain) EXCEPT !.status = "READY", !.published = TRUE])
    /\ Answer(lost, [NoOutcome EXCEPT !.id = call.id])
    /\ UNCHANGED <<current, idem, app>>

Client ==
    \/ \E op \in {"register", "verify", "challenge", "cancel", "unregister", "wait", "await",
                  "publish"} : Begin(op, Exact, 0)
    \/ \E i \in known : Begin("end", agents[i].domain, i)
    \/ \E d \in plan.domains, m \in {"client", "registry"}, a \in {"lost", "invalid", "valid"} :
           RegisterPost(d, m, a)
    \/ RegisterDetail \/ VerifyAgent \/ VerifyDetail \/ StartWait \/ Poll \/ Sleep
    \/ \E s \in {"REVOKED", "RETIRED"}, lost \in BOOLEAN : EndAgent(s, lost)
    \/ \E lost \in BOOLEAN : \/ SubmitChallenge(lost) \/ CancelAgent(lost)
                            \/ UnregisterAgent(lost) \/ PublishSubmit(lost)
    \/ AwaitStart \/ PublishStart \/ ExchangeFails
    \/ \E b \in BOOLEAN : AwaitAgain(b) \/ PublishContent(b)

Registry ==
    \/ \E i \in 1..Len(agents) : Progress(i) \/ OtherActs(i)
    \/ \E d \in plan.domains : OtherRevokes(d) \/ \E m \in {"client", "registry"} : OtherRegisters(d, m)

Next == (Client \/ Registry) /\ UNCHANGED plan

Spec == Init /\ [][Next]_vars

-----------------------------------------------------------------------------

TypeOK ==
    /\ \A i \in 1..Len(agents) : agents[i].domain \in Domain
    /\ current \in [Domain -> 0..Len(agents)] /\ idem \in 0..Len(agents)
    /\ call.left \in 0..MaxWait /\ known \subseteq 1..Len(agents)
    /\ calls <= MaxCalls /\ ended \subseteq (1..Len(agents)) \X (1..Len(agents))

\* However often register_agent is retried with its key, after lost answers and
\* failures of any step, it creates one agent.
CreatesOnce == Keyed => Cardinality({i \in 1..Len(agents) : agents[i].mine}) <= 1

\* A registration that is returned describes the agent its own POST created,
\* even if the domain changed hands before the detail was read
\* (_register_agent_steps).
ReturnsWhatItCreated ==
    outcome.op = "register" /\ outcome.how = "returned" => outcome.seen = outcome.id

\* A registration that fails after the registry's answer arrived says what was
\* created: "SDK errors retain ... known creation facts".
FailureKeepsFacts ==
    outcome.op = "register" /\ outcome.how = "raised" => outcome.facts = outcome.created

\* "safe retries after domain re-registration": revoke_agent and retire_agent
\* never end another agent than the one they were given.
EndsNamedAgent == \A e \in ended : e[1] = e[2]

\* Managed publication is confirmed only of a record the registry owns, even if
\* the domain was revoked and registered again during the wait
\* (await_registry_managed_publication).
AwaitedIsManaged ==
    outcome.op = "await" /\ outcome.how = "returned" =>
        agents[outcome.seen].managed = "registry" /\ outcome.published

\* Only the local record's content is ever signed and submitted
\* (publish_client_controlled_record).
SignsLocalContent ==
    (outcome.op = "publish" /\ outcome.how = "returned" => outcome.id = 1)
      /\ (At("publish", "submit") => call.id = 1)

===============================================================================
