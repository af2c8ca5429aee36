---------------------------- MODULE WitnessPolicy ----------------------------
(***************************************************************************)
(* The local trust policy of dnsid/c2sp_tlog/policy.py: a policy file is   *)
(* read line by line, or a policy is built directly; it is normalised for  *)
(* one origin, combined with the signers of stream bundles in a trust      *)
(* profile (trust_profile.py), and decides on one checkpoint.              *)
(*                                                                         *)
(* A key is a record of the name it signs as, its public key and its       *)
(* signature type ("log" for 0x01, "witness" for 0x04, "bare" for a key    *)
(* without one).  A quorum rule is a tree of records of one shape.         *)
(***************************************************************************)
EXTENDS Integers, FiniteSets, Sequences, SequencesExt

CONSTANTS
    Files,       \* policy files, sequences of lines
    Direct,      \* policies built by the application
    Checkpoints, \* the checkpoints to decide on
    BundleKeys,  \* sequences of keys trusted to sign stream bundles
    Origin,      \* the log's origin
    Now          \* the time up to which timestamps are accepted, skew included

VARIABLES
    file, line,     \* the file, and the number of the line to be read
    logs, rules,    \* the log keys so far; rules by name
    quorum,         \* the rule the quorum line names, NoRule before it
    policy,         \* the policy for Origin, NoPolicy if there is none
    status,         \* "reading", "parsed", "rejected", "decided"
    decision        \* what became of the profile and the checkpoint

vars == <<file, line, logs, rules, quorum, policy, status, decision>>

NoKey == [name |-> "", bytes |-> "", type |-> ""]
NoRule == [kind |-> "", key |-> NoKey, threshold |-> 0, members |-> <<>>]
NoneRule == [NoRule EXCEPT !.kind = "none"]
WitnessRule(key) == [NoRule EXCEPT !.kind = "witness", !.key = key]
ThresholdRule(n, members) ==
    [NoRule EXCEPT !.kind = "threshold", !.threshold = n, !.members = members]

NoPolicy == [logs |-> <<>>, witnesses |-> <<>>, quorum |-> 0, rule |-> NoRule]
NoDecision == [normal |-> FALSE, profile |-> FALSE, accepted |-> FALSE, times |-> <<>>,
               bundle |-> <<>>, scope |-> "", cosigned |-> << >>]

BytesOf(keys) == {keys[i].bytes : i \in 1..Len(keys)}

distinct(keys) == Cardinality(BytesOf(keys)) = Len(keys)

RECURSIVE Concat(_)
Concat(ss) == IF ss = <<>> THEN <<>> ELSE Head(ss) \o Concat(Tail(ss))

RECURSIVE collect_witness_keys(_)
collect_witness_keys(rule) ==
    CASE rule.kind = "none" -> <<>>
      [] rule.kind = "witness" -> <<rule.key>>
      [] OTHER -> Concat([i \in 1..Len(rule.members) |-> collect_witness_keys(rule.members[i])])

RECURSIVE ThresholdsValid(_)
ThresholdsValid(rule) ==
    rule.kind = "threshold" =>
        /\ rule.threshold \in 1..Len(rule.members)
        /\ \A i \in 1..Len(rule.members) : ThresholdsValid(rule.members[i])

legacy_quorum(rule) ==
    CASE rule.kind = "none" -> 0
      [] rule.kind = "witness" -> 1
      [] /\ rule.kind = "threshold"
         /\ \A i \in 1..Len(rule.members) : rule.members[i].kind = "witness" -> rule.threshold
      [] OTHER -> 0

flat_quorum_rule(keys, n) ==
    IF n = 0 THEN NoneRule
    ELSE ThresholdRule(n, [i \in 1..Len(keys) |-> WitnessRule(keys[i])])

-----------------------------------------------------------------------------
(* Reading a policy file.                                                  *)

Init ==
    /\ line = 1 /\ logs = <<>> /\ rules = << >> /\ quorum = NoRule /\ decision = NoDecision
    /\ \/ file \in Files /\ policy = NoPolicy /\ status = "reading"
       \/ file = <<>> /\ policy \in Direct /\ status = "parsed"

Line == file[line]
HasLine(directive) == status = "reading" /\ line <= Len(file) /\ Line.directive = directive

NewName(name) == name # "none" /\ name \notin DOMAIN rules

Define(name, rule) ==
    rules' = [n \in DOMAIN rules \cup {name} |-> IF n = name THEN rule ELSE rules[n]]

\* A line is taken if it is valid; otherwise the file is rejected.
Take(valid) ==
    /\ valid
    /\ line' = line + 1
    /\ UNCHANGED <<file, policy, status, decision>>

LogLine ==
    /\ HasLine("log")
    /\ Take(TRUE)
    /\ logs' = Append(logs, Line.key)
    /\ UNCHANGED <<rules, quorum>>

WitnessLine ==
    /\ HasLine("witness")
    /\ Take(NewName(Line.name))
    /\ Define(Line.name, WitnessRule(Line.key))
    /\ UNCHANGED <<logs, quorum>>

GroupValid ==
    /\ NewName(Line.name)
    /\ Cardinality(Range(Line.members)) = Len(Line.members)
    /\ Range(Line.members) \subseteq DOMAIN rules
    /\ Line.threshold \in 1..Len(Line.members)

GroupLine ==
    /\ HasLine("group")
    /\ Take(GroupValid)
    /\ Define(Line.name,
              ThresholdRule(Line.threshold, [i \in 1..Len(Line.members) |-> rules[Line.members[i]]]))
    /\ UNCHANGED <<logs, quorum>>

QuorumValid == quorum = NoRule /\ Line.name \in DOMAIN rules \cup {"none"}

QuorumLine ==
    /\ HasLine("quorum")
    /\ Take(QuorumValid)
    /\ quorum' = IF Line.name = "none" THEN NoneRule ELSE rules[Line.name]
    /\ UNCHANGED <<logs, rules>>

RejectLine ==
    /\ \/ HasLine("witness") /\ ~NewName(Line.name)
       \/ HasLine("group") /\ ~GroupValid
       \/ HasLine("quorum") /\ ~QuorumValid
       \/ HasLine("other")
    /\ status' = "rejected"
    /\ UNCHANGED <<file, line, logs, rules, quorum, policy, decision>>

WitnessesOf(rs) ==
    SetToSeq({rs[n].key : n \in {m \in DOMAIN rs : rs[m].kind = "witness"}})

NamedWitnesses == {n \in DOMAIN rules : rules[n].kind = "witness"}

FileValid ==
    /\ quorum # NoRule
    /\ \A i \in 1..Len(logs) : logs[i].type \in {"log", "bare"}
    /\ \A n \in NamedWitnesses : rules[n].key.type = "witness"
    /\ distinct(logs)
    /\ \A m, n \in NamedWitnesses : m # n => rules[m].key.bytes # rules[n].key.bytes
    /\ \A n \in NamedWitnesses : rules[n].key.bytes \notin BytesOf(logs)

\* The end of the file: the policy for one origin has the logs of that name.
EndOfFile ==
    /\ status = "reading" /\ line > Len(file)
    /\ LET own == SelectSeq(logs, LAMBDA k : k.name = Origin)
       IN  IF FileValid
           THEN /\ status' = "parsed"
                /\ policy' = IF own = <<>> THEN NoPolicy
                             ELSE [logs |-> own, witnesses |-> WitnessesOf(rules),
                                   quorum |-> legacy_quorum(quorum), rule |-> quorum]
           ELSE status' = "rejected" /\ UNCHANGED policy
    /\ UNCHANGED <<file, line, logs, rules, quorum, decision>>

-----------------------------------------------------------------------------
(* Using the policy.                                                       *)

RuleOf(p) == IF p.rule = NoRule THEN flat_quorum_rule(p.witnesses, p.quorum) ELSE p.rule

KeysSeparate(ks, ws) ==
    /\ \A i \in 1..Len(ws) : ws[i].type = "witness"
    /\ distinct(ws)
    /\ BytesOf(ks) \cap BytesOf(ws) = {}

RuleKeysSeparate(p) == KeysSeparate(p.logs, collect_witness_keys(RuleOf(p)))

normalized_origin_policy(p) ==
    /\ p # NoPolicy
    /\ p.quorum \in 0..Len(p.witnesses)
    /\ p.logs # <<>>
    /\ \A i \in 1..Len(p.logs) : p.logs[i].name = Origin /\ p.logs[i].type \in {"log", "bare"}
    /\ distinct(p.logs)
    /\ KeysSeparate(p.logs, p.witnesses)
    /\ ThresholdsValid(RuleOf(p))
    /\ RuleKeysSeparate(p)

\* The first signature line of a key that verifies and has a timestamp in range.
verified_cosignature_timestamp(checkpoint, key) ==
    LET own == SelectSeq(checkpoint.signatures,
                         LAMBDA s : s.key = key.bytes /\ key.type = "witness" /\ s.verifies)
    IN  IF own = <<>> THEN 0 ELSE own[1].time

MinTime(ts) == CHOOSE t \in Range(ts) : \A u \in Range(ts) : t <= u

\* Mutant: the earliest members are taken.
LaterEarliest(a, b) == a # <<>> /\ (b = <<>> \/ MinTime(a) <= MinTime(b))

\* Whether a member is taken before another: the latest of the earliest times
\* first; a member without a timestamp counts as infinitely late.
Later(a, b) == IF b = <<>> THEN a = <<>> ELSE a = <<>> \/ MinTime(a) >= MinTime(b)

Enough(n, threshold) == n >= threshold

RECURSIVE evaluate_quorum(_, _)
evaluate_quorum(rule, checkpoint) ==
    CASE rule.kind = "none" -> [ok |-> TRUE, times |-> <<>>]
      [] rule.kind = "witness" ->
            LET t == verified_cosignature_timestamp(checkpoint, rule.key)
            IN  [ok |-> t \in 1..Now, times |-> IF t \in 1..Now THEN <<t>> ELSE <<>>]
      [] OTHER ->
            LET results == [i \in 1..Len(rule.members) |->
                                evaluate_quorum(rule.members[i], checkpoint)]
                satisfied == SelectSeq(results, LAMBDA r : r.ok)
                sorted == SortSeq([i \in 1..Len(satisfied) |-> satisfied[i].times], Later)
            IN  IF Enough(Len(satisfied), rule.threshold)
                THEN [ok |-> TRUE, times |-> Concat(SubSeq(sorted, 1, rule.threshold))]
                ELSE [ok |-> FALSE, times |-> <<>>]

LogSigned(p, checkpoint) ==
    \E i \in 1..Len(p.logs) :
        /\ checkpoint.scope = "public" => p.logs[i].type = "log"
        /\ \E j \in 1..Len(checkpoint.signatures) :
               checkpoint.signatures[j].key = p.logs[i].bytes /\ checkpoint.signatures[j].verifies

enforce_checkpoint_policy(p, checkpoint) ==
    /\ normalized_origin_policy(p)
    /\ LogSigned(p, checkpoint)
    /\ checkpoint.scope = "public" => RuleOf(p).kind # "none"
    /\ evaluate_quorum(RuleOf(p), checkpoint).ok

\* validate_c2sp_bundle_verifier_keys, with the keys of the normalised policy.
bundle_keys_valid(p, keys) ==
    /\ keys # <<>> /\ distinct(keys)
    /\ \A i \in 1..Len(keys) : keys[i].type = "log"
    /\ BytesOf(keys) \cap (BytesOf(p.logs) \cup BytesOf(collect_witness_keys(RuleOf(p)))) = {}

Decide(checkpoint, keys) ==
    /\ status = "parsed"
    /\ status' = "decided"
    /\ decision' =
          [normal |-> normalized_origin_policy(policy),
           profile |-> normalized_origin_policy(policy) /\ bundle_keys_valid(policy, keys),
           accepted |-> enforce_checkpoint_policy(policy, checkpoint),
           times |-> IF enforce_checkpoint_policy(policy, checkpoint)
                     THEN evaluate_quorum(RuleOf(policy), checkpoint).times ELSE <<>>,
           bundle |-> keys, scope |-> checkpoint.scope, cosigned |-> checkpoint]
    /\ UNCHANGED <<file, line, logs, rules, quorum, policy>>

Next ==
    \/ LogLine \/ WitnessLine \/ GroupLine \/ QuorumLine \/ RejectLine \/ EndOfFile
    \/ \E checkpoint \in Checkpoints, keys \in BundleKeys : Decide(checkpoint, keys)

Spec == Init /\ [][Next]_vars

-----------------------------------------------------------------------------

\* Whether a set of public keys satisfies a rule, by the meaning of the rule.
RECURSIVE Satisfies(_, _)
Satisfies(rule, keys) ==
    CASE rule.kind = "none" -> TRUE
      [] rule.kind = "witness" -> rule.key.bytes \in keys
      [] OTHER -> Cardinality({i \in 1..Len(rule.members) : Satisfies(rule.members[i], keys)})
                      >= rule.threshold

\* The witnesses that had cosigned at time t or later, and not in the future.
SeenSince(t) ==
    {k.bytes : k \in {key \in Range(collect_witness_keys(RuleOf(policy))) :
        verified_cosignature_timestamp(decision.cosigned, key) \in t..Now}}

Decided == status = "decided"

\* The witness time, the earliest timestamp accepted, is the latest time from
\* which the cosignatures alone still satisfy the quorum: choosing members
\* greedily, level by level, loses nothing (_evaluate_quorum).
TimeIsLatestQuorum ==
    Decided /\ decision.accepted /\ decision.times # <<>> =>
        LET t == MinTime(decision.times)
        IN  Satisfies(RuleOf(policy), SeenSince(t)) /\ ~Satisfies(RuleOf(policy), SeenSince(t + 1))

\* A quorum present in time is never missed (_evaluate_quorum).
QuorumIsFound ==
    Decided /\ decision.normal /\ LogSigned(policy, decision.cosigned)
        /\ Satisfies(RuleOf(policy), SeenSince(1)) /\ RuleOf(policy).kind # "none"
            => decision.accepted

\* No public key is counted twice towards a quorum, however the groups nest
\* (normalized_origin_policy).
NoWitnessTwice ==
    Decided /\ decision.accepted => Len(decision.times) <= Cardinality(SeenSince(1))

\* A public checkpoint is never accepted without a witness time
\* (enforce_checkpoint_policy): lifecycle timestamps rest on it.
PublicIsWitnessed ==
    Decided /\ decision.accepted /\ decision.scope = "public" => decision.times # <<>>

\* A policy file that parses serves every log it names, unless its quorum
\* counts one witness in two places (parse_c2sp_policy_file and
\* normalized_origin_policy check the same things at two times).
ParsedIsUsable ==
    Decided /\ file # <<>> /\ policy # NoPolicy
        /\ Cardinality(Range(collect_witness_keys(quorum))) = Len(collect_witness_keys(quorum))
            => decision.normal

\* In a valid trust profile no public key plays two of the roles log, witness
\* and bundle signer (validate_c2sp_tlog_trust_profile).
RolesSeparate ==
    Decided /\ decision.profile =>
        LET witnesses == BytesOf(collect_witness_keys(RuleOf(policy)))
        IN  /\ BytesOf(policy.logs) \cap witnesses = {}
            /\ BytesOf(decision.bundle) \cap (BytesOf(policy.logs) \cup witnesses) = {}

===============================================================================
