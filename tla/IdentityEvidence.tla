--------------------------- MODULE IdentityEvidence ---------------------------
(***************************************************************************)
(* One verification of a domain (dnsid/manager.py,                         *)
(* _verify_domain_uncached) against a world that changes while it runs:    *)
(* the DNS record, the key published at ku, the status at su and the       *)
(* lifecycle log; and the log reader it hands to its callers, which keeps  *)
(* a verified history for later checks (dnsid/c2sp_tlog/reader.py).        *)
(*                                                                         *)
(* The log is the sequence of the active keys after each lifecycle event,  *)
(* with the time of the event; replaying it is the subject of              *)
(* StreamLifecycle.  How failures of the two concurrent branches are       *)
(* combined is the subject of Branches; here any failure fails the call.   *)
(***************************************************************************)
EXTENDS Naturals, Sequences, FiniteSetsExt

CONSTANTS
    CertEnd,   \* when the TLS certificates expire
    MaxTime, MaxLog, \* bounds
    None

Never == MaxTime + 1

VARIABLES
    plan,                   \* the record, the configuration, the users: given, not changed
    now, log, height,       \* clock, log, and its length at each time
    ku, su, withdrawn,      \* key and status documents; when the record went
    trust, cache, entity,   \* trusted size; _history_cache; _trusted_entity_key
    load,                   \* of each user of the reader: its call of _load_complete_history
    step,                   \* of the verification
    dnsAt, fetched, status, boundAt,  \* its evidence
    begun, used,            \* history: trust at its start, sizes its checks used
    granted                 \* history: of each user, the last non-revocation result

\* A plan says which operational keys there may be, who uses the reader on threads of
\* their own and on one event loop, the TTL of the record and its ka (0 for none),
\* checkpoint_freshness_ms, the lifetime of a stream bundle (0 if histories are
\* scanned) and the DNSSEC mode.
Keys == plan.keys
Thread == plan.threads
Task == plan.tasks
Ttl == plan.ttl
MaxAge == plan.maxAge
Fresh == plan.fresh
Life == plan.life
DnssecMode == plan.dnssec

User == Thread \cup Task

\* What the constants and a plan must be.
EvidenceAssumption ==
    /\ {CertEnd, MaxTime, MaxLog} \subseteq Nat /\ MaxLog > 0

IsPlan(p) ==
    /\ {p.ttl, p.maxAge, p.fresh, p.life} \subseteq Nat
    /\ "V" \notin p.threads \cup p.tasks /\ p.threads \cap p.tasks = {}
    /\ {"ek", "REVOKED", None} \cap p.keys = {}
    /\ p.dnssec \in {"OFF", "VALIDATED", "REQUIRED"}

world == <<now, log, height, ku, su, withdrawn>>
reader == <<trust, cache, entity, load>>
verification == <<step, dnsAt, fetched, status, boundAt, begun, used>>
vars == <<plan, world, reader, verification, granted>>

Idle == [pc |-> "idle", view |-> None]

Init ==
    /\ now = 0
    /\ \E k \in Keys : log = <<[key |-> k, time |-> 0]>> /\ ku = k
    /\ height = [t \in 0..MaxTime |-> IF t = 0 THEN 1 ELSE 0]
    /\ su = "ACTIVE"
    /\ withdrawn = Never
    /\ trust = 0 /\ cache = None /\ entity = "unset"
    /\ load = [c \in {"V"} \cup User |-> Idle]
    /\ step = "start"
    /\ dnsAt = 0 /\ fetched = None /\ status = None /\ boundAt = 0
    /\ begun = 0 /\ used = <<>>
    /\ granted = [u \in User |-> None]

-----------------------------------------------------------------------------
(* The world.                                                              *)

Tick ==
    /\ now < MaxTime
    /\ now' = now + 1
    /\ height' = [height EXCEPT ![now + 1] = height[now]]
    /\ UNCHANGED <<log, ku, su, withdrawn, reader, verification, granted>>

LogEvent(k) ==
    /\ Len(log) < MaxLog /\ log[Len(log)].key # "REVOKED"
    /\ k # log[Len(log)].key
    /\ log' = Append(log, [key |-> k, time |-> now])
    /\ height' = [height EXCEPT ![now] = Len(log) + 1]
    /\ UNCHANGED <<now, ku, su, withdrawn, reader, verification, granted>>

Publish(k) ==
    /\ ku' = k
    /\ UNCHANGED <<now, log, height, su, withdrawn, reader, verification, granted>>

Suspend ==
    /\ su' = "REVOKED"
    /\ UNCHANGED <<now, log, height, ku, withdrawn, reader, verification, granted>>

Withdraw ==
    /\ withdrawn = Never /\ withdrawn' = now
    /\ UNCHANGED <<now, log, height, ku, su, reader, verification, granted>>

-----------------------------------------------------------------------------
(* _load_complete_history, for the verification ("V") or a user c.         *)

\* What a user asks for is non-revocation, which wants fresh evidence.
RequireFresh(c) == c \in User

HasKey(c) == step \in {"fetch", "binding"} \/ entity = "set"

Go(c, pc) == load' = [load EXCEPT ![c].pc = pc]

Expired == cache.exp # Never /\ now >= cache.exp

\* A cached history that has not expired, fresh enough for the check.
Usable(c) == ~Expired /\ (RequireFresh(c) => now - cache.wit <= Fresh)

\* On a thread, the cached history is read first and removed later.
Lookup(c) ==
    /\ load[c].pc = "lookup" /\ c \notin Task
    /\ IF ~HasKey(c) THEN Go(c, "failed")
       ELSE IF cache = None THEN Go(c, "get")
       ELSE IF Usable(c) THEN load' = [load EXCEPT ![c] = [pc |-> "ready", view |-> cache]]
       ELSE Go(c, "evict")
    /\ UNCHANGED <<trust, cache, entity>>

Evict(c) ==
    /\ load[c].pc = "evict"
    /\ IF cache = None THEN Go(c, "keyerror") ELSE Go(c, "get")
    /\ cache' = None
    /\ UNCHANGED <<trust, entity>>

\* On an event loop nothing happens between the two.
AsyncLookup(c) ==
    /\ load[c].pc = "lookup" /\ c \in Task
    /\ IF ~HasKey(c) THEN Go(c, "failed") /\ UNCHANGED cache
       ELSE IF cache = None THEN Go(c, "get") /\ UNCHANGED cache
       ELSE IF Usable(c)
       THEN load' = [load EXCEPT ![c] = [pc |-> "ready", view |-> cache]] /\ UNCHANGED cache
       ELSE Go(c, "get") /\ cache' = None
    /\ UNCHANGED <<trust, entity>>

\* A complete stream of n events under a checkpoint with a quorum of
\* witnesses at time w, in a bundle that has not expired.
Witnessed(n, w) ==
    /\ n <= height[w] /\ (w > 0 => n >= height[w - 1])
    /\ Life > 0 => now < w + Life

History(n, w) == [n |-> n, wit |-> w, exp |-> IF Life > 0 THEN w + Life ELSE Never]

\* The log or its bundle service answers with a checkpoint witnessed at some
\* time, of a size the log had then, or not at all.
Get(c) ==
    /\ load[c].pc = "get"
    /\ \/ Go(c, "failed")
       \/ \E w \in 0..now, n \in 1..MaxLog :
             /\ Witnessed(n, w)
             /\ load' = [load EXCEPT ![c] = [pc |-> "got", view |-> History(n, w)]]
    /\ UNCHANGED <<trust, cache, entity>>

\* The checkpoint must extend the one trusted, and becomes the trusted one.
Advance(c) ==
    /\ load[c].pc = "got"
    /\ IF load[c].view.n < trust THEN Go(c, "failed") /\ UNCHANGED trust
       ELSE Go(c, "verified") /\ trust' = load[c].view.n
    /\ UNCHANGED <<cache, entity>>

Keep(c) ==
    /\ load[c].pc = "verified"
    /\ cache' = load[c].view
    /\ Go(c, "ready")
    /\ UNCHANGED <<trust, entity>>

Loading(c) ==
    /\ Lookup(c) \/ Evict(c) \/ AsyncLookup(c) \/ Get(c) \/ Advance(c) \/ Keep(c)
    /\ UNCHANGED <<world, verification, granted>>

-----------------------------------------------------------------------------
(* The verification.                                                       *)

Fail == step' = "failed" /\ UNCHANGED <<dnsAt, fetched, status, boundAt, begun, used>>

Start ==
    /\ step = "start"
    /\ step' = "dns" /\ dnsAt' = now /\ begun' = trust
    /\ UNCHANGED <<fetched, status, boundAt, used, world, reader, granted>>

Answer == [dnssec : {"VALID", "UNKNOWN", "FAILED"}, records : {0, 1, 2}, parses : BOOLEAN]

\* _record_from_dns: one valid record, under the DNSSEC mode.
RecordOk(a) ==
    /\ a.dnssec # "FAILED"
    /\ DnssecMode = "VALIDATED" => a.dnssec # "UNKNOWN"
    /\ DnssecMode = "REQUIRED" => a.dnssec = "VALID"
    /\ a.records = 1 /\ a.parses

\* The resolver answers; a record that was withdrawn is no longer found.
Resolve ==
    /\ step = "dns"
    /\ \E a \in Answer :
          /\ withdrawn # Never => a.records = 0
          /\ IF RecordOk(a)
             THEN step' = "ek" /\ UNCHANGED <<dnsAt, fetched, status, boundAt, begun, used>>
             ELSE Fail
    /\ UNCHANGED <<world, reader, granted>>

\* The record authenticated under ek: both branches start, and the identity
\* branch starts to fetch ku and to load the history.
Authenticate ==
    /\ step = "ek"
    /\ \/ Fail /\ UNCHANGED load
       \/ /\ step' = "fetch"
          /\ load' = [load EXCEPT !["V"].pc = "lookup"]
          /\ UNCHANGED <<dnsAt, fetched, status, boundAt, begun, used>>
    /\ UNCHANGED <<world, trust, cache, entity, granted>>

InBranches == step \in {"fetch", "binding", "continuity", "age", "identity"}

FetchKu ==
    /\ step = "fetch" /\ fetched = None
    /\ \/ fetched' = ku /\ UNCHANGED <<step, dnsAt, status, boundAt, begun, used, load>>
       \/ Fail /\ load' = [load EXCEPT !["V"] = Idle]
    /\ UNCHANGED <<world, trust, cache, entity, granted>>

FetchStatus ==
    /\ InBranches /\ status = None
    /\ status' \in {su, "error"}
    /\ UNCHANGED <<step, dnsAt, fetched, boundAt, begun, used, world, reader, granted>>

\* A reader call of the verification is over: on to the next, or fail.
Proceed(ok, next) ==
    IF ~ok THEN Fail /\ load' = [load EXCEPT !["V"] = Idle]
    ELSE /\ step' = next
         /\ used' = Append(used, load["V"].view.n)
         /\ load' = [load EXCEPT !["V"].pc = IF next = "identity" THEN "idle" ELSE "lookup"]
         /\ UNCHANGED <<dnsAt, fetched, status, begun>>

Active(n) == log[n].key

Ready == load["V"].pc = "ready"

\* _separate_operational_key: the operational key is not the entity's.
Separate == fetched # "ek"

Preloaded ==
    /\ step = "fetch" /\ Ready /\ fetched # None
    /\ Proceed(Separate, "binding") /\ UNCHANGED boundAt
    /\ UNCHANGED <<world, trust, cache, entity, granted>>

\* verify_bilateral_binding: alive, and the key is one of the history's.
Binding ==
    /\ step = "binding" /\ Ready
    /\ LET n == load["V"].view.n
       IN  Proceed(Active(n) # "REVOKED" /\ \E i \in 1..n : Active(i) = fetched, "continuity")
    /\ entity' = IF Active(load["V"].view.n) # "REVOKED" THEN "set" ELSE entity
    /\ UNCHANGED <<boundAt, world, trust, cache, granted>>

\* verify_operational_continuity: the key is the active one.
Continuity ==
    /\ step = "continuity" /\ Ready
    /\ Proceed(Active(load["V"].view.n) = fetched, IF MaxAge > 0 THEN "age" ELSE "identity")
    /\ UNCHANGED <<boundAt, world, trust, cache, entity, granted>>

\* key_timestamp, and _check_key_age.
Age ==
    /\ step = "age" /\ Ready
    /\ LET uses == {i \in 1..load["V"].view.n : Active(i) = fetched}
           first == log[Min(uses)].time
       IN  IF uses = {} THEN Proceed(FALSE, "identity") /\ UNCHANGED boundAt
           ELSE Proceed(now - first <= MaxAge, "identity") /\ boundAt' = first
    /\ UNCHANGED <<world, trust, cache, entity, granted>>

\* A failed reader call, or a status that is not ACTIVE, fails the call.
BranchFails ==
    /\ InBranches
    /\ load["V"].pc \in {"failed", "keyerror"} \/ status \notin {None, "ACTIVE"}
    /\ Fail
    /\ load' = [load EXCEPT !["V"] = Idle]
    /\ UNCHANGED <<world, trust, cache, entity, granted>>

\* _require_fresh_evidence, for a record just looked up.
FreshEvidence ==
    /\ now < CertEnd
    /\ MaxAge > 0 => now < boundAt + MaxAge
    /\ Ttl > 0 => now < dnsAt + Ttl

Accept ==
    /\ step = "identity" /\ status = "ACTIVE"
    /\ IF FreshEvidence
       THEN step' = "accepted" /\ UNCHANGED <<dnsAt, fetched, status, boundAt, begun, used>>
       ELSE Fail
    /\ UNCHANGED <<world, reader, granted>>

Verification ==
    \/ Start \/ Resolve \/ Authenticate \/ FetchKu \/ FetchStatus
    \/ Preloaded \/ Binding \/ Continuity \/ Age \/ BranchFails \/ Accept

-----------------------------------------------------------------------------
(* Users of the reader of an accepted domain.                              *)

Ask(u) ==
    /\ step = "accepted" /\ load[u].pc = "idle"
    /\ load' = [load EXCEPT ![u].pc = "lookup"]
    /\ granted' = [granted EXCEPT ![u] = None]
    /\ UNCHANGED <<world, trust, cache, entity, verification>>

\* Mutant: the loaded history is not checked for freshness again.
NonRevocationLoaded(u) ==
    /\ load[u].pc = "ready"
    /\ LET v == load[u].view
       IN  granted' = [granted EXCEPT ![u] =
                 IF Active(v.n) # "REVOKED" THEN [n |-> v.n, at |-> now] ELSE None]
    /\ load' = [load EXCEPT ![u] = Idle]
    /\ UNCHANGED <<world, trust, cache, entity, verification>>

\* verify_non_revocation on the loaded history.
NonRevocation(u) ==
    /\ load[u].pc = "ready"
    /\ LET v == load[u].view
       IN  granted' = [granted EXCEPT ![u] =
                 IF now - v.wit <= Fresh /\ Active(v.n) # "REVOKED"
                 THEN [n |-> v.n, at |-> now] ELSE None]
    /\ load' = [load EXCEPT ![u] = Idle]
    /\ UNCHANGED <<world, trust, cache, entity, verification>>

\* The error is reported; the user may ask again.
UserFails(u) ==
    /\ load[u].pc = "failed"
    /\ load' = [load EXCEPT ![u] = Idle]
    /\ UNCHANGED <<world, trust, cache, entity, verification, granted>>

Step ==
    \/ Tick \/ Suspend \/ Withdraw
    \/ \E k \in Keys \cup {"REVOKED"} : LogEvent(k)
    \/ \E k \in Keys \cup {"ek"} : Publish(k)
    \/ \E c \in {"V"} \cup User : Loading(c)
    \/ Verification
    \/ \E u \in User : Ask(u) \/ NonRevocation(u) \/ UserFails(u)

Next == Step /\ plan' = plan

Spec == Init /\ [][Next]_vars

-----------------------------------------------------------------------------

TypeOK ==
    /\ now \in 0..MaxTime
    /\ log \in Seq([key : Keys \cup {"REVOKED"}, time : 0..MaxTime]) /\ Len(log) \in 1..MaxLog
    /\ height \in [0..MaxTime -> 0..MaxLog]
    /\ ku \in Keys \cup {"ek"} /\ su \in {"ACTIVE", "REVOKED"}
    /\ withdrawn \in 0..Never
    /\ trust \in 0..MaxLog
    /\ cache \in [n : 1..MaxLog, wit : 0..MaxTime, exp : Nat] \cup {None}
    /\ entity \in {"unset", "set"}
    /\ load \in [{"V"} \cup User ->
          [pc : {"idle", "lookup", "evict", "get", "got", "verified", "ready", "failed", "keyerror"},
           view : [n : 1..MaxLog, wit : 0..MaxTime, exp : Nat] \cup {None}]]
    /\ step \in {"start", "dns", "ek", "fetch", "binding", "continuity", "age",
                 "identity", "accepted", "failed"}
    /\ fetched \in Keys \cup {"ek", None}
    /\ status \in {None, "ACTIVE", "REVOKED", "error"}

\* The key of an accepted domain was the active key of a living identity, in
\* a log no older than the one this process trusted when the verification
\* began, and no check of the verification looked at an older log than the
\* check before it, whatever expired and was loaded again in between
\* (_verify_identity_evidence, _load_complete_history).
AcceptedKeyWasActive ==
    step = "accepted" =>
        /\ \A i \in DOMAIN used : used[i] >= begun /\ (i > 1 => used[i] >= used[i - 1])
        /\ Active(used[3]) = fetched

\* An accepted record was still published less than its TTL ago, however
\* long the rest of the verification took (dns_acquired_at, "Lookup start
\* conservatively bounds response acquisition").
AcceptsPublishedRecord ==
    step' = "accepted" /\ step # "accepted" /\ Ttl > 0 => now < withdrawn + Ttl

\* A granted non-revocation check has seen everything that was logged up to
\* the freshness bound before the check, whatever other users of the reader
\* loaded, evicted or cached meanwhile (verify_non_revocation).
RevocationSeenInTime ==
    \A u \in User : granted[u] # None /\ granted[u].at > Fresh =>
        granted[u].n >= height[granted[u].at - Fresh - 1]

===============================================================================
