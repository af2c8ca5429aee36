---------------------------- MODULE LogReaderProofs ----------------------------
(***************************************************************************)
(* Proofs about the reader of an identity's log, for any logs and limits,  *)
(* keys, users, TTLs, freshness bounds and bundle lifetimes: the inductive *)
(* invariants from which the properties of IdentityEvidence follow, and    *)
(* the main one of LogMigration, and the steps that preserve them.         *)
(***************************************************************************)
EXTENDS IdentityEvidence, LogMigration, TLAPS

-----------------------------------------------------------------------------
(* _verify_identity_evidence, _load_complete_history, verify_non_revocation *)


\* Who calls _load_complete_history, and what a call holds.
Caller == {"V"} \cup User
View == [n : 1..MaxLog, wit : 0..MaxTime, exp : Nat]
Pc == {"idle", "lookup", "evict", "get", "got", "verified", "ready", "failed", "keyerror"}
Step3 == {"age", "identity", "accepted"}

\* The types of all the evidence, the history variables included.
Typed ==
    /\ IsPlan(plan) /\ TypeOK
    /\ dnsAt \in 0..MaxTime /\ begun \in Nat /\ used \in Seq(1..MaxLog)
    /\ granted \in [User -> [n : 1..MaxLog, at : 0..MaxTime] \cup {None}]

\* The log only grows.
Grown ==
    /\ height[now] = Len(log)
    /\ \A s, t \in 0..now : s <= t => height[s] <= height[t]

\* A verified history is a prefix of the log, and has all that was logged before
\* the time at which it was witnessed.
Seen(v) == v.n <= Len(log) /\ v.wit <= now /\ (v.wit > 0 => v.n >= height[v.wit - 1])

Histories ==
    /\ cache # None => Seen(cache)
    /\ \A c \in Caller : load[c].pc \in {"got", "verified", "ready"} =>
          load[c].view \in View /\ Seen(load[c].view)

\* Until the verification is over nobody else uses the reader, so that what it has
\* loaded is the trusted history.
Alone ==
    step # "accepted" =>
        /\ \A u \in User : load[u].pc = "idle"
        /\ cache # None => cache.n = trust
        /\ load["V"].pc \in {"get", "got", "verified"} => cache = None
        /\ load["V"].pc \in {"verified", "ready"} => load["V"].view.n = trust

\* The sizes that the checks have used grow with the trusted size, and the third
\* found the fetched key active.
Checked ==
    /\ begun <= trust
    /\ \A i \in DOMAIN used : /\ used[i] >= begun /\ used[i] <= trust
                              /\ i > 1 => used[i] >= used[i - 1]
    /\ step \in {"start", "dns", "ek", "fetch"} => used = <<>>
    /\ step = "binding" => Len(used) = 1
    /\ step = "continuity" => Len(used) = 2
    /\ step \in Step3 => Len(used) >= 3 /\ used[3] <= Len(log) /\ Active(used[3]) = fetched

\* The record was not withdrawn when it was looked up.
Published ==
    /\ dnsAt <= now
    /\ step \in {"ek", "fetch", "binding", "continuity", "age", "identity"} => dnsAt <= withdrawn

\* What a granted check has seen.
Granted ==
    /\ \A u \in User : granted[u] # None => granted[u].at <= now
    /\ RevocationSeenInTime

EvidenceInv == Typed /\ Grown /\ Histories /\ Alone /\ Checked /\ Published /\ Granted

\* The bounds are numbers.
LEMMA Bounds ==
    ASSUME EvidenceAssumption
    PROVE  MaxTime \in Nat /\ MaxLog \in Nat /\ MaxLog > 0
<1> QED
  BY Zenon DEF EvidenceAssumption

\* The callers' loads, as records.
LEMMA LoadTyped ==
    ASSUME EvidenceAssumption, Typed
    PROVE  /\ load \in [Caller -> [pc : Pc, view : View \cup {None}]]
           /\ cache \in View \cup {None} /\ trust \in 0..MaxLog
           /\ "V" \in Caller /\ User \subseteq Caller /\ "V" \notin User
<1>1. "V" \notin User
  BY Zenon DEF Typed, IsPlan, User, Thread, Task
<1> QED
  BY Zenon, <1>1 DEF Typed, TypeOK, Caller, Pc, View

\* Moving a call on changes its place only.
LEMMA GoIs ==
    ASSUME EvidenceAssumption, Typed, NEW c \in Caller, NEW p, load' = [load EXCEPT ![c].pc = p]
    PROVE  load' = [load EXCEPT ![c] = [pc |-> p, view |-> load[c].view]]
<1>1. load[c] \in [pc : Pc, view : View \cup {None}]
  BY Zenon, LoadTyped
<1>2. [load[c] EXCEPT !.pc = p] = [pc |-> p, view |-> load[c].view]
  BY <1>1
<1> QED
  BY Zenon, <1>2

\* One caller's load becomes r, in a world that stands still.
LEMMA LoadingKeeps ==
    ASSUME EvidenceAssumption,
           EvidenceInv, NEW c \in Caller, NEW r \in [pc : Pc, view : View \cup {None}],
           load' = [load EXCEPT ![c] = r],
           UNCHANGED <<plan, world, verification, granted, entity>>,
           trust' \in 0..MaxLog, trust' >= trust,
           cache' \in View \cup {None}, cache' # None => Seen(cache'),
           r.pc \in {"got", "verified", "ready"} => r.view \in View /\ Seen(r.view),
           step # "accepted" =>
               /\ c = "V"
               /\ cache' # None => cache'.n = trust'
               /\ r.pc \in {"get", "got", "verified"} => cache' = None
               /\ r.pc \in {"verified", "ready"} => r.view.n = trust'
    PROVE  EvidenceInv'
<1> USE DEF EvidenceInv
<1>0. User' = User /\ Caller' = Caller /\ Keys' = Keys
  BY Zenon DEF User, Thread, Task, Caller, Keys
<1>1. load' \in [Caller -> [pc : Pc, view : View \cup {None}]]
  BY Zenon, LoadTyped
<1>2. load'[c] = r /\ \A d \in Caller \ {c} : load'[d] = load[d]
  BY Zenon, LoadTyped
<1>3. Typed'
  <2>1. UNCHANGED <<now, log, height, ku, su, withdrawn, entity, step, dnsAt, fetched, status,
                    begun, used, granted, plan>>
    BY Zenon DEF world, verification
  <2>2. TypeOK'
    BY <1>0, <1>1, <2>1 DEF Typed, TypeOK, Caller, Pc, View
  <2> QED
    BY Zenon, <1>0, <2>1, <2>2 DEF Typed
<1>4. Grown'
  BY Zenon DEF Grown, world
<1>5. \A v : Seen(v)' = Seen(v)
  BY Zenon DEF Seen, world
<1>6. Histories'
  BY Zenon, <1>0, <1>2, <1>5 DEF Histories, Seen, world
<1>7. Alone'
  <2> SUFFICES ASSUME step # "accepted"
               PROVE  /\ \A u \in User : load'[u].pc = "idle"
                      /\ cache' # None => cache'.n = trust'
                      /\ load'["V"].pc \in {"get", "got", "verified"} => cache' = None
                      /\ load'["V"].pc \in {"verified", "ready"} => load'["V"].view.n = trust'
    BY Zenon, <1>0 DEF Alone, verification
  <2>1. c = "V" /\ load'["V"] = r
    BY Zenon, <1>2
  <2>2. ASSUME NEW u \in User PROVE load'[u].pc = "idle"
    BY Zenon, <1>2, <2>1, LoadTyped DEF Alone
  <2> QED
    BY Zenon, <2>1, <2>2
<1>8. Checked'
  <2>1. trust \in Nat /\ trust' \in Nat /\ begun \in Nat /\ \A i \in DOMAIN used : used[i] \in Nat
    BY Bounds DEF Typed, TypeOK
  <2>2. UNCHANGED <<begun, used, step, fetched, log>>
    BY Zenon DEF verification, world
  <2> QED
    BY <2>1, <2>2 DEF Checked, Active
<1>9. Published'
  BY Zenon DEF Published, verification, world
<1>10. Granted'
  BY Zenon, <1>0 DEF Granted, RevocationSeenInTime, Fresh, world
<1> QED
  BY Zenon, <1>3, <1>4, <1>6, <1>7, <1>8, <1>9, <1>10

\* A load that moves on without a verified history.
LEMMA GoKeeps ==
    ASSUME EvidenceAssumption,
           EvidenceInv, NEW c \in Caller, NEW p \in Pc \ {"got", "verified", "ready"},
           Go(c, p), load[c].pc # "idle",
           UNCHANGED <<plan, world, verification, granted, entity, trust>>,
           cache' \in {cache, None}, p = "get" => cache' = None
    PROVE  EvidenceInv'
<1> DEFINE r == [pc |-> p, view |-> load[c].view]
<1> USE DEF EvidenceInv
<1>1. load' = [load EXCEPT ![c] = r]
  BY Zenon, GoIs DEF Go
<1>2. r \in [pc : Pc, view : View \cup {None}] /\ r.pc = p
  BY Zenon, LoadTyped
<1>3. /\ cache' \in View \cup {None} /\ trust' \in 0..MaxLog /\ trust' >= trust
      /\ cache' # None => Seen(cache')
  BY LoadTyped, Bounds DEF Histories
<1>4. /\ step # "accepted" => c = "V" /\ (cache' # None => cache'.n = trust')
      /\ r.pc \in {"get", "got", "verified"} => cache' = None
  BY Zenon DEF Alone, Caller
<1> HIDE DEF r
<1> QED
  BY Zenon, <1>1, <1>2, <1>3, <1>4, LoadingKeeps DEF EvidenceInv

\* The cached history is used, or a history is asked for.
LEMMA LookupInv ==
    ASSUME EvidenceAssumption, EvidenceInv, NEW c \in Caller, Lookup(c) \/ AsyncLookup(c),
           UNCHANGED <<plan, world, verification, granted>>
    PROVE  EvidenceInv'
<1> USE DEF EvidenceInv
<1>0. load[c].pc = "lookup" /\ UNCHANGED <<trust, entity>> /\ cache' \in {cache, None}
  BY Zenon DEF Lookup, AsyncLookup
<1>1. CASE \E p \in {"failed", "get", "evict"} : Go(c, p) /\ (p = "get" => cache' = None)
  <2>1. PICK p \in {"failed", "get", "evict"} : Go(c, p) /\ (p = "get" => cache' = None)
    BY Zenon, <1>1
  <2>2. p \in Pc \ {"got", "verified", "ready"}
    BY Zenon DEF Pc
  <2> QED
    BY Zenon, <1>0, <2>1, <2>2, GoKeeps
<1>2. CASE /\ cache # None /\ cache' = cache
           /\ load' = [load EXCEPT ![c] = [pc |-> "ready", view |-> cache]]
  <2> DEFINE r == [pc |-> "ready", view |-> cache]
  <2>1. r \in [pc : Pc, view : View \cup {None}] /\ r.pc = "ready" /\ r.view = cache
    BY Zenon, LoadTyped DEF Pc
  <2>2. cache \in View /\ Seen(cache) /\ trust \in 0..MaxLog /\ trust' >= trust
    BY <1>0, <1>2, LoadTyped, Bounds DEF Histories
  <2>3. step # "accepted" => c = "V" /\ cache.n = trust
    BY Zenon, <1>0, <1>2 DEF Alone, Caller
  <2> HIDE DEF r
  <2> QED
    BY Zenon, <1>0, <1>2, <2>1, <2>2, <2>3, LoadingKeeps DEF r
<1>3. \/ \E p \in {"failed", "get", "evict"} : Go(c, p) /\ (p = "get" => cache' = None)
      \/ /\ cache # None /\ cache' = cache
         /\ load' = [load EXCEPT ![c] = [pc |-> "ready", view |-> cache]]
  BY Zenon DEF Lookup, AsyncLookup
<1> QED
  BY Zenon, <1>1, <1>2, <1>3

\* An unusable cached history is removed.
LEMMA EvictInv ==
    ASSUME EvidenceAssumption, EvidenceInv, NEW c \in Caller, Evict(c),
           UNCHANGED <<plan, world, verification, granted>>
    PROVE  EvidenceInv'
<1>1. PICK p \in {"keyerror", "get"} : Go(c, p)
  BY Zenon DEF Evict
<1>2. p \in Pc \ {"got", "verified", "ready"}
  BY Zenon DEF Pc
<1>3. load[c].pc = "evict" /\ UNCHANGED <<trust, entity>> /\ cache' = None
  BY Zenon DEF Evict
<1> QED
  BY Zenon, <1>1, <1>2, <1>3, GoKeeps

\* A history that is served has all that was logged before it was witnessed.
LEMMA GetInv ==
    ASSUME EvidenceAssumption, EvidenceInv, NEW c \in Caller, Get(c),
           UNCHANGED <<plan, world, verification, granted>>
    PROVE  EvidenceInv'
<1> USE DEF EvidenceInv
<1>0. load[c].pc = "get" /\ UNCHANGED <<trust, entity, cache>>
  BY Zenon DEF Get
<1>1. CASE Go(c, "failed")
  <2>1. "failed" \in Pc \ {"got", "verified", "ready"}
    BY Zenon DEF Pc
  <2> QED
    BY Zenon, <1>0, <1>1, <2>1, GoKeeps
<1>2. ASSUME NEW w \in 0..now, NEW n \in 1..MaxLog, Witnessed(n, w),
             load' = [load EXCEPT ![c] = [pc |-> "got", view |-> History(n, w)]]
      PROVE  EvidenceInv'
  <2> DEFINE r == [pc |-> "got", view |-> History(n, w)]
  <2>0. now \in 0..MaxTime /\ Life \in Nat
    BY Zenon DEF Typed, TypeOK, IsPlan, Life
  <2>1. History(n, w) \in View /\ History(n, w).n = n /\ History(n, w).wit = w
    BY <1>2, <2>0, Bounds DEF History, View, Never
  <2>2. n <= Len(log)
    <3>1. n <= height[w] /\ height[w] <= height[now] /\ height[now] = Len(log)
      BY <1>2, <2>0, Bounds DEF Witnessed, Grown
    <3>2. height \in [0..MaxTime -> 0..MaxLog] /\ Len(log) \in Nat
      BY DEF Typed, TypeOK
    <3>3. w \in 0..MaxTime
      BY <2>0, Bounds
    <3>4. height[w] \in Nat
      BY <3>2, <3>3, Bounds
    <3> QED
      BY <3>1, <3>2, <3>4
  <2>3. Seen(History(n, w))
    BY <1>2, <2>0, <2>1, <2>2, Bounds DEF Witnessed, Seen
  <2>4. r \in [pc : Pc, view : View \cup {None}] /\ r.pc = "got" /\ r.view = History(n, w)
    BY Zenon, <2>1 DEF Pc
  <2>5. /\ cache' \in View \cup {None} /\ trust' \in 0..MaxLog /\ trust' >= trust
        /\ cache' # None => Seen(cache')
    BY <1>0, LoadTyped, Bounds DEF Histories
  <2>6. step # "accepted" => c = "V" /\ cache' = None
    BY Zenon, <1>0 DEF Alone, Caller
  <2>7. load' = [load EXCEPT ![c] = r]
    BY Zenon, <1>2
  <2> HIDE DEF r
  <2> QED
    BY Zenon, <1>0, <2>1, <2>3, <2>4, <2>5, <2>6, <2>7, LoadingKeeps DEF EvidenceInv
<1> QED
  BY Zenon, <1>1, <1>2 DEF Get

\* The trusted size never falls.
LEMMA AdvanceInv ==
    ASSUME EvidenceAssumption, EvidenceInv, NEW c \in Caller, Advance(c),
           UNCHANGED <<plan, world, verification, granted>>
    PROVE  EvidenceInv'
<1> USE DEF EvidenceInv
<1>0. load[c].pc = "got" /\ UNCHANGED <<entity, cache>>
  BY Zenon DEF Advance
<1>1. CASE Go(c, "failed") /\ UNCHANGED trust
  <2>1. "failed" \in Pc \ {"got", "verified", "ready"}
    BY Zenon DEF Pc
  <2> QED
    BY Zenon, <1>0, <1>1, <2>1, GoKeeps
<1>2. CASE ~(load[c].view.n < trust) /\ Go(c, "verified") /\ trust' = load[c].view.n
  <2> DEFINE r == [pc |-> "verified", view |-> load[c].view]
  <2>1. load' = [load EXCEPT ![c] = r]
    BY Zenon, <1>2, GoIs DEF Go
  <2>2. load[c].view \in View /\ Seen(load[c].view)
    BY Zenon, <1>0 DEF Histories
  <2>3. r \in [pc : Pc, view : View \cup {None}] /\ r.pc = "verified" /\ r.view = load[c].view
    BY Zenon, LoadTyped DEF Pc
  <2>4. trust' \in 0..MaxLog /\ trust' >= trust /\ trust' = r.view.n
    BY <1>2, <2>2, LoadTyped, Bounds DEF View
  <2>5. cache' \in View \cup {None} /\ (cache' # None => Seen(cache'))
    BY Zenon, <1>0, LoadTyped DEF Histories
  <2>6. step # "accepted" => c = "V" /\ cache' = None
    BY Zenon, <1>0 DEF Alone, Caller
  <2> HIDE DEF r
  <2> QED
    BY Zenon, <1>0, <2>1, <2>2, <2>3, <2>4, <2>5, <2>6, LoadingKeeps
<1> QED
  BY Zenon, <1>1, <1>2 DEF Advance

\* A verified history is cached.
LEMMA KeepInv ==
    ASSUME EvidenceAssumption, EvidenceInv, NEW c \in Caller, Keep(c),
           UNCHANGED <<plan, world, verification, granted>>
    PROVE  EvidenceInv'
<1> USE DEF EvidenceInv
<1> DEFINE r == [pc |-> "ready", view |-> load[c].view]
<1>0. load[c].pc = "verified" /\ UNCHANGED <<entity, trust>> /\ cache' = load[c].view
  BY Zenon DEF Keep
<1>1. load' = [load EXCEPT ![c] = r]
  BY Zenon, GoIs DEF Keep, Go
<1>2. load[c].view \in View /\ Seen(load[c].view)
  BY Zenon, <1>0 DEF Histories
<1>3. r \in [pc : Pc, view : View \cup {None}] /\ r.pc = "ready" /\ r.view = load[c].view
  BY Zenon, LoadTyped DEF Pc
<1>4. trust' \in 0..MaxLog /\ trust' >= trust
  BY <1>0, LoadTyped, Bounds
<1>5. step # "accepted" => c = "V" /\ load[c].view.n = trust
  BY Zenon, <1>0 DEF Alone, Caller
<1> HIDE DEF r
<1> QED
  BY Zenon, <1>0, <1>1, <1>2, <1>3, <1>4, <1>5, LoadingKeeps

\* Every step of _load_complete_history keeps the invariant.
LEMMA LoadingInv ==
    ASSUME EvidenceAssumption, EvidenceInv, NEW c \in Caller, Loading(c), UNCHANGED plan
    PROVE  EvidenceInv'
<1>1. UNCHANGED <<plan, world, verification, granted>>
  BY Zenon DEF Loading
<1> QED
  BY Zenon, <1>1, LookupInv, EvictInv, GetInv, AdvanceInv, KeepInv DEF Loading

\* The world moves on: the log grows, and what it held at earlier times stays.
WorldMoves ==
    /\ UNCHANGED <<plan, reader, verification, granted>>
    /\ now' \in 0..MaxTime /\ now' >= now
    /\ log' \in Seq([key : Keys \cup {"REVOKED"}, time : 0..MaxTime])
    /\ Len(log') \in 1..MaxLog /\ Len(log') >= Len(log)
    /\ \A i \in DOMAIN log : log'[i] = log[i]
    /\ height' \in [0..MaxTime -> 0..MaxLog] /\ Grown'
    /\ \A t \in 0..MaxTime : t < now => height'[t] = height[t]
    /\ ku' \in Keys \cup {"ek"} /\ su' \in {"ACTIVE", "REVOKED"}
    /\ withdrawn' \in 0..Never /\ (dnsAt <= withdrawn => dnsAt <= withdrawn')

\* A step of the world that only adds to the log keeps the invariant.
LEMMA WorldKeeps ==
    ASSUME EvidenceAssumption, EvidenceInv, WorldMoves
    PROVE  EvidenceInv'
<1>i. Typed /\ Grown /\ Histories /\ Alone /\ Checked /\ Published /\ Granted
  BY Zenon DEF EvidenceInv
<1>0. User' = User /\ Caller' = Caller /\ Keys' = Keys /\ Fresh' = Fresh
  BY Zenon DEF WorldMoves, User, Thread, Task, Caller, Keys, Fresh
<1>1. UNCHANGED <<trust, cache, entity, load, step, dnsAt, fetched, status, begun, used, granted,
                  plan>>
  BY Zenon DEF WorldMoves, reader, verification
<1>2. Typed'
  <2>1. TypeOK'
    BY <1>i, <1>0, <1>1 DEF Typed, TypeOK, WorldMoves
  <2> QED
    BY Zenon, <1>i, <1>0, <1>1, <2>1 DEF Typed
<1>3. now \in 0..MaxTime /\ now' \in 0..MaxTime /\ now' >= now /\ MaxTime \in Nat /\ MaxLog \in Nat
  BY Zenon, <1>i, Bounds DEF Typed, TypeOK, WorldMoves
<1>4. Len(log) \in 1..MaxLog /\ Len(log') \in 1..MaxLog /\ Len(log') >= Len(log)
  BY Zenon, <1>i DEF Typed, TypeOK, WorldMoves
<1>5. \A t \in 0..MaxTime : t < now => height'[t] = height[t]
  BY Zenon DEF WorldMoves
<1>6. ASSUME NEW v \in View, Seen(v) PROVE Seen(v)'
  <2>1. v.n \in Nat /\ v.wit \in 0..MaxTime
    BY Bounds DEF View
  <2>2. v.n <= Len(log) /\ v.wit <= now /\ (v.wit > 0 => v.n >= height[v.wit - 1])
    BY Zenon, <1>6 DEF Seen
  <2>3. v.n <= Len(log') /\ v.wit <= now'
    BY <1>3, <1>4, <2>1, <2>2
  <2>4. v.wit > 0 => v.wit - 1 \in 0..MaxTime /\ v.wit - 1 < now
    BY <1>3, <2>1, <2>2
  <2>5. v.wit > 0 => v.n >= height'[v.wit - 1]
    BY Zenon, <1>5, <2>2, <2>4
  <2> QED
    BY Zenon, <2>3, <2>5 DEF Seen
<1>7. Histories'
  <2>1. cache' # None => Seen(cache)'
    <3> SUFFICES ASSUME cache' # None PROVE Seen(cache)'
      BY Zenon
    <3>1. cache \in View /\ Seen(cache)
      BY Zenon, <1>i, <1>1, LoadTyped DEF Histories
    <3>2. PICK v \in View : v = cache
      BY Zenon, <3>1
    <3>3. Seen(v)'
      BY Zenon, <1>6, <3>1, <3>2
    <3> QED
      BY Zenon, <1>1, <3>2, <3>3 DEF Seen
  <2>2. ASSUME NEW c \in Caller, load[c].pc \in {"got", "verified", "ready"}
        PROVE  load[c].view \in View /\ Seen(load[c].view)'
    <3>1. load[c].view \in View /\ Seen(load[c].view)
      BY Zenon, <1>i, <2>2 DEF Histories
    <3>2. PICK v \in View : v = load[c].view
      BY Zenon, <3>1
    <3>3. Seen(v)'
      BY Zenon, <1>6, <3>1, <3>2
    <3> QED
      BY Zenon, <1>1, <3>1, <3>2, <3>3 DEF Seen
  <2> QED
    BY Zenon, <1>0, <1>1, <2>1, <2>2 DEF Histories
<1>8. Alone'
  BY Zenon, <1>i, <1>0, <1>1 DEF Alone
<1>9. Checked'
  <2>1. step \in Step3 => Active(used[3])' = Active(used[3]) /\ used[3] <= Len(log')
    <3> SUFFICES ASSUME step \in Step3
                 PROVE  Active(used[3])' = Active(used[3]) /\ used[3] <= Len(log')
      BY Zenon
    <3>1. used \in Seq(1..MaxLog) /\ Len(used) >= 3 /\ used[3] <= Len(log)
      BY Zenon, <1>i DEF Typed, Checked
    <3>2. used[3] \in 1..MaxLog
      BY <3>1, Bounds
    <3>3. DOMAIN log = 1..Len(log)
      BY <1>i DEF Typed, TypeOK
    <3>4. used[3] \in DOMAIN log /\ used[3] <= Len(log')
      BY <1>3, <1>4, <3>1, <3>2, <3>3
    <3>5. log'[used[3]] = log[used[3]]
      BY Zenon, <3>4 DEF WorldMoves
    <3> QED
      BY Zenon, <1>1, <3>4, <3>5 DEF Active
  <2> QED
    BY Zenon, <1>i, <1>1, <2>1 DEF Checked
<1>10. Published'
  <2>1. dnsAt \in 0..MaxTime
    BY Zenon, <1>i DEF Typed
  <2>2. dnsAt <= now'
    BY <1>i, <1>3, <2>1 DEF Published
  <2>3. dnsAt <= withdrawn => dnsAt <= withdrawn'
    BY Zenon DEF WorldMoves
  <2> QED
    BY Zenon, <1>i, <1>1, <2>2, <2>3 DEF Published
<1>11. Granted'
  <2> SUFFICES ASSUME NEW u \in User, granted[u] # None
               PROVE  /\ granted[u].at <= now'
                      /\ granted[u].at > Fresh => granted[u].n >= height'[granted[u].at - Fresh - 1]
    BY Zenon, <1>0, <1>1 DEF Granted, RevocationSeenInTime
  <2>1. granted[u].at \in 0..MaxTime /\ Fresh \in Nat
    BY Zenon, <1>i DEF Typed, IsPlan, Fresh
  <2>2. granted[u].at <= now
    BY Zenon, <1>i DEF Granted
  <2>3. granted[u].at > Fresh =>
            granted[u].at - Fresh - 1 \in 0..MaxTime /\ granted[u].at - Fresh - 1 < now
    BY <1>3, <2>1, <2>2
  <2>4. granted[u].at > Fresh => granted[u].n >= height[granted[u].at - Fresh - 1]
    BY Zenon, <1>i DEF Granted, RevocationSeenInTime
  <2>5. granted[u].at <= now'
    BY <1>3, <2>1, <2>2
  <2> QED
    BY Zenon, <1>5, <2>3, <2>4, <2>5
<1> QED
  BY Zenon, <1>2, <1>7, <1>8, <1>9, <1>10, <1>11 DEF EvidenceInv, WorldMoves

\* Time goes on.
LEMMA TickInv ==
    ASSUME EvidenceAssumption, EvidenceInv, UNCHANGED plan, Tick
    PROVE  EvidenceInv'
<1>i. Typed /\ Grown
  BY Zenon DEF EvidenceInv
<1>1. /\ now \in 0..MaxTime /\ now < MaxTime /\ now' = now + 1
      /\ height' = [height EXCEPT ![now + 1] = height[now]]
      /\ UNCHANGED <<plan, log, ku, su, withdrawn, reader, verification, granted>>
  BY Zenon, <1>i DEF Tick, Typed, TypeOK
<1>2. height \in [0..MaxTime -> 0..MaxLog] /\ MaxTime \in Nat /\ MaxLog \in Nat
  BY Zenon, <1>i, Bounds DEF Typed, TypeOK
<1>3. now' \in 0..MaxTime /\ now' >= now
  BY <1>1, <1>2
<1>4. height' \in [0..MaxTime -> 0..MaxLog]
  BY Zenon, <1>1, <1>2, <1>3
<1>5. \A t \in 0..now : height'[t] = height[t]
  BY <1>1, <1>2
<1>6. height'[now + 1] = height[now]
  BY Zenon, <1>1, <1>2, <1>3
<1>7. Grown'
  <2>1. height'[now'] = Len(log')
    BY Zenon, <1>i, <1>1, <1>6 DEF Grown
  <2>2. ASSUME NEW s \in 0..now', NEW t \in 0..now', s <= t PROVE height'[s] <= height'[t]
    <3>0. \A x \in 0..now : height[x] \in Nat
      BY <1>1, <1>2
    <3>1. CASE t \in 0..now
      <4>1. s \in 0..now
        BY <1>1, <2>2, <3>1
      <4> QED
        BY Zenon, <1>i, <1>5, <2>2, <3>1, <4>1 DEF Grown
    <3>2. CASE t = now + 1 /\ s \in 0..now
      <4>1. now \in 0..now /\ s <= now
        BY <1>1, <3>2
      <4>2. height[s] <= height[now]
        BY Zenon, <1>i, <3>2, <4>1 DEF Grown
      <4> QED
        BY Zenon, <1>5, <1>6, <3>2, <4>2
    <3>3. CASE t = now + 1 /\ s = now + 1
      BY <1>1, <1>6, <3>0, <3>3
    <3>4. t \in 0..now \/ (t = now + 1 /\ s \in 0..now) \/ (t = now + 1 /\ s = now + 1)
      BY <1>1, <2>2
    <3> QED
      BY Zenon, <3>1, <3>2, <3>3, <3>4
  <2> QED
    BY Zenon, <2>1, <2>2 DEF Grown
<1>8. \A t \in 0..MaxTime : t < now => height'[t] = height[t]
  BY <1>1, <1>2, <1>5
<1>9. /\ log \in Seq([key : Keys \cup {"REVOKED"}, time : 0..MaxTime])
      /\ Len(log) \in 1..MaxLog /\ ku \in Keys \cup {"ek"} /\ su \in {"ACTIVE", "REVOKED"}
      /\ withdrawn \in 0..Never /\ Len(log) >= Len(log)
  BY <1>i, <1>2 DEF Typed, TypeOK
<1>10. WorldMoves
  BY Zenon, <1>1, <1>3, <1>4, <1>7, <1>8, <1>9 DEF WorldMoves
<1> QED
  BY Zenon, <1>10, WorldKeeps

\* An event is logged.
LEMMA LogEventInv ==
    ASSUME EvidenceAssumption,
           EvidenceInv, UNCHANGED plan, NEW k \in Keys \cup {"REVOKED"}, LogEvent(k)
    PROVE  EvidenceInv'
<1>i. Typed /\ Grown
  BY Zenon DEF EvidenceInv
<1> DEFINE R == [key : Keys \cup {"REVOKED"}, time : 0..MaxTime]
<1>1. /\ now \in 0..MaxTime /\ Len(log) < MaxLog
      /\ log' = Append(log, [key |-> k, time |-> now])
      /\ height' = [height EXCEPT ![now] = Len(log) + 1]
      /\ UNCHANGED <<plan, now, ku, su, withdrawn, reader, verification, granted>>
  BY Zenon, <1>i DEF LogEvent, Typed, TypeOK
<1>2. height \in [0..MaxTime -> 0..MaxLog] /\ MaxTime \in Nat /\ MaxLog \in Nat
  BY Zenon, <1>i, Bounds DEF Typed, TypeOK
<1>3. log \in Seq(R) /\ Len(log) \in 1..MaxLog /\ [key |-> k, time |-> now] \in R
  BY Zenon, <1>i, <1>1 DEF Typed, TypeOK
<1>4. /\ log' \in Seq(R) /\ Len(log') = Len(log) + 1 /\ \A i \in DOMAIN log : log'[i] = log[i]
  <2> HIDE DEF R
  <2> QED
    BY <1>1, <1>3
<1>5. Len(log') \in 1..MaxLog /\ Len(log') >= Len(log)
  BY <1>1, <1>2, <1>3, <1>4
<1>6. height' \in [0..MaxTime -> 0..MaxLog]
  BY <1>1, <1>2, <1>3
<1>7. \A t \in 0..MaxTime : t # now => height'[t] = height[t]
  BY Zenon, <1>1, <1>2
<1>8. height'[now] = Len(log) + 1
  BY Zenon, <1>1, <1>2
<1>9. Grown'
  <2>1. height'[now'] = Len(log')
    BY Zenon, <1>1, <1>4, <1>8
  <2>2. ASSUME NEW s \in 0..now', NEW t \in 0..now', s <= t PROVE height'[s] <= height'[t]
    <3>0. /\ s \in 0..MaxTime /\ t \in 0..MaxTime /\ s \in 0..now /\ t \in 0..now
          /\ now \in 0..now
      BY <1>1, <1>2, <2>2
    <3>1. height[s] <= height[t] /\ height[s] <= height[now] /\ height[now] = Len(log)
      BY <1>i, <2>2, <3>0 DEF Grown
    <3>2. height[s] \in Nat /\ Len(log) \in Nat
      BY <1>2, <1>3, <3>0
    <3>3. CASE t = now /\ s = now
      BY <1>8, <3>2, <3>3
    <3>4. CASE t = now /\ s # now
      BY <1>7, <1>8, <3>0, <3>1, <3>2, <3>4
    <3>5. CASE t # now
      <4>1. s # now
        BY <2>2, <3>0, <3>5
      <4> QED
        BY Zenon, <1>7, <3>0, <3>1, <3>5, <4>1
    <3> QED
      BY Zenon, <3>3, <3>4, <3>5
  <2> QED
    BY Zenon, <2>1, <2>2 DEF Grown
<1>10. \A t \in 0..MaxTime : t < now => height'[t] = height[t]
  BY <1>1, <1>2, <1>7
<1>11. /\ ku \in Keys \cup {"ek"} /\ su \in {"ACTIVE", "REVOKED"} /\ withdrawn \in 0..Never
       /\ now' \in 0..MaxTime /\ now' >= now
  BY <1>i, <1>1, <1>2 DEF Typed, TypeOK
<1>12. WorldMoves
  BY Zenon, <1>1, <1>4, <1>5, <1>6, <1>9, <1>10, <1>11 DEF WorldMoves
<1> QED
  BY Zenon, <1>12, WorldKeeps

\* The documents and the record change, time and the log stand still.
LEMMA DocumentsInv ==
    ASSUME EvidenceAssumption, EvidenceInv, UNCHANGED plan,
           Suspend \/ Withdraw \/ \E k \in Keys \cup {"ek"} : Publish(k)
    PROVE  EvidenceInv'
<1>i. Typed /\ Grown /\ Published
  BY Zenon DEF EvidenceInv
<1>1. /\ UNCHANGED <<plan, now, log, height, reader, verification, granted>>
      /\ ku' \in Keys \cup {"ek"} /\ su' \in {"ACTIVE", "REVOKED"} /\ withdrawn' \in {withdrawn, now}
  BY Zenon, <1>i DEF Suspend, Withdraw, Publish, Typed, TypeOK
<1>2. /\ now \in 0..MaxTime /\ withdrawn \in 0..Never
      /\ log \in Seq([key : Keys \cup {"REVOKED"}, time : 0..MaxTime])
      /\ Len(log) \in 1..MaxLog /\ height \in [0..MaxTime -> 0..MaxLog]
  BY Zenon, <1>i DEF Typed, TypeOK
<1>3. dnsAt <= now
  BY Zenon, <1>i DEF Published
<1>4. withdrawn' \in 0..Never /\ (dnsAt <= withdrawn => dnsAt <= withdrawn')
  BY <1>1, <1>2, <1>3, Bounds DEF Never
<1>5. Grown'
  BY Zenon, <1>i, <1>1 DEF Grown
<1>6. now >= now /\ Len(log) >= Len(log)
  BY <1>2, Bounds
<1>7. WorldMoves
  BY Zenon, <1>1, <1>2, <1>4, <1>5, <1>6 DEF WorldMoves
<1> QED
  BY Zenon, <1>7, WorldKeeps

\* The steps of a verification.
Steps == {"start", "dns", "ek", "fetch", "binding", "continuity", "age", "identity", "accepted",
          "failed"}

\* The verification takes a step, by itself and with its own load.
VerificationMoves ==
    /\ UNCHANGED <<plan, world, trust, cache, granted>>
    /\ entity' \in {"unset", "set"}
    /\ \/ load' = load
       \/ \E r \in [pc : {"idle", "lookup"}, view : View \cup {None}] :
             load' = [load EXCEPT !["V"] = r]
    /\ step # "accepted" /\ step' \in Steps
    /\ dnsAt' \in 0..MaxTime /\ fetched' \in Keys \cup {"ek", None}
    /\ status' \in {None, "ACTIVE", "REVOKED", "error"}
    /\ begun' \in Nat /\ used' \in Seq(1..MaxLog)
    /\ Checked' /\ Published'

\* What a step of the verification must keep.
LEMMA VerificationKeeps ==
    ASSUME EvidenceAssumption, EvidenceInv, VerificationMoves
    PROVE  EvidenceInv'
<1>i. Typed /\ Grown /\ Histories /\ Alone /\ Granted
  BY Zenon DEF EvidenceInv
<1>0. User' = User /\ Caller' = Caller /\ Keys' = Keys /\ Fresh' = Fresh
  BY Zenon DEF VerificationMoves, User, Thread, Task, Caller, Keys, Fresh
<1>1. UNCHANGED <<plan, now, log, height, ku, su, withdrawn, trust, cache, granted>>
  BY Zenon DEF VerificationMoves, world
<1>2. /\ load' \in [Caller -> [pc : Pc, view : View \cup {None}]]
      /\ \A c \in Caller \ {"V"} : load'[c] = load[c]
      /\ load'["V"] = load["V"] \/ load'["V"].pc \in {"idle", "lookup"}
  <2>1. CASE load' = load
    BY Zenon, <1>i, <2>1, LoadTyped
  <2>2. ASSUME NEW r \in [pc : {"idle", "lookup"}, view : View \cup {None}],
               load' = [load EXCEPT !["V"] = r]
        PROVE  /\ load' \in [Caller -> [pc : Pc, view : View \cup {None}]]
               /\ \A c \in Caller \ {"V"} : load'[c] = load[c]
               /\ load'["V"] = load["V"] \/ load'["V"].pc \in {"idle", "lookup"}
    <3>1. r \in [pc : Pc, view : View \cup {None}] /\ r.pc \in {"idle", "lookup"}
      BY Zenon DEF Pc
    <3> QED
      BY Zenon, <1>i, <2>2, <3>1, LoadTyped
  <2> QED
    BY Zenon, <2>1, <2>2 DEF VerificationMoves
<1>3. Typed'
  <2>1. TypeOK'
    BY <1>i, <1>0, <1>1, <1>2 DEF Typed, TypeOK, VerificationMoves, Caller, Pc, View, Steps
  <2> QED
    BY Zenon, <1>i, <1>0, <1>1, <2>1 DEF Typed, VerificationMoves
<1>4. Grown'
  BY Zenon, <1>i, <1>1 DEF Grown
<1>5. Histories'
  <2>1. cache # None => Seen(cache)'
    BY Zenon, <1>i, <1>1 DEF Histories, Seen
  <2>2. ASSUME NEW c \in Caller, load'[c].pc \in {"got", "verified", "ready"}
        PROVE  load'[c].view \in View /\ Seen(load[c].view)'
    <3>1. load'[c] = load[c]
      BY Zenon, <1>2, <2>2
    <3>2. load[c].view \in View /\ Seen(load[c].view)
      BY Zenon, <1>i, <2>2, <3>1 DEF Histories
    <3> QED
      BY Zenon, <1>1, <3>1, <3>2 DEF Seen
  <2> QED
    BY Zenon, <1>0, <1>1, <2>1, <2>2 DEF Histories
<1>6. Alone'
  <2>1. step # "accepted"
    BY Zenon DEF VerificationMoves
  <2>2. \A u \in User : load'[u].pc = "idle"
    BY Zenon, <1>i, <1>2, <2>1, LoadTyped DEF Alone
  <2> QED
    BY Zenon, <1>i, <1>0, <1>1, <1>2, <2>1, <2>2 DEF Alone
<1>7. Granted'
  BY Zenon, <1>i, <1>0, <1>1 DEF Granted, RevocationSeenInTime
<1> QED
  BY Zenon, <1>3, <1>4, <1>5, <1>6, <1>7 DEF EvidenceInv, VerificationMoves

\* What stays checked when the step changes and no check has used a history.
LEMMA CheckedKept ==
    ASSUME EvidenceAssumption, EvidenceInv, UNCHANGED <<log, trust, begun, used, fetched>>,
           \/ step' = step \/ step' = "failed"
           \/ step \in Step3 /\ step' \in Step3
           \/ step \in {"start", "dns", "ek"} /\ step' \in {"dns", "ek", "fetch"}
    PROVE  Checked'
<1> QED
  BY Zenon DEF EvidenceInv, Checked, Active, Step3

\* A failed verification claims nothing.
LEMMA Fails ==
    ASSUME EvidenceAssumption,
           EvidenceInv, UNCHANGED <<plan, world, trust, cache, granted, entity>>, Fail,
           step # "accepted",
           load' = load \/ load' = [load EXCEPT !["V"] = Idle]
    PROVE  EvidenceInv'
<1>i. Typed /\ Published
  BY Zenon DEF EvidenceInv
<1>1. step' = "failed" /\ UNCHANGED <<dnsAt, fetched, status, begun, used, now, log, withdrawn>>
  BY Zenon DEF Fail, world
<1>2. Checked'
  BY Zenon, <1>1, CheckedKept
<1>3. Published'
  BY Zenon, <1>i, <1>1 DEF Published
<1>4. Idle \in [pc : {"idle", "lookup"}, view : View \cup {None}]
  BY Zenon DEF Idle
<1>5. /\ dnsAt \in 0..MaxTime /\ begun \in Nat /\ used \in Seq(1..MaxLog)
      /\ fetched \in Keys \cup {"ek", None} /\ status \in {None, "ACTIVE", "REVOKED", "error"}
      /\ entity \in {"unset", "set"}
  BY Zenon, <1>i DEF Typed, TypeOK
<1>6. VerificationMoves
  BY Zenon, <1>1, <1>2, <1>3, <1>4, <1>5 DEF VerificationMoves, Steps
<1> QED
  BY Zenon, <1>6, VerificationKeeps

\* The steps before the first check, and the fetches.
LEMMA EarlyInv ==
    ASSUME EvidenceAssumption, EvidenceInv, UNCHANGED plan,
           Start \/ Resolve \/ Authenticate \/ FetchKu \/ FetchStatus \/ BranchFails \/ Accept
    PROVE  EvidenceInv'
<1>i. Typed /\ Published /\ Checked
  BY Zenon DEF EvidenceInv
<1>t. /\ dnsAt \in 0..MaxTime /\ begun \in Nat /\ used \in Seq(1..MaxLog) /\ now \in 0..MaxTime
      /\ fetched \in Keys \cup {"ek", None} /\ status \in {None, "ACTIVE", "REVOKED", "error"}
      /\ entity \in {"unset", "set"} /\ trust \in 0..MaxLog /\ step \in Steps
      /\ ku \in Keys \cup {"ek"} /\ su \in {"ACTIVE", "REVOKED"} /\ withdrawn \in 0..Never
      /\ MaxTime \in Nat /\ MaxLog \in Nat
  BY Zenon, <1>i, Bounds DEF Typed, TypeOK, Steps
<1>f. CASE /\ Fail /\ UNCHANGED <<world, trust, cache, granted, entity>> /\ step # "accepted"
           /\ load' = load \/ load' = [load EXCEPT !["V"] = Idle]
  BY Zenon, <1>f, Fails
<1>1. CASE Start
  <2>1. /\ step = "start" /\ step' = "dns" /\ dnsAt' = now /\ begun' = trust
        /\ UNCHANGED <<fetched, status, used, world, now, log, withdrawn, reader, trust, cache,
                       entity, load, granted>>
    BY Zenon, <1>1 DEF Start, world, reader
  <2>2. used = <<>> /\ used' = <<>>
    BY Zenon, <1>i, <2>1 DEF Checked
  <2>3. begun' <= trust' /\ begun' \in Nat
    BY <1>t, <2>1
  <2>4. Checked'
    BY <2>1, <2>2, <2>3 DEF Checked, Step3
  <2>5. Published'
    BY <1>t, <2>1 DEF Published
  <2>6. VerificationMoves
    BY Zenon, <1>t, <2>1, <2>3, <2>4, <2>5 DEF VerificationMoves, Steps
  <2> QED
    BY Zenon, <2>6, VerificationKeeps
<1>2. CASE Resolve
  <2>1. step = "dns" /\ UNCHANGED <<world, now, log, withdrawn, reader, trust, cache, entity, load,
                                    granted>>
    BY Zenon, <1>2 DEF Resolve, world, reader
  <2>2. CASE Fail
    BY Zenon, <1>f, <2>1, <2>2
  <2>3. CASE /\ withdrawn = Never /\ step' = "ek"
             /\ UNCHANGED <<dnsAt, fetched, status, boundAt, begun, used>>
    <3>1. Checked'
      BY Zenon, <2>1, <2>3, CheckedKept
    <3>2. Published'
      BY <1>i, <1>t, <2>1, <2>3 DEF Published, Never
    <3>3. VerificationMoves
      BY Zenon, <1>t, <2>1, <2>3, <3>1, <3>2 DEF VerificationMoves, Steps
    <3> QED
      BY Zenon, <3>3, VerificationKeeps
  <2>4. PICK a \in Answer :
           /\ withdrawn # Never => a.records = 0
           /\ IF RecordOk(a)
              THEN step' = "ek" /\ UNCHANGED <<dnsAt, fetched, status, boundAt, begun, used>>
              ELSE Fail
    BY Zenon, <1>2 DEF Resolve
  <2>5. RecordOk(a) => withdrawn = Never
    BY <2>4 DEF RecordOk
  <2> QED
    BY Zenon, <2>2, <2>3, <2>4, <2>5
<1>3. CASE Authenticate
  <2>1. step = "ek" /\ UNCHANGED <<world, now, log, withdrawn, trust, cache, entity, granted>>
    BY Zenon, <1>3 DEF Authenticate, world
  <2>2. CASE Fail /\ UNCHANGED load
    BY Zenon, <1>f, <2>1, <2>2
  <2>3. CASE /\ step' = "fetch" /\ load' = [load EXCEPT !["V"].pc = "lookup"]
             /\ UNCHANGED <<dnsAt, fetched, status, boundAt, begun, used>>
    <3>1. Checked'
      BY Zenon, <2>1, <2>3, CheckedKept
    <3>2. Published'
      BY Zenon, <1>i, <2>1, <2>3 DEF Published
    <3>3. load' = [load EXCEPT !["V"] = [pc |-> "lookup", view |-> load["V"].view]]
      BY Zenon, <1>i, <2>3, GoIs, LoadTyped
    <3>4. [pc |-> "lookup", view |-> load["V"].view]
             \in [pc : {"idle", "lookup"}, view : View \cup {None}]
      BY Zenon, <1>i, LoadTyped
    <3>5. VerificationMoves
      BY Zenon, <1>t, <2>1, <2>3, <3>1, <3>2, <3>3, <3>4 DEF VerificationMoves, Steps
    <3> QED
      BY Zenon, <3>5, VerificationKeeps
  <2> QED
    BY Zenon, <1>3, <2>2, <2>3 DEF Authenticate
<1>4. CASE FetchKu
  <2>1. step = "fetch" /\ UNCHANGED <<world, now, log, withdrawn, ku, trust, cache, entity, granted>>
    BY Zenon, <1>4 DEF FetchKu, world
  <2>2. CASE Fail /\ load' = [load EXCEPT !["V"] = Idle]
    BY Zenon, <1>f, <2>1, <2>2
  <2>3. CASE fetched' = ku /\ UNCHANGED <<step, dnsAt, status, boundAt, begun, used, load>>
    <3>1. Checked'
      BY Zenon, <1>i, <2>1, <2>3 DEF Checked, Step3
    <3>2. Published'
      BY Zenon, <1>i, <2>1, <2>3 DEF Published
    <3>3. VerificationMoves
      BY Zenon, <1>t, <2>1, <2>3, <3>1, <3>2 DEF VerificationMoves, Steps
    <3> QED
      BY Zenon, <3>3, VerificationKeeps
  <2> QED
    BY Zenon, <1>4, <2>2, <2>3 DEF FetchKu
<1>5. CASE FetchStatus
  <2>1. /\ step # "accepted" /\ status' \in {su, "error"}
        /\ UNCHANGED <<step, dnsAt, fetched, begun, used, world, now, log, withdrawn, reader, trust,
                       cache, entity, load, granted>>
    BY Zenon, <1>5 DEF FetchStatus, InBranches, world, reader
  <2>2. Checked'
    BY Zenon, <2>1, CheckedKept
  <2>3. Published'
    BY Zenon, <1>i, <2>1 DEF Published
  <2>4. VerificationMoves
    BY <1>t, <2>1, <2>2, <2>3 DEF VerificationMoves, Steps
  <2> QED
    BY Zenon, <2>4, VerificationKeeps
<1>6. CASE BranchFails
  <2>1. /\ Fail /\ UNCHANGED <<world, trust, cache, granted, entity>> /\ step # "accepted"
        /\ load' = [load EXCEPT !["V"] = Idle]
    BY Zenon, <1>6 DEF BranchFails, InBranches
  <2> QED
    BY Zenon, <1>f, <2>1
<1>7. CASE Accept
  <2>1. step = "identity" /\ UNCHANGED <<world, now, log, withdrawn, reader, trust, cache, entity,
                                         load, granted>>
    BY Zenon, <1>7 DEF Accept, world, reader
  <2>2. CASE Fail
    BY Zenon, <1>f, <2>1, <2>2
  <2>3. CASE step' = "accepted" /\ UNCHANGED <<dnsAt, fetched, status, boundAt, begun, used>>
    <3>1. Checked'
      BY Zenon, <2>1, <2>3, CheckedKept DEF Step3
    <3>2. Published'
      BY Zenon, <1>i, <2>1, <2>3 DEF Published
    <3>3. VerificationMoves
      BY Zenon, <1>t, <2>1, <2>3, <3>1, <3>2 DEF VerificationMoves, Steps
    <3> QED
      BY Zenon, <3>3, VerificationKeeps
  <2> QED
    BY Zenon, <1>7, <2>2, <2>3 DEF Accept
<1> QED
  BY Zenon, <1>1, <1>2, <1>3, <1>4, <1>5, <1>6, <1>7

\* One more check has used the trusted history.
LEMMA UsedGrows ==
    ASSUME EvidenceAssumption,
           EvidenceInv, UNCHANGED <<log, trust, begun>>, used' = Append(used, trust),
           trust \in 1..MaxLog
    PROVE  /\ used' \in Seq(1..MaxLog) /\ Len(used') = Len(used) + 1
           /\ used'[Len(used) + 1] = trust /\ \A i \in 1..Len(used) : used'[i] = used[i]
           /\ begun' <= trust'
           /\ \A i \in DOMAIN used' : /\ used'[i] >= begun' /\ used'[i] <= trust'
                                      /\ i > 1 => used'[i] >= used'[i - 1]
<1>1. used \in Seq(1..MaxLog) /\ begun \in Nat /\ MaxLog \in Nat
  BY Zenon, Bounds DEF EvidenceInv, Typed
<1>2. /\ used' \in Seq(1..MaxLog) /\ Len(used') = Len(used) + 1 /\ DOMAIN used' = 1..Len(used')
      /\ used'[Len(used) + 1] = trust /\ \A i \in 1..Len(used) : used'[i] = used[i]
      /\ DOMAIN used = 1..Len(used) /\ Len(used) \in Nat
      /\ \A i \in DOMAIN used : used[i] \in 1..MaxLog
  BY <1>1
<1>3. /\ begun <= trust
      /\ \A i \in 1..Len(used) : /\ used[i] >= begun /\ used[i] <= trust
                                 /\ i > 1 => used[i] >= used[i - 1]
  BY Zenon, <1>2 DEF EvidenceInv, Checked
<1>4. ASSUME NEW i \in DOMAIN used'
      PROVE  /\ used'[i] >= begun' /\ used'[i] <= trust'
             /\ i > 1 => used'[i] >= used'[i - 1]
  <2>1. CASE i \in 1..Len(used)
    <3>1. i > 1 => i - 1 \in 1..Len(used)
      BY <1>2, <2>1
    <3>2. used'[i] = used[i] /\ (i > 1 => used'[i - 1] = used[i - 1])
      BY Zenon, <1>2, <2>1, <3>1
    <3> QED
      BY Zenon, <1>3, <2>1, <3>2
  <2>2. CASE i = Len(used) + 1
    <3>1. i > 1 => i - 1 \in 1..Len(used)
      BY <1>2, <2>2
    <3>2. i > 1 => used'[i - 1] = used[i - 1] /\ used[i - 1] <= trust /\ used[i - 1] \in 1..MaxLog
      BY Zenon, <1>2, <1>3, <3>1
    <3>3. used'[i] = trust /\ trust \in Nat /\ begun' = begun /\ trust' = trust
      BY <1>1, <1>2, <2>2
    <3>4. used'[i] >= begun' /\ used'[i] <= trust'
      BY <1>1, <1>3, <3>3
    <3>5. i > 1 => used'[i] >= used'[i - 1]
      BY Zenon, <1>1, <3>2, <3>3
    <3> QED
      BY Zenon, <3>4, <3>5
  <2> QED
    BY <1>2, <2>1, <2>2
<1> QED
  BY Zenon, <1>2, <1>3, <1>4

\* What a reader call of the verification leaves when it is over.
LEMMA ProceedIs ==
    ASSUME EvidenceAssumption,
           EvidenceInv, step # "accepted", Ready, NEW ok \in BOOLEAN, NEW next, Proceed(ok, next),
           UNCHANGED <<world, trust, cache>>
    PROVE  /\ load["V"].view.n = trust /\ trust \in 1..MaxLog /\ trust <= Len(log)
           /\ \E r \in [pc : {"idle", "lookup"}, view : View \cup {None}] :
                 load' = [load EXCEPT !["V"] = r]
           /\ UNCHANGED <<dnsAt, fetched, status, begun>>
           /\ ~ok => step' = "failed" /\ UNCHANGED used
           /\ ok => step' = next /\ used' = Append(used, trust)
<1>1. load["V"].view.n = trust
  BY Zenon DEF EvidenceInv, Alone, Ready
<1>2. load["V"].view \in View /\ Seen(load["V"].view)
  BY Zenon, LoadTyped DEF EvidenceInv, Histories, Ready
<1>3. trust \in 1..MaxLog /\ trust <= Len(log)
  BY Zenon, <1>1, <1>2 DEF Seen, View
<1>4. CASE ~ok
  <2>1. Idle \in [pc : {"idle", "lookup"}, view : View \cup {None}]
    BY Zenon DEF Idle
  <2> QED
    BY Zenon, <1>1, <1>3, <1>4, <2>1 DEF Proceed, Fail
<1>5. CASE ok
  <2> DEFINE p == IF next = "identity" THEN "idle" ELSE "lookup"
             r == [pc |-> p, view |-> load["V"].view]
  <2>1. load' = [load EXCEPT !["V"].pc = p]
    BY Zenon, <1>5 DEF Proceed
  <2>2. p \in {"idle", "lookup"}
    BY Zenon
  <2>3. Typed /\ "V" \in Caller
    BY Zenon, LoadTyped DEF EvidenceInv
  <2>4. load' = [load EXCEPT !["V"] = r]
    <3> HIDE DEF p
    <3> QED
      BY Zenon, <2>1, <2>3, GoIs
  <2>5. r \in [pc : {"idle", "lookup"}, view : View \cup {None}]
    BY Zenon, <1>2, <2>2
  <2>6. /\ UNCHANGED <<dnsAt, fetched, status, begun>> /\ step' = next
        /\ used' = Append(used, load["V"].view.n)
    BY Zenon, <1>5 DEF Proceed
  <2> HIDE DEF p, r
  <2> QED
    BY Zenon, <1>1, <1>3, <1>5, <2>4, <2>5, <2>6
<1> QED
  BY Zenon, <1>4, <1>5

\* Each check of the reader uses the history trusted then.
LEMMA CheckInv ==
    ASSUME EvidenceAssumption,
           EvidenceInv, UNCHANGED plan, Preloaded \/ Binding \/ Continuity \/ Age
    PROVE  EvidenceInv'
<1>i. Typed /\ Published /\ Checked
  BY Zenon DEF EvidenceInv
<1>t. /\ dnsAt \in 0..MaxTime /\ begun \in Nat /\ used \in Seq(1..MaxLog) /\ now \in 0..MaxTime
      /\ fetched \in Keys \cup {"ek", None} /\ status \in {None, "ACTIVE", "REVOKED", "error"}
      /\ entity \in {"unset", "set"} /\ trust \in 0..MaxLog /\ step \in Steps
      /\ MaxTime \in Nat /\ MaxLog \in Nat
  BY Zenon, <1>i, Bounds DEF Typed, TypeOK, Steps
<1>0. /\ Ready /\ step \in {"fetch", "binding", "continuity", "age"}
      /\ UNCHANGED <<world, now, log, withdrawn, trust, cache, granted>>
      /\ entity' \in {"unset", "set"}
  BY Zenon, <1>t DEF Preloaded, Binding, Continuity, Age, world
<1>1. PICK ok \in BOOLEAN, next \in {"binding", "continuity", "age", "identity"} :
         /\ Proceed(ok, next)
         /\ ok => \/ step = "fetch" /\ next = "binding"
                  \/ step = "binding" /\ next = "continuity"
                  \/ /\ step = "continuity" /\ next \in {"age", "identity"}
                     /\ Active(load["V"].view.n) = fetched
                  \/ step = "age" /\ next = "identity"
  <2>1. CASE Preloaded
    BY Zenon, <2>1 DEF Preloaded, Separate
  <2>2. CASE Binding
    BY Zenon, <2>2 DEF Binding
  <2>3. CASE Continuity
    BY Zenon, <2>3 DEF Continuity
  <2>4. CASE Age
    <3> DEFINE uses == {i \in 1..load["V"].view.n : Active(i) = fetched}
               young == now - log[Min(uses)].time <= MaxAge
    <3>1. step = "age" /\ (Proceed(FALSE, "identity") \/ Proceed(young, "identity"))
      BY Zenon, <2>4, Zenon DEF Age
    <3>2. young \in BOOLEAN
      OBVIOUS
    <3> HIDE DEF young
    <3> QED
      BY Zenon, <3>1, <3>2, Zenon
  <2> QED
    BY Zenon, <2>1, <2>2, <2>3, <2>4
<1>2. /\ load["V"].view.n = trust /\ trust \in 1..MaxLog /\ trust <= Len(log)
      /\ \E r \in [pc : {"idle", "lookup"}, view : View \cup {None}] :
            load' = [load EXCEPT !["V"] = r]
      /\ UNCHANGED <<dnsAt, fetched, status, begun>>
      /\ ~ok => step' = "failed" /\ UNCHANGED used
      /\ ok => step' = next /\ used' = Append(used, trust)
  BY Zenon, <1>0, <1>1, ProceedIs
<1>3. Checked' /\ used' \in Seq(1..MaxLog)
  <2>1. CASE ~ok
    BY Zenon, <1>0, <1>t, <1>2, <2>1, CheckedKept
  <2>2. CASE ok
    <3>1. /\ used' \in Seq(1..MaxLog) /\ Len(used') = Len(used) + 1
          /\ used'[Len(used) + 1] = trust /\ \A i \in 1..Len(used) : used'[i] = used[i]
          /\ begun' <= trust'
          /\ \A i \in DOMAIN used' : /\ used'[i] >= begun' /\ used'[i] <= trust'
                                     /\ i > 1 => used'[i] >= used'[i - 1]
      BY Zenon, <1>0, <1>2, <2>2, UsedGrows
    <3>2. CASE step = "fetch" /\ next = "binding"
      <4>1. Len(used) = 0
        BY <1>i, <3>2 DEF Checked
      <4> QED
        BY <1>2, <2>2, <3>1, <3>2, <4>1 DEF Checked, Step3
    <3>3. CASE step = "binding" /\ next = "continuity"
      <4>1. Len(used) = 1
        BY Zenon, <1>i, <3>3 DEF Checked
      <4> QED
        BY <1>2, <2>2, <3>1, <3>3, <4>1 DEF Checked, Step3
    <3>4. CASE /\ step = "continuity" /\ next \in {"age", "identity"}
               /\ Active(load["V"].view.n) = fetched
      <4>1. Len(used) = 2
        BY Zenon, <1>i, <3>4 DEF Checked
      <4>2. used'[3] = trust /\ Len(used') >= 3
        BY <3>1, <4>1
      <4>3. used'[3] <= Len(log') /\ Active(used[3])' = fetched'
        BY Zenon, <1>0, <1>2, <3>4, <4>2 DEF Active
      <4>4. step' \in {"age", "identity"}
        BY Zenon, <1>2, <2>2, <3>4
      <4> QED
        BY Zenon, <3>1, <4>2, <4>3, <4>4 DEF Checked
    <3>5. CASE step = "age" /\ next = "identity"
      <4>1. Len(used) >= 3 /\ used[3] <= Len(log) /\ Active(used[3]) = fetched
        BY Zenon, <1>i, <3>5 DEF Checked, Step3
      <4>2. used'[3] = used[3] /\ Len(used') >= 3
        BY <1>t, <3>1, <4>1
      <4>3. used'[3] <= Len(log') /\ Active(used[3])' = fetched'
        BY Zenon, <1>0, <1>2, <4>1, <4>2 DEF Active
      <4>4. step' = "identity"
        BY Zenon, <1>2, <2>2, <3>5
      <4> QED
        BY Zenon, <3>1, <4>2, <4>3, <4>4 DEF Checked
    <3> QED
      BY Zenon, <1>1, <2>2, <3>1, <3>2, <3>3, <3>4, <3>5
  <2> QED
    BY Zenon, <2>1, <2>2
<1>4. Published'
  BY Zenon, <1>i, <1>0, <1>2 DEF Published
<1>5. step' \in Steps
  BY Zenon, <1>1, <1>2 DEF Steps
<1>6. VerificationMoves
  BY Zenon, <1>t, <1>0, <1>2, <1>3, <1>4, <1>5 DEF VerificationMoves
<1> QED
  BY Zenon, <1>6, VerificationKeeps

\* A user asks, is answered or is refused: its load and its result change.
LEMMA UserKeeps ==
    ASSUME EvidenceAssumption,
           EvidenceInv, NEW u \in User, NEW r \in [pc : {"idle", "lookup"}, view : View \cup {None}],
           load' = [load EXCEPT ![u] = r], step = "accepted",
           NEW g \in [n : 1..MaxLog, at : 0..MaxTime] \cup {None},
           granted' = [granted EXCEPT ![u] = g],
           g # None => /\ g.at <= now
                       /\ g.at > Fresh => g.n >= height[g.at - Fresh - 1],
           UNCHANGED <<plan, world, verification, entity, trust, cache>>
    PROVE  EvidenceInv'
<1>i. Typed /\ Grown /\ Histories /\ Checked /\ Published /\ Granted
  BY Zenon DEF EvidenceInv
<1>0. User' = User /\ Caller' = Caller /\ Keys' = Keys /\ Fresh' = Fresh
  BY Zenon DEF User, Thread, Task, Caller, Keys, Fresh
<1>1. UNCHANGED <<plan, now, log, height, ku, su, withdrawn, entity, trust, cache, step, dnsAt,
                  fetched, status, begun, used>>
  BY Zenon DEF world, verification
<1>2. u \in Caller /\ r \in [pc : Pc, view : View \cup {None}] /\ r.pc \in {"idle", "lookup"}
  BY Zenon, <1>i, LoadTyped DEF Pc
<1>3. /\ load' \in [Caller -> [pc : Pc, view : View \cup {None}]]
      /\ load'[u] = r /\ \A c \in Caller \ {u} : load'[c] = load[c]
  BY Zenon, <1>i, <1>2, LoadTyped
<1>4. /\ granted' \in [User -> [n : 1..MaxLog, at : 0..MaxTime] \cup {None}]
      /\ granted'[u] = g /\ \A w \in User \ {u} : granted'[w] = granted[w]
  BY Zenon, <1>i DEF Typed
<1>5. Typed'
  <2>1. TypeOK'
    BY <1>i, <1>0, <1>1, <1>3 DEF Typed, TypeOK, Caller, Pc, View
  <2> QED
    BY Zenon, <1>i, <1>0, <1>1, <1>4, <2>1 DEF Typed
<1>6. Grown'
  BY Zenon, <1>i, <1>1 DEF Grown
<1>7. Histories'
  <2>1. cache # None => Seen(cache)'
    BY Zenon, <1>i, <1>1 DEF Histories, Seen
  <2>2. ASSUME NEW c \in Caller, load'[c].pc \in {"got", "verified", "ready"}
        PROVE  load'[c].view \in View /\ Seen(load[c].view)'
    <3>1. load'[c] = load[c]
      BY Zenon, <1>2, <1>3, <2>2
    <3>2. load[c].view \in View /\ Seen(load[c].view)
      BY Zenon, <1>i, <2>2, <3>1 DEF Histories
    <3> QED
      BY Zenon, <1>1, <3>1, <3>2 DEF Seen
  <2> QED
    BY Zenon, <1>0, <1>1, <2>1, <2>2 DEF Histories
<1>8. Alone'
  BY Zenon, <1>1 DEF Alone
<1>9. Checked' /\ Published'
  BY Zenon, <1>i, <1>1 DEF Checked, Active, Published
<1>10. Granted'
  <2>1. ASSUME NEW w \in User, granted'[w] # None
        PROVE  /\ granted'[w].at <= now
               /\ granted'[w].at > Fresh => granted'[w].n >= height[granted'[w].at - Fresh - 1]
    <3>1. CASE w = u
      BY Zenon, <1>4, <2>1, <3>1
    <3>2. CASE w # u
      BY Zenon, <1>i, <1>4, <2>1, <3>2 DEF Granted, RevocationSeenInTime
    <3> QED
      BY Zenon, <3>1, <3>2
  <2> QED
    BY Zenon, <1>0, <1>1, <2>1 DEF Granted, RevocationSeenInTime
<1> QED
  BY Zenon, <1>5, <1>6, <1>7, <1>8, <1>9, <1>10 DEF EvidenceInv

\* A history witnessed no longer ago than the freshness bound has all that was
\* logged before that bound.
LEMMA FreshSees ==
    ASSUME EvidenceAssumption,
           EvidenceInv, NEW v \in View, Seen(v), now - v.wit <= Fresh, now > Fresh
    PROVE  v.n >= height[now - Fresh - 1]
<1>1. now \in Nat /\ Fresh \in Nat
  BY Bounds DEF EvidenceInv, Typed, TypeOK, IsPlan, Fresh
<1>2. v.wit \in Nat /\ v.n \in Nat /\ v.wit <= now
  BY Bounds DEF View, Seen
<1>3. now - Fresh <= v.wit
  BY <1>1, <1>2
<1>4. PICK w \in Nat : w = v.wit
  BY Zenon, <1>2
<1>5. w > 0 /\ now - Fresh - 1 \in 0..now /\ w - 1 \in 0..now /\ now - Fresh - 1 <= w - 1
  BY <1>1, <1>2, <1>3, <1>4
<1>6. height[now - Fresh - 1] <= height[w - 1]
  BY Zenon, <1>5 DEF EvidenceInv, Grown
<1>7. v.n >= height[w - 1]
  BY Zenon, <1>4, <1>5 DEF Seen
<1>8. height \in [0..MaxTime -> 0..MaxLog] /\ now \in 0..MaxTime
  BY Zenon DEF EvidenceInv, Typed, TypeOK
<1>9. now - Fresh - 1 \in 0..MaxTime /\ w - 1 \in 0..MaxTime
  BY <1>1, <1>5, <1>8, Bounds
<1>10. height[now - Fresh - 1] \in Nat /\ height[w - 1] \in Nat
  BY <1>8, <1>9, Bounds
<1> QED
  BY <1>2, <1>6, <1>7, <1>10

\* The users of the reader of an accepted domain keep the invariant.
LEMMA UserInv ==
    ASSUME EvidenceAssumption,
           EvidenceInv, UNCHANGED plan, NEW u \in User, Ask(u) \/ NonRevocation(u) \/ UserFails(u)
    PROVE  EvidenceInv'
<1>i. Typed /\ Alone
  BY Zenon DEF EvidenceInv
<1>0. /\ u \in Caller /\ load[u] \in [pc : Pc, view : View \cup {None}]
      /\ granted \in [User -> [n : 1..MaxLog, at : 0..MaxTime] \cup {None}]
  BY Zenon, <1>i, LoadTyped DEF Typed
<1>1. step = "accepted" /\ UNCHANGED <<plan, world, verification, entity, trust, cache>>
  BY Zenon, <1>i DEF Ask, NonRevocation, UserFails, Alone
<1>2. Idle \in [pc : {"idle", "lookup"}, view : View \cup {None}]
  BY Zenon DEF Idle
<1>3. CASE Ask(u)
  <2> DEFINE r == [pc |-> "lookup", view |-> load[u].view]
  <2>1. load' = [load EXCEPT ![u] = r]
    BY Zenon, <1>i, <1>0, <1>3, GoIs DEF Ask
  <2>2. r \in [pc : {"idle", "lookup"}, view : View \cup {None}]
    BY Zenon, <1>0
  <2>3. granted' = [granted EXCEPT ![u] = None]
    BY Zenon, <1>3 DEF Ask
  <2> HIDE DEF r
  <2> QED
    BY Zenon, <1>1, <2>1, <2>2, <2>3, UserKeeps
<1>4. CASE NonRevocation(u)
  <2> DEFINE v == load[u].view
             g == IF now - v.wit <= Fresh /\ Active(v.n) # "REVOKED"
                  THEN [n |-> v.n, at |-> now] ELSE None
  <2>1. load' = [load EXCEPT ![u] = Idle] /\ granted' = [granted EXCEPT ![u] = g]
    BY Zenon, <1>4, Zenon DEF NonRevocation
  <2>2. v \in View /\ Seen(v)
    BY Zenon, <1>0, <1>4 DEF EvidenceInv, Histories, NonRevocation
  <2>3. now \in 0..MaxTime /\ v.n \in 1..MaxLog
    BY Zenon, <1>i, <2>2 DEF Typed, TypeOK, View
  <2>4. g \in [n : 1..MaxLog, at : 0..MaxTime] \cup {None}
    <3> HIDE DEF v
    <3> QED
      BY Zenon, <2>3
  <2>5. g # None => g.at <= now /\ (g.at > Fresh => g.n >= height[g.at - Fresh - 1])
    <3>1. SUFFICES ASSUME g # None
                   PROVE  g.at <= now /\ (g.at > Fresh => g.n >= height[g.at - Fresh - 1])
      BY Zenon
    <3>2. g = [n |-> v.n, at |-> now] /\ now - v.wit <= Fresh
      BY Zenon, <3>1
    <3>3. g.at = now /\ g.n = v.n
      <4> HIDE DEF g
      <4> QED
        BY Zenon, <3>2
    <3>4. now > Fresh => v.n >= height[now - Fresh - 1]
      <4> HIDE DEF v
      <4> QED
        BY Zenon, <2>2, <3>2, FreshSees
    <3>5. now <= now
      BY <2>3
    <3> HIDE DEF g, v
    <3> QED
      BY Zenon, <3>3, <3>4, <3>5
  <2> HIDE DEF g, v
  <2> QED
    BY Zenon, <1>1, <1>2, <2>1, <2>4, <2>5, UserKeeps
<1>5. CASE UserFails(u)
  <2>1. load' = [load EXCEPT ![u] = Idle] /\ granted' = granted
    BY Zenon, <1>5 DEF UserFails
  <2>2. granted' = [granted EXCEPT ![u] = granted[u]]
    BY Zenon, <1>0, <2>1
  <2>3. granted[u] \in [n : 1..MaxLog, at : 0..MaxTime] \cup {None}
    BY Zenon, <1>0
  <2>4. granted[u] # None =>
           /\ granted[u].at <= now
           /\ (granted[u].at > Fresh => granted[u].n >= height[granted[u].at - Fresh - 1])
    BY Zenon DEF EvidenceInv, Granted, RevocationSeenInTime
  <2> QED
    BY Zenon, <1>1, <1>2, <2>1, <2>2, <2>3, <2>4, UserKeeps
<1> QED
  BY Zenon, <1>3, <1>4, <1>5

\* Every step keeps the invariant.
LEMMA EvidenceStep ==
    ASSUME EvidenceAssumption, EvidenceInv, [Next]_vars
    PROVE  EvidenceInv'
<1>1. CASE Next
  <2>0. UNCHANGED plan /\ Step
    BY Zenon, <1>1 DEF Next
  <2>1. CASE Tick
    BY Zenon, <2>0, <2>1, TickInv
  <2>2. CASE Suspend \/ Withdraw \/ \E k \in Keys \cup {"ek"} : Publish(k)
    BY Zenon, <2>0, <2>2, DocumentsInv
  <2>3. CASE \E k \in Keys \cup {"REVOKED"} : LogEvent(k)
    BY Zenon, <2>0, <2>3, LogEventInv
  <2>4. CASE \E c \in {"V"} \cup User : Loading(c)
    BY Zenon, <2>0, <2>4, LoadingInv DEF Caller
  <2>5. CASE Verification
    BY Zenon, <2>0, <2>5, EarlyInv, CheckInv DEF Verification
  <2>6. CASE \E u \in User : Ask(u) \/ NonRevocation(u) \/ UserFails(u)
    BY Zenon, <2>0, <2>6, UserInv
  <2> QED
    BY Zenon, <2>0, <2>1, <2>2, <2>3, <2>4, <2>5, <2>6 DEF Step
<1>2. CASE UNCHANGED vars
  <2>1. /\ UNCHANGED <<plan, now, log, height, ku, su, withdrawn, trust, cache, entity, load, step,
                       dnsAt, fetched, status, begun, used, granted>>
    BY Zenon, <1>2 DEF vars, world, reader, verification
  <2>2. User' = User /\ Caller' = Caller /\ Keys' = Keys /\ Fresh' = Fresh
    BY Zenon, <2>1 DEF User, Thread, Task, Caller, Keys, Fresh
  <2>3. Typed'
    BY <2>1, <2>2 DEF EvidenceInv, Typed, TypeOK
  <2>4. Grown' /\ Histories'
    BY Zenon, <2>1, <2>2 DEF EvidenceInv, Grown, Histories, Seen
  <2>5. Alone' /\ Checked' /\ Published'
    BY <2>1, <2>2 DEF EvidenceInv, Alone, Checked, Active, Published
  <2>6. Granted'
    BY Zenon, <2>1, <2>2 DEF EvidenceInv, Granted, RevocationSeenInTime
  <2> QED
    BY Zenon, <2>3, <2>4, <2>5, <2>6 DEF EvidenceInv
<1> QED
  BY Zenon, <1>1, <1>2

\* The invariant holds when a verification begins, under any plan.
LEMMA EvidenceInit ==
    ASSUME EvidenceAssumption, IsPlan(plan), Init
    PROVE  EvidenceInv
<1>b. MaxTime \in Nat /\ MaxLog \in Nat /\ MaxLog > 0
  BY Zenon, Bounds
<1>1. PICK k \in Keys : log = <<[key |-> k, time |-> 0]>> /\ ku = k
  BY Zenon DEF Init
<1>2. /\ now = 0 /\ su = "ACTIVE" /\ withdrawn = Never /\ trust = 0 /\ cache = None
      /\ entity = "unset" /\ step = "start" /\ dnsAt = 0 /\ fetched = None /\ status = None
      /\ begun = 0 /\ used = <<>>
  BY Zenon DEF Init
<1>3. Len(log) = 1 /\ log \in Seq([key : Keys \cup {"REVOKED"}, time : 0..MaxTime])
  BY <1>b, <1>1
<1>4. height \in [0..MaxTime -> 0..MaxLog] /\ height[0] = 1
  BY <1>b DEF Init
<1>5. /\ load \in [{"V"} \cup User -> [pc : Pc, view : View \cup {None}]]
      /\ \A c \in {"V"} \cup User : load[c].pc = "idle"
  BY Zenon DEF Init, Idle, Pc
<1>6. /\ granted \in [User -> [n : 1..MaxLog, at : 0..MaxTime] \cup {None}]
      /\ \A u \in User : granted[u] = None
  BY Zenon DEF Init
<1>7. Typed
  <2>1. TypeOK
    BY <1>b, <1>1, <1>2, <1>3, <1>4, <1>5 DEF TypeOK, Never, View, Pc
  <2> QED
    BY <1>b, <1>2, <1>6, <2>1 DEF Typed
<1>8. Grown
  BY <1>2, <1>3, <1>4 DEF Grown
<1>9. Histories /\ Alone
  BY Zenon, <1>2, <1>5 DEF Histories, Alone, Caller
<1>10. Checked
  BY <1>2 DEF Checked, Step3
<1>11. Published /\ Granted
  BY <1>2, <1>6 DEF Published, Granted, RevocationSeenInTime
<1> QED
  BY Zenon, <1>7, <1>8, <1>9, <1>10, <1>11 DEF EvidenceInv

\* The key of an accepted domain was active (_verify_identity_evidence).
LEMMA KeyActive ==
    ASSUME EvidenceAssumption, EvidenceInv
    PROVE  AcceptedKeyWasActive
<1> QED
  BY Zenon DEF EvidenceInv, Checked, AcceptedKeyWasActive, Step3

\* An accepted record was published less than its TTL ago (_require_fresh_evidence).
LEMMA AcceptPublished ==
    ASSUME EvidenceAssumption, EvidenceInv, [Next]_vars
    PROVE  AcceptsPublishedRecord
<1>0. SUFFICES ASSUME step' = "accepted", step # "accepted", Ttl > 0
               PROVE  now < withdrawn + Ttl
  BY Zenon DEF AcceptsPublishedRecord
<1>1. Next
  BY Zenon, <1>0 DEF vars, verification
<1>2. CASE Accept
  <2>1. step = "identity" /\ FreshEvidence
    BY Zenon, <1>0, <1>2 DEF Accept, Fail
  <2>2. dnsAt <= withdrawn
    BY Zenon, <2>1 DEF EvidenceInv, Published
  <2>3. dnsAt \in 0..MaxTime /\ now \in 0..MaxTime /\ withdrawn \in 0..Never /\ Ttl \in Nat
    BY Zenon DEF EvidenceInv, Typed, TypeOK, IsPlan, Ttl
  <2>4. now < dnsAt + Ttl
    BY Zenon, <1>0, <2>1 DEF FreshEvidence
  <2> QED
    BY <2>2, <2>3, <2>4, Bounds DEF Never
<1>3. CASE UNCHANGED step
  BY Zenon, <1>0, <1>3
<1>4. CASE Verification /\ ~Accept
  <2>1. step' # "accepted"
    BY Zenon, <1>0, <1>4 DEF Verification, Start, Resolve, Authenticate, FetchKu, FetchStatus,
       Preloaded,
       Binding, Continuity, Age, BranchFails, Proceed, Fail
  <2> QED
    BY Zenon, <1>0, <2>1
<1>5. Step
  BY Zenon, <1>1 DEF Next
<1> QED
  BY Zenon, <1>2, <1>3, <1>4, <1>5 DEF Step, Tick, Suspend, Withdraw, LogEvent, Publish,
     Loading, Ask,
     NonRevocation, UserFails, verification

-----------------------------------------------------------------------------
(* _verify_prior_history, _stitch_migration_history                        *)

\* The calls, and the entries of a history.
Phases == {"load", "replay", "prior", "stitch"}
Frames == [log : Log, cut : Nat, depth : Nat, phase : Phases]
Entries == [log : Log, index : Nat, event : First \cup Later]

\* The i-th entry of a history follows from those before it.
Joined(h, i) ==
    \/ /\ h[i].log = h[i - 1].log
       /\ h[i].index = h[i - 1].index + 1
    \/ /\ h[i].event.type = "MIGRATION" /\ h[i].index = 1
       /\ h[i].event.prev = h[i - 1].log
       /\ h[i].event.cut = h[i - 1].index
       /\ h[i].event.new = h[i].log
       /\ \A j \in 1..i - 1 : h[j].event.type # "REVOCATION"
       /\ \A j \in 1..i - 1 : h[j].log # h[i].log

\* A history from the issuance on.
Linked(h) ==
    /\ h # <<>>
    /\ \A i \in DOMAIN h : h[i].event = stream[h[i].log][h[i].index]
    /\ h[1].event = [type |-> "ISSUANCE", entity |-> "trusted"]
    /\ \A i \in 2..Len(h) : Joined(h, i)

\* The stream of l begins with a migration from entry n of log p.
Hands(l, p, n) ==
    LET m == stream[l][1]
    IN  m.type = "MIGRATION" /\ m.new = l /\ m.prev = p /\ m.cut = n /\ n > 0

\* The calls follow one migration after the other, through no log twice.
Descent ==
    /\ stack \in Seq(Frames) /\ stack # <<>> /\ stack[1].log = RecordLog
    /\ \A i \in 1..Len(stack) - 1 :
          /\ stack[i].phase = "prior"
          /\ Hands(stack[i].log, stack[i + 1].log, stack[i + 1].cut)
    /\ \A i, j \in 1..Len(stack) : stack[i].log = stack[j].log => i = j
    /\ \A i \in 1..Len(stack) : stack[i].log \in budget.seen
    /\ Top.phase # "prior"

\* What was rebuilt so far is handed over, alive, to the call that waits for it.
Ascent ==
    /\ Top.phase \in {"load", "replay"} => prior = <<>>
    /\ Top.phase = "stitch" =>
          /\ Linked(prior)
          /\ Hands(Top.log, prior[Len(prior)].log, prior[Len(prior)].index)
          /\ \A i \in DOMAIN prior : /\ prior[i].event.type # "REVOCATION"
                                     /\ \A j \in 1..Len(stack) : prior[i].log # stack[j].log

\* What holds between any two steps of the rebuilding.
MigrationInv ==
    /\ stream \in Streams /\ prior \in Seq(Entries)
    /\ DOMAIN budget = {"seen", "events", "bytes", "active"}
    /\ answer = "none" => Descent /\ Ascent
    /\ Accepted => Linked(prior) /\ prior[Len(prior)].log = RecordLog

\* A stream is never empty, and its first event issues or migrates (_load_complete_history).
LEMMA StreamTyped ==
    ASSUME MigrationAssumption, stream \in Streams, NEW l \in Log
    PROVE  /\ stream[l] \in Seq(First \cup Later) /\ Len(stream[l]) \in Nat \ {0}
           /\ stream[l][1] \in First
           /\ \A i \in 1..Len(stream[l]) : stream[l][i] \in First \cup Later
<1>1. stream[l] \in Seq(First \cup Later) /\ stream[l] # <<>>
  BY Zenon DEF MigrationAssumption
<1>2. Len(stream[l]) \in Nat \ {0} /\ DOMAIN stream[l] = 1..Len(stream[l])
  BY <1>1
<1>3. stream[l][1] \in First
  <2>1. 1 \in DOMAIN stream[l]
    BY <1>2
  <2> QED
    BY Zenon, <2>1 DEF MigrationAssumption
<1> QED
  BY <1>1, <1>2, <1>3

\* The entries of one stream up to the n-th, in order, with their places.
LEMMA ThroughTyped ==
    ASSUME MigrationAssumption, stream \in Streams, NEW l \in Log, NEW n \in 1..Len(stream[l])
    PROVE  /\ Through(l, n) \in Seq(Entries) /\ Len(Through(l, n)) = n
           /\ \A i \in 1..n : /\ Through(l, n)[i].log = l /\ Through(l, n)[i].index = i
                              /\ Through(l, n)[i].event = stream[l][i]
<1>1. n \in Nat /\ \A i \in 1..n : i \in 1..Len(stream[l]) /\ i \in Nat
  BY StreamTyped
<1>2. \A i \in 1..n : Placed(l, i) \in Entries
  BY Zenon, <1>1, StreamTyped DEF Placed, Entries
<1>3. Through(l, n) \in Seq(Entries) /\ Len(Through(l, n)) = n
  BY <1>1, <1>2 DEF Through
<1> QED
  BY Zenon, <1>3 DEF Through, Placed

\* A stream that begins with the trusted issuance is a history.
LEMMA IssuedLinked ==
    ASSUME MigrationAssumption, stream \in Streams, NEW l \in Log, NEW n \in 1..Len(stream[l]),
           stream[l][1].type # "MIGRATION", Trusted(stream[l][1])
    PROVE  Linked(Through(l, n))
<1> DEFINE h == Through(l, n)
<1>1. /\ h \in Seq(Entries) /\ Len(h) = n
      /\ \A i \in 1..n : h[i].log = l /\ h[i].index = i /\ h[i].event = stream[l][i]
  BY Zenon, ThroughTyped
<1>2. n \in Nat \ {0}
  BY StreamTyped
<1>3. stream[l][1] = [type |-> "ISSUANCE", entity |-> "trusted"]
  <2>1. stream[l][1] \in First
    BY Zenon, StreamTyped
  <2>2. stream[l][1] \in [type : {"ISSUANCE"}, entity : {"trusted", "other"}]
    BY Zenon, <2>1 DEF First
  <2> QED
    BY Zenon, <2>2 DEF Trusted
<1> HIDE DEF h
<1>4. h # <<>> /\ DOMAIN h = 1..n
  BY <1>1, <1>2
<1>5. \A i \in 2..n : Joined(h, i)
  <2> SUFFICES ASSUME NEW i \in 2..n PROVE Joined(h, i)
    BY Zenon
  <2>1. i \in 1..n /\ i - 1 \in 1..n /\ i = (i - 1) + 1
    BY <1>2
  <2>2. h[i].log = h[i - 1].log /\ h[i].index = h[i - 1].index + 1
    BY Zenon, <1>1, <2>1
  <2> QED
    BY Zenon, <2>2 DEF Joined
<1>6. h[1].event = stream[l][1]
  BY <1>1, <1>2
<1>7. \A i \in DOMAIN h : h[i].event = stream[h[i].log][h[i].index]
  BY Zenon, <1>1, <1>4
<1> QED
  BY Zenon, <1>1, <1>3, <1>4, <1>5, <1>6, <1>7 DEF Linked, h

\* A history goes on in the stream of the log that it is handed to.
LEMMA HandedLinked ==
    ASSUME MigrationAssumption, stream \in Streams, NEW l \in Log, NEW n \in 1..Len(stream[l]),
           NEW h \in Seq(Entries), Linked(h), Hands(l, h[Len(h)].log, h[Len(h)].index),
           \A i \in DOMAIN h : h[i].event.type # "REVOCATION" /\ h[i].log # l
    PROVE  Linked(h \o Through(l, n))
<1> DEFINE t == Through(l, n)
           g == h \o t
           k == Len(h)
<1>1. /\ t \in Seq(Entries) /\ Len(t) = n
      /\ \A i \in 1..n : t[i].log = l /\ t[i].index = i /\ t[i].event = stream[l][i]
  BY Zenon, ThroughTyped
<1>2. n \in Nat \ {0} /\ k \in Nat \ {0} /\ DOMAIN h = 1..k
  BY StreamTyped DEF Linked
<1> HIDE DEF t
<1>3. /\ Len(g) = k + n /\ DOMAIN g = 1..(k + n)
      /\ \A i \in 1..k : g[i] = h[i]
      /\ \A i \in 1..n : g[k + i] = t[i]
  BY <1>1, <1>2
<1> HIDE DEF g, k
<1>4. \A i \in 1..k + n : g[i].event = stream[g[i].log][g[i].index]
  <2> SUFFICES ASSUME NEW i \in 1..k + n PROVE g[i].event = stream[g[i].log][g[i].index]
    BY Zenon
  <2>1. CASE i \in 1..k
    BY Zenon, <1>2, <1>3, <2>1 DEF Linked
  <2>2. CASE i \notin 1..k
    <3>1. i - k \in 1..n /\ k + (i - k) = i
      BY <1>2, <2>2
    <3> QED
      BY <1>1, <1>3, <3>1
  <2> QED
    BY Zenon, <2>1, <2>2
<1>5. ASSUME NEW i \in 2..k PROVE Joined(g, i)
  <2>1. i \in 1..k /\ i - 1 \in 1..k /\ \A j \in 1..i - 1 : j \in 1..k
    BY <1>2, <1>5
  <2>2. Joined(h, i)
    BY Zenon, <1>5 DEF Linked, k
  <2> QED
    BY Zenon, <1>3, <2>1, <2>2 DEF Joined
<1>6. Joined(g, k + 1)
  <2>1. /\ g[k + 1].log = l /\ g[k + 1].index = 1 /\ g[k + 1].event = stream[l][1]
        /\ (k + 1) - 1 = k /\ g[k] = h[k]
    BY <1>1, <1>2, <1>3
  <2>2. \A j \in 1..k : g[j].event.type # "REVOCATION" /\ g[j].log # l
    BY Zenon, <1>2, <1>3
  <2>3. Hands(l, h[k].log, h[k].index)
    BY Zenon DEF k
  <2> QED
    BY Zenon, <2>1, <2>2, <2>3 DEF Joined, Hands
<1>7. ASSUME NEW i \in (k + 2)..(k + n) PROVE Joined(g, i)
  <2>1. i - k \in 1..n /\ i - k - 1 \in 1..n /\ k + (i - k) = i /\ k + (i - k - 1) = i - 1
        /\ i - k = (i - k - 1) + 1
    BY <1>2
  <2>2. g[i] = t[i - k] /\ g[i - 1] = t[i - k - 1]
    BY Zenon, <1>3, <2>1
  <2>3. g[i].log = g[i - 1].log /\ g[i].index = g[i - 1].index + 1
    BY <1>1, <2>1, <2>2
  <2> QED
    BY Zenon, <2>3 DEF Joined
<1>8. \A i \in 2..Len(g) : Joined(g, i)
  <2> SUFFICES ASSUME NEW i \in 2..Len(g) PROVE Joined(g, i)
    BY Zenon
  <2>1. i \in 2..k \/ i = k + 1 \/ i \in (k + 2)..(k + n)
    BY <1>2, <1>3
  <2> QED
    BY Zenon, <1>5, <1>6, <1>7, <2>1
<1>9. g # <<>> /\ g[1].event = h[1].event
  BY <1>2, <1>3
<1> QED
  BY Zenon, <1>3, <1>4, <1>8, <1>9 DEF Linked, g, t

\* While a call is open, the innermost one has a log, a cutoff and a phase.
LEMMA TopTyped ==
    ASSUME stack \in Seq(Frames), stack # <<>>
    PROVE  /\ Len(stack) \in Nat \ {0} /\ DOMAIN stack = 1..Len(stack) /\ Top \in Frames
           /\ \A i \in 1..Len(stack) : stack[i] \in Frames
<1>1. Len(stack) \in Nat \ {0} /\ DOMAIN stack = 1..Len(stack)
  OBVIOUS
<1>2. \A i \in 1..Len(stack) : stack[i] \in Frames
  BY <1>1
<1> QED
  BY <1>1, <1>2 DEF Top

\* The k-th call of s moves on to phase p.
Moved(s, k, p) == [s EXCEPT ![k].phase = p]

\* The calls of r are those of s, and the k-th is now in phase p.
SameCalls(r, s, k, p) ==
    /\ r \in Seq(Frames) /\ Len(r) = Len(s)
    /\ \A i \in 1..Len(s) : /\ r[i].log = s[i].log /\ r[i].cut = s[i].cut
                            /\ i # k => r[i].phase = s[i].phase
    /\ r[k].phase = p

\* A call that moves on is still the call for its log and cutoff.
LEMMA PhaseMoves ==
    ASSUME NEW s \in Seq(Frames), NEW k \in 1..Len(s), NEW p \in Phases
    PROVE  SameCalls(Moved(s, k, p), s, k, p)
<1> DEFINE f == s[k]
           g == [log |-> f.log, cut |-> f.cut, depth |-> f.depth, phase |-> p]
           r == Moved(s, k, p)
<1>1. f \in Frames /\ Len(s) \in Nat /\ DOMAIN s = 1..Len(s)
  OBVIOUS
<1>2. [f EXCEPT !.phase = p] = g
  BY <1>1 DEF Frames
<1>3. r = [s EXCEPT ![k] = g]
  BY Zenon, <1>2 DEF Moved
<1>4. g \in Frames /\ g.log = f.log /\ g.cut = f.cut /\ g.phase = p
  BY Zenon, <1>1 DEF Frames
<1> HIDE DEF g, r
<1>5. r \in Seq(Frames) /\ Len(r) = Len(s) /\ r[k] = g
      /\ \A i \in 1..Len(s) : i # k => r[i] = s[i]
  BY <1>1, <1>3, <1>4
<1>6. \A i \in 1..Len(s) : r[i].log = s[i].log /\ r[i].cut = s[i].cut
  BY Zenon, <1>4, <1>5
<1>7. SameCalls(r, s, k, p)
  BY Zenon, <1>4, <1>5, <1>6 DEF SameCalls
<1> QED
  BY Zenon, <1>7 DEF r

\* The outermost call starts with nothing rebuilt and only its own log seen.
LEMMA InitMigrationInv ==
    ASSUME MigrationAssumption, IsChainPlan(chainPlan), ChainInit
    PROVE  MigrationInv
<1>1. stream \in Streams /\ prior \in Seq(Entries) /\ prior = <<>>
      /\ answer = "none" /\ ~Accepted
  BY DEF ChainInit, Accepted
<1>2. PICK cut \in chainPlan.cutoffs :
          /\ stack = <<Frame(RecordLog, cut, 0)>>
          /\ budget = [seen |-> {RecordLog}, events |-> 0, bytes |-> 0, active |-> cut > 0]
  BY Zenon DEF ChainInit
<1>3. RecordLog \in Log /\ cut \in Nat
  BY Zenon DEF MigrationAssumption, IsChainPlan
<1>4. Frame(RecordLog, cut, 0) \in Frames /\ Frame(RecordLog, cut, 0).log = RecordLog
      /\ Frame(RecordLog, cut, 0).phase = "load"
  BY Zenon, <1>3 DEF Frame, Frames, Phases
<1>5. /\ stack \in Seq(Frames) /\ stack # <<>> /\ Len(stack) = 1 /\ stack[1].log = RecordLog
      /\ Top.phase = "load"
  BY <1>2, <1>4 DEF Top
<1>6. DOMAIN budget = {"seen", "events", "bytes", "active"} /\ RecordLog \in budget.seen
  BY Zenon, <1>2
<1>7. Descent
  BY <1>5, <1>6 DEF Descent
<1>8. Ascent
  BY Zenon, <1>1, <1>5 DEF Ascent
<1> QED
  BY Zenon, <1>1, <1>6, <1>7, <1>8 DEF MigrationInv

\* An error ends every open call, and accepts nothing.
LEMMA RejectKeeps ==
    ASSUME MigrationInv, Reject
    PROVE  MigrationInv'
<1>1. answer' # "none" /\ ~Accepted' /\ UNCHANGED <<stream, budget, prior>>
  BY Zenon DEF Reject, Accepted
<1>2. (stream \in Streams /\ prior \in Seq(Entries)
       /\ DOMAIN budget = {"seen", "events", "bytes", "active"})'
  BY Zenon, <1>1 DEF MigrationInv
<1> QED
  BY Zenon, <1>1, <1>2 DEF MigrationInv

\* Fetching a stream moves the innermost call on, and rebuilds nothing.
LEMMA LoadKeeps ==
    ASSUME MigrationAssumption, MigrationInv, Load
    PROVE  MigrationInv'
<1> DEFINE spent == [budget EXCEPT !.bytes = @ + Len(stream[Top.log])]
<1>1. CASE Reject
  BY Zenon, <1>1, RejectKeeps
<1>2. CASE ~Reject
  <2>1. /\ budget' = spent /\ stack' = Phase("replay")
        /\ stream' = stream /\ prior' = prior /\ answer' = "none" /\ answer = "none"
        /\ Top.phase = "load"
    BY Zenon, <1>2 DEF Load
  <2>2. Descent /\ Ascent /\ stream \in Streams /\ prior \in Seq(Entries)
        /\ DOMAIN budget = {"seen", "events", "bytes", "active"}
    BY Zenon, <2>1 DEF MigrationInv
  <2>3. DOMAIN budget' = {"seen", "events", "bytes", "active"} /\ budget'.seen = budget.seen
    <3>1. "seen" \in DOMAIN budget
      BY Zenon, <2>2
    <3>2. DOMAIN spent = DOMAIN budget /\ spent.seen = budget.seen
      BY Zenon, <3>1
    <3> QED
      BY Zenon, <2>1, <2>2, <3>2
  <2>4. stack \in Seq(Frames) /\ stack # <<>>
    BY Zenon, <2>2 DEF Descent
  <2>5. Len(stack) \in 1..Len(stack) /\ Len(stack) \in Nat \ {0}
    BY <2>4, TopTyped
  <2>6. /\ stack' \in Seq(Frames) /\ Len(stack') = Len(stack)
        /\ \A i \in 1..Len(stack) : /\ stack'[i].log = stack[i].log
                                    /\ stack'[i].cut = stack[i].cut
                                    /\ i # Len(stack) => stack'[i].phase = stack[i].phase
        /\ stack'[Len(stack)].phase = "replay"
    <3>1. "replay" \in Phases
      BY Zenon DEF Phases
    <3>2. stack' = Moved(stack, Len(stack), "replay")
      BY Zenon, <2>1 DEF Phase, Moved
    <3>3. SameCalls(stack', stack, Len(stack), "replay")
      BY Zenon, <2>4, <2>5, <3>1, <3>2, PhaseMoves
    <3> QED
      BY Zenon, <3>3 DEF SameCalls
  <2>7. Descent'
    <3>1. stack' # <<>> /\ Top'.phase = "replay" /\ stack'[1].log = RecordLog
      BY <2>2, <2>5, <2>6 DEF Descent, Top
    <3>2. ASSUME NEW i \in 1..Len(stack) - 1
          PROVE  stack'[i].phase = "prior"
                 /\ Hands(stack'[i].log, stack'[i + 1].log, stack'[i + 1].cut)
      <4>1. i \in 1..Len(stack) /\ i + 1 \in 1..Len(stack) /\ i # Len(stack)
        BY <2>5
      <4>2. stack[i].phase = "prior" /\ Hands(stack[i].log, stack[i + 1].log, stack[i + 1].cut)
        BY Zenon, <2>2 DEF Descent
      <4> QED
        BY Zenon, <2>6, <4>1, <4>2
    <3>3. \A i, j \in 1..Len(stack') : stack'[i].log = stack'[j].log => i = j
      BY <2>2, <2>6 DEF Descent
    <3>4. \A i \in 1..Len(stack') : stack'[i].log \in budget'.seen
      BY Zenon, <2>2, <2>3, <2>6 DEF Descent
    <3> QED
      BY Zenon, <2>1, <2>6, <3>1, <3>2, <3>3, <3>4 DEF Descent, Hands
  <2>8. Ascent'
    <3>1. prior = <<>>
      BY Zenon, <2>1, <2>2 DEF Ascent
    <3>2. Top'.phase = "replay"
      BY Zenon, <2>6 DEF Top
    <3> QED
      BY Zenon, <2>1, <3>1, <3>2 DEF Ascent
  <2>9. ~Accepted'
    BY Zenon, <2>1 DEF Accepted
  <2> QED
    BY Zenon, <2>1, <2>2, <2>3, <2>7, <2>8, <2>9 DEF MigrationInv
<1> QED
  BY Zenon, <1>1, <1>2

\* Following a migration opens a call for a log not seen before, at the cutoff that
\* the migration signs (_prior_reader).
LEMMA FollowKeeps ==
    ASSUME MigrationAssumption, MigrationInv, FollowPrior
    PROVE  MigrationInv'
<1> DEFINE active == [budget EXCEPT !.active = TRUE]
           m == Migration
           k == Len(stack)
           r == Phase("prior")
           f == Frame(m.prev, m.cut, Top.depth + 1)
<1>1. CASE Reject
  BY Zenon, <1>1, RejectKeeps
<1>2. CASE ~Reject
  <2>1. /\ budget' = [active EXCEPT !.seen = @ \cup {m.prev}]
        /\ stack' = Append(r, f) /\ PriorReadable(active)
        /\ stream' = stream /\ prior' = prior /\ answer' = "none" /\ answer = "none"
        /\ Top.phase = "replay" /\ m.type = "MIGRATION"
    BY Zenon, <1>2 DEF FollowPrior
  <2>2. Descent /\ Ascent /\ stream \in Streams /\ prior \in Seq(Entries)
        /\ DOMAIN budget = {"seen", "events", "bytes", "active"}
    BY Zenon, <2>1 DEF MigrationInv
  <2>3. /\ DOMAIN budget' = {"seen", "events", "bytes", "active"}
        /\ budget'.seen = budget.seen \cup {m.prev} /\ active.seen = budget.seen
    <3>1. "seen" \in DOMAIN budget
      BY Zenon, <2>2
    <3>2. DOMAIN active = DOMAIN budget /\ active.seen = budget.seen
      BY Zenon, <3>1
    <3> HIDE DEF active, m
    <3>3. DOMAIN budget' = DOMAIN active /\ budget'.seen = active.seen \cup {m.prev}
      BY Zenon, <2>1, <3>1, <3>2
    <3> QED
      BY Zenon, <2>2, <3>2, <3>3
  <2>4. stack \in Seq(Frames) /\ stack # <<>>
    BY Zenon, <2>2 DEF Descent
  <2>5. k \in 1..k /\ k \in Nat \ {0} /\ Top \in Frames /\ Top = stack[k]
    BY <2>4, TopTyped DEF Top
  <2>6. m \in First /\ Top.log \in Log /\ Top.depth \in Nat
    BY Zenon, <2>2, <2>5, StreamTyped DEF Migration, Frames
  <2>7. /\ m.prev \in Log /\ m.cut \in Nat /\ m.cut > 0 /\ m.new = Top.log
        /\ m.prev \notin budget.seen
    <3>1. m \in [type : {"MIGRATION"}, prev : Log, cut : Nat, new : Log]
      BY Zenon, <2>1, <2>6 DEF First
    <3>2. m.prev \in Log /\ m.cut \in Nat
      BY Zenon, <3>1
    <3>3. m.cut > 0 /\ m.new = Top.log /\ m.prev \notin active.seen
      BY Zenon, <2>1 DEF PriorReadable, ExactCutoff
    <3> QED
      BY Zenon, <2>3, <3>2, <3>3
  <2>8. Hands(Top.log, m.prev, m.cut)
    BY Zenon, <2>1, <2>7 DEF Hands, Migration
  <2> HIDE DEF m, active
  <2>9. SameCalls(r, stack, k, "prior")
    <3>1. "prior" \in Phases
      BY Zenon DEF Phases
    <3>2. r = Moved(stack, k, "prior")
      BY Zenon DEF Phase, Moved
    <3> QED
      BY Zenon, <2>4, <2>5, <3>1, <3>2, PhaseMoves
  <2>10. f \in Frames /\ f.log = m.prev /\ f.cut = m.cut /\ f.phase = "load"
    BY <2>6, <2>7 DEF Frame, Frames, Phases
  <2> HIDE DEF r, f
  <2>11. /\ r \in Seq(Frames) /\ Len(r) = k
         /\ \A i \in 1..k : /\ r[i].log = stack[i].log /\ r[i].cut = stack[i].cut
                            /\ i # k => r[i].phase = stack[i].phase
         /\ r[k].phase = "prior"
    BY Zenon, <2>9 DEF SameCalls
  <2>12. /\ stack' \in Seq(Frames) /\ Len(stack') = k + 1 /\ stack'[k + 1] = f
         /\ \A i \in 1..k : stack'[i] = r[i]
    BY <2>1, <2>5, <2>10, <2>11
  <2>13. Descent'
    <3>1. stack' # <<>> /\ Top'.phase = "load" /\ stack'[1].log = RecordLog
      BY <2>2, <2>5, <2>10, <2>11, <2>12 DEF Descent, Top
    <3>2. ASSUME NEW i \in 1..k
          PROVE  stack'[i].phase = "prior"
                 /\ Hands(stack'[i].log, stack'[i + 1].log, stack'[i + 1].cut)
      <4>1. CASE i = k
        BY Zenon, <2>5, <2>8, <2>10, <2>11, <2>12, <4>1
      <4>2. CASE i # k
        <5>1. i \in 1..k - 1 /\ i + 1 \in 1..k
          BY <2>5, <4>2
        <5>2. stack[i].phase = "prior" /\ Hands(stack[i].log, stack[i + 1].log, stack[i + 1].cut)
          BY Zenon, <2>2, <5>1 DEF Descent
        <5> QED
          BY Zenon, <2>11, <2>12, <4>2, <5>1, <5>2
      <4> QED
        BY Zenon, <4>1, <4>2
    <3>3. \A i \in 1..k : stack'[i].log = stack[i].log /\ stack[i].log \in budget.seen
      BY Zenon, <2>2, <2>11, <2>12 DEF Descent
    <3>4. stack'[k + 1].log \notin budget.seen /\ stack'[k + 1].log = m.prev
      BY Zenon, <2>7, <2>10, <2>12
    <3>5. \A i \in 1..Len(stack') : i \in 1..k \/ i = k + 1
      BY <2>5, <2>12
    <3>6. \A i, j \in 1..Len(stack') : stack'[i].log = stack'[j].log => i = j
      <4>1. \A i, j \in 1..k : stack[i].log = stack[j].log => i = j
        BY Zenon, <2>2 DEF Descent
      <4> QED
        BY Zenon, <3>3, <3>4, <3>5, <4>1
    <3>7. \A i \in 1..Len(stack') : stack'[i].log \in budget'.seen
      BY Zenon, <2>3, <3>3, <3>4, <3>5
    <3>8. Len(stack') - 1 = k
      BY <2>5, <2>12
    <3>9. \A i \in 1..Len(stack') - 1 :
             stack'[i].phase = "prior"
             /\ Hands(stack'[i].log, stack'[i + 1].log, stack'[i + 1].cut)
      BY Zenon, <3>2, <3>8
    <3> QED
      BY Zenon, <2>1, <2>12, <3>1, <3>6, <3>7, <3>9 DEF Descent, Hands
  <2>14. Ascent'
    <3>1. prior = <<>>
      BY Zenon, <2>1, <2>2 DEF Ascent
    <3>2. Top'.phase = "load"
      BY Zenon, <2>10, <2>12 DEF Top
    <3> QED
      BY Zenon, <2>1, <3>1, <3>2 DEF Ascent
  <2>15. ~Accepted'
    BY Zenon, <2>1 DEF Accepted
  <2> QED
    BY Zenon, <2>1, <2>2, <2>3, <2>13, <2>14, <2>15 DEF MigrationInv
<1> QED
  BY Zenon, <1>1, <1>2

\* What Finish counts, and what it puts together.
Counted == IF Top.cut > 0 THEN Top.cut ELSE Len(stream[Top.log])
Rebuilt == prior \o Through(Top.log, Counted)

\* The history that a replay ends with is one up to an entry of its own
\* stream, and no call that waits is for one of its logs.
LEMMA RebuiltLinked ==
    ASSUME MigrationAssumption, MigrationInv, answer = "none",
           (Top.phase = "replay" /\ Migration.type # "MIGRATION") \/ Top.phase = "stitch",
           Trusted(Migration), Reached(Top.log, Top.cut)
    PROVE  /\ Rebuilt \in Seq(Entries) /\ Linked(Rebuilt)
           /\ Rebuilt[Len(Rebuilt)].log = Top.log /\ Rebuilt[Len(Rebuilt)].index = Counted
           /\ \A i \in DOMAIN Rebuilt, j \in 1..Len(stack) - 1 : Rebuilt[i].log # stack[j].log
<1> DEFINE l == Top.log
           n == Counted
           t == Through(l, n)
           k == Len(stack)
<1>1. Descent /\ Ascent /\ stream \in Streams /\ prior \in Seq(Entries)
  BY Zenon DEF MigrationInv
<1>2. stack \in Seq(Frames) /\ stack # <<>>
  BY Zenon, <1>1 DEF Descent
<1>3. k \in Nat \ {0} /\ l \in Log /\ Top.cut \in Nat /\ l = stack[k].log
  BY Zenon, <1>2, TopTyped DEF Frames, Top
<1>4. n \in 1..Len(stream[l]) /\ n \in Nat \ {0}
  BY <1>1, <1>3, StreamTyped DEF Reached, Counted
<1>5. /\ t \in Seq(Entries) /\ Len(t) = n
      /\ \A i \in 1..n : t[i].log = l /\ t[i].index = i
  BY <1>1, <1>3, <1>4, ThroughTyped
<1> HIDE DEF n, t, l
<1>6. \A j \in 1..k - 1 : l # stack[j].log
  <2> SUFFICES ASSUME NEW j \in 1..k - 1 PROVE l # stack[j].log
    BY Zenon
  <2>1. j \in 1..k /\ k \in 1..k /\ j # k
    BY <1>3
  <2> QED
    BY Zenon, <1>1, <1>3, <2>1 DEF Descent
<1>7. CASE Top.phase = "replay" /\ Migration.type # "MIGRATION"
  <2>1. prior = <<>>
    BY Zenon, <1>1, <1>7 DEF Ascent
  <2>2. Rebuilt = t
    BY <1>5, <2>1 DEF Rebuilt, t, l, n
  <2>3. Linked(t)
    BY Zenon, <1>1, <1>3, <1>4, <1>7, IssuedLinked DEF Migration, t, l
  <2>4. t[Len(t)].log = l /\ t[Len(t)].index = n /\ DOMAIN t = 1..n
    BY <1>4, <1>5
  <2>5. \A i \in DOMAIN t, j \in 1..k - 1 : t[i].log # stack[j].log
    BY Zenon, <1>5, <1>6, <2>4
  <2> QED
    BY Zenon, <1>5, <2>2, <2>3, <2>4, <2>5 DEF l, n
<1>8. CASE Top.phase = "stitch"
  <2>1. /\ Linked(prior) /\ Hands(l, prior[Len(prior)].log, prior[Len(prior)].index)
        /\ \A i \in DOMAIN prior : /\ prior[i].event.type # "REVOCATION"
                                   /\ \A j \in 1..k : prior[i].log # stack[j].log
    BY Zenon, <1>1, <1>8 DEF Ascent, l
  <2>2. \A i \in DOMAIN prior : prior[i].event.type # "REVOCATION" /\ prior[i].log # l
    BY <1>3, <2>1
  <2>3. Rebuilt = prior \o t
    BY Zenon DEF Rebuilt, t, l, n
  <2>4. Linked(prior \o t)
    BY Zenon, <1>1, <1>3, <1>4, <2>1, <2>2, HandedLinked DEF t
  <2>5. /\ Rebuilt \in Seq(Entries) /\ Len(Rebuilt) = Len(prior) + n
        /\ Len(prior) \in Nat /\ DOMAIN prior = 1..Len(prior)
        /\ DOMAIN Rebuilt = 1..Len(prior) + n
        /\ \A i \in 1..Len(prior) : Rebuilt[i] = prior[i]
        /\ \A i \in 1..n : Rebuilt[Len(prior) + i] = t[i]
    <3> DEFINE h == prior
    <3>1. h \in Seq(Entries) /\ t \in Seq(Entries) /\ Len(t) = n /\ n \in Nat
      BY Zenon, <1>1, <1>4, <1>5
    <3> HIDE DEF h
    <3>2. /\ h \o t \in Seq(Entries) /\ Len(h \o t) = Len(h) + n
          /\ Len(h) \in Nat /\ DOMAIN h = 1..Len(h)
          /\ DOMAIN (h \o t) = 1..Len(h) + n
      BY <3>1
    <3>3. /\ \A i \in 1..Len(h) : (h \o t)[i] = h[i]
          /\ \A i \in 1..n : (h \o t)[Len(h) + i] = t[i]
      BY <3>1
    <3> QED
      BY Zenon, <2>3, <3>2, <3>3 DEF h
  <2>6. Rebuilt[Len(Rebuilt)] = t[n]
    BY <1>4, <2>5
  <2>7. Rebuilt[Len(Rebuilt)].log = l /\ Rebuilt[Len(Rebuilt)].index = n
    BY <1>4, <1>5, <2>6
  <2>8. ASSUME NEW i \in DOMAIN Rebuilt, NEW j \in 1..k - 1 PROVE Rebuilt[i].log # stack[j].log
    <3>1. CASE i \in 1..Len(prior)
      <4>1. j \in 1..k
        BY <1>3
      <4> QED
        BY Zenon, <2>1, <2>5, <3>1, <4>1
    <3>2. CASE i \notin 1..Len(prior)
      <4>1. i - Len(prior) \in 1..n /\ Len(prior) + (i - Len(prior)) = i
        BY <1>4, <2>5, <3>2
      <4> QED
        BY <1>5, <1>6, <2>5, <4>1
    <3> QED
      BY Zenon, <3>1, <3>2
  <2> QED
    BY Zenon, <2>3, <2>4, <2>5, <2>7, <2>8 DEF l, n
<1> QED
  BY Zenon, <1>7, <1>8

\* When the innermost call returns, the calls around it are still open.
LEMMA PopTyped ==
    ASSUME stack \in Seq(Frames), stack # <<>>
    PROVE  /\ Pop \in Seq(Frames) /\ Len(Pop) = Len(stack) - 1
           /\ \A i \in 1..Len(stack) - 1 : Pop[i] = stack[i]
<1>1. PICK k : k = Len(stack) - 1
  BY Zenon
<1>2. k \in Nat /\ Len(stack) = k + 1 /\ \A i \in 1..k : stack[i] \in Frames
  BY <1>1, TopTyped
<1>3. Pop = [i \in 1..k |-> stack[i]]
  BY <1>1, <1>2 DEF Pop
<1> QED
  BY <1>1, <1>2, <1>3

\* A call that returns hands a living identity to the call that waits for it, and
\* the outermost one returns the history of its own log (_verify_prior_history).
LEMMA FinishKeeps ==
    ASSUME MigrationAssumption, MigrationInv, Finish
    PROVE  MigrationInv'
<1> DEFINE k == Len(stack)
<1>0. PICK h : h = Rebuilt
  BY Zenon
<1>1. CASE Reject
  BY Zenon, <1>1, RejectKeeps
<1>2. CASE ~Reject
  <2>1. /\ answer = "none" /\ stream' = stream /\ prior' = h
        /\ budget' = [budget EXCEPT !.events = @ + Counted]
        /\ (Top.phase = "replay" /\ Migration.type # "MIGRATION") \/ Top.phase = "stitch"
        /\ Trusted(Migration) /\ Reached(Top.log, Top.cut)
        /\ \/ k = 1 /\ answer' = "accepted" /\ stack' = <<>>
           \/ /\ k # 1 /\ ActiveUnderTrust(h) /\ answer' = "none"
              /\ stack' = Moved(Pop, k - 1, "stitch")
    BY Zenon, <1>0, <1>2 DEF Finish, Counted, Rebuilt, Moved
  <2>2. /\ h \in Seq(Entries) /\ Linked(h)
        /\ h[Len(h)].log = Top.log /\ h[Len(h)].index = Counted
        /\ \A i \in DOMAIN h, j \in 1..k - 1 : h[i].log # stack[j].log
    BY Zenon, <1>0, <2>1, RebuiltLinked
  <2>3. Descent /\ Ascent /\ stream \in Streams
        /\ DOMAIN budget = {"seen", "events", "bytes", "active"}
    BY Zenon, <2>1 DEF MigrationInv
  <2>4. DOMAIN budget' = {"seen", "events", "bytes", "active"} /\ budget'.seen = budget.seen
    <3>1. "seen" \in DOMAIN budget
      BY Zenon, <2>3
    <3> QED
      BY Zenon, <2>1, <2>3, <3>1
  <2>5. stack \in Seq(Frames) /\ stack # <<>>
    BY Zenon, <2>3 DEF Descent
  <2>6. k \in Nat \ {0} /\ Top = stack[k]
    BY Zenon, <2>5, TopTyped DEF Top
  <2>7. Linked(h)'
    BY Zenon, <2>1, <2>2 DEF Linked, Joined
  <2>8. CASE k = 1
    <3>1. answer' = "accepted" /\ Top.log = RecordLog
      BY Zenon, <2>1, <2>3, <2>6, <2>8 DEF Descent
    <3> QED
      BY Zenon, <2>1, <2>2, <2>3, <2>4, <2>7, <3>1 DEF MigrationInv
  <2>9. CASE k # 1
    <3>1. /\ ActiveUnderTrust(h) /\ answer' = "none" /\ stack' = Moved(Pop, k - 1, "stitch")
          /\ k - 1 \in Nat \ {0}
      BY <2>1, <2>6, <2>9
    <3>2. /\ Pop \in Seq(Frames) /\ Len(Pop) = k - 1
          /\ \A i \in 1..k - 1 : Pop[i] = stack[i]
      BY Zenon, <2>5, PopTyped
    <3>3. SameCalls(stack', Pop, k - 1, "stitch")
      <4>1. "stitch" \in Phases /\ k - 1 \in 1..Len(Pop)
        BY <3>1, <3>2 DEF Phases
      <4> QED
        BY Zenon, <3>1, <3>2, <4>1, PhaseMoves
    <3>4. /\ stack' \in Seq(Frames) /\ Len(stack') = k - 1
          /\ \A i \in 1..k - 1 : /\ stack'[i].log = stack[i].log /\ stack'[i].cut = stack[i].cut
                                 /\ i # k - 1 => stack'[i].phase = stack[i].phase
          /\ stack'[k - 1].phase = "stitch"
      BY Zenon, <3>2, <3>3 DEF SameCalls
    <3>5. Descent'
      <4>1. stack' # <<>> /\ Top'.phase = "stitch" /\ stack'[1].log = RecordLog
        BY <2>3, <3>1, <3>4 DEF Descent, Top
      <4>2. ASSUME NEW i \in 1..Len(stack') - 1
            PROVE  stack'[i].phase = "prior"
                   /\ Hands(stack'[i].log, stack'[i + 1].log, stack'[i + 1].cut)
        <5>1. i \in 1..k - 1 /\ i + 1 \in 1..k - 1 /\ i # k - 1
          BY <2>6, <3>1, <3>4
        <5>2. stack[i].phase = "prior" /\ Hands(stack[i].log, stack[i + 1].log, stack[i + 1].cut)
          BY Zenon, <2>3, <5>1 DEF Descent
        <5> QED
          BY Zenon, <3>4, <5>1, <5>2
      <4>3. \A i \in 1..k - 1 : i \in 1..k
        BY <2>6
      <4>4. \A i, j \in 1..Len(stack') : stack'[i].log = stack'[j].log => i = j
        BY Zenon, <2>3, <3>4, <4>3 DEF Descent
      <4>5. \A i \in 1..Len(stack') : stack'[i].log \in budget'.seen
        BY Zenon, <2>3, <2>4, <3>4, <4>3 DEF Descent
      <4> QED
        BY Zenon, <2>1, <3>4, <4>1, <4>2, <4>4, <4>5 DEF Descent, Hands
    <3>6. Ascent'
      <4>1. Top' = stack'[k - 1] /\ Top'.phase = "stitch" /\ Top'.log = stack[k - 1].log
        BY <3>1, <3>4 DEF Top
      <4>2. Hands(stack[k - 1].log, stack[k].log, stack[k].cut)
        <5>1. k \in Nat /\ k # 0 /\ k # 1
          BY Zenon, <2>6, <2>9
        <5>2. \A n \in Nat : n # 0 /\ n # 1 => n - 1 \in 1..n - 1 /\ (n - 1) + 1 = n
          OBVIOUS
        <5>3. k - 1 \in 1..k - 1 /\ (k - 1) + 1 = k
          BY Zenon, <5>1, <5>2
        <5> QED
          BY Zenon, <2>3, <5>3 DEF Descent
      <4>3. Counted = Top.cut
        BY Zenon, <2>6, <4>2 DEF Hands, Counted
      <4>4. Hands(Top'.log, h[Len(h)].log, h[Len(h)].index)
        BY Zenon, <2>2, <2>6, <4>1, <4>2, <4>3
      <4>5. \A i \in DOMAIN h : h[i].event.type # "REVOCATION"
        BY Zenon, <3>1 DEF ActiveUnderTrust
      <4>6. \A i \in DOMAIN h, j \in 1..Len(stack') : h[i].log # stack'[j].log
        BY <2>2, <3>4
      <4>7. Hands(Top.log, prior[Len(prior)].log, prior[Len(prior)].index)'
        BY Zenon, <2>1, <4>4 DEF Hands
      <4>8. Linked(prior)'
        BY Zenon, <2>1, <2>7
      <4> QED
        BY Zenon, <2>1, <4>1, <4>5, <4>6, <4>7, <4>8 DEF Ascent
    <3> QED
      BY Zenon, <2>1, <2>2, <2>3, <2>4, <3>1, <3>5, <3>6 DEF MigrationInv, Accepted
  <2> QED
    BY Zenon, <2>8, <2>9
<1> QED
  BY Zenon, <1>1, <1>2

\* A step keeps the rebuilding in order while no log is another reader's.
LEMMA NextMigrationInv ==
    ASSUME MigrationAssumption, MigrationInv, external = {}, [ChainNext]_migrationVars
    PROVE  MigrationInv'
<1>1. CASE Load
  BY Zenon, <1>1, LoadKeeps
<1>2. CASE FollowPrior
  BY Zenon, <1>2, FollowKeeps
<1>3. CASE AskOther
  BY Zenon, <1>3 DEF AskOther
<1>4. CASE Finish
  BY Zenon, <1>4, FinishKeeps
<1>5. CASE UNCHANGED migrationVars
  <2>1. UNCHANGED <<stream, stack, budget, prior, answer>>
    BY Zenon, <1>5 DEF migrationVars
  <2>2. Linked(prior) => Linked(prior)'
    BY <2>1 DEF Linked, Joined
  <2>3. Descent => Descent'
    BY Zenon, <2>1 DEF Descent, Hands, Top
  <2>4. Ascent => Ascent'
    BY Zenon, <2>1, <2>2 DEF Ascent, Hands, Top
  <2> QED
    BY Zenon, <2>1, <2>2, <2>3, <2>4 DEF MigrationInv, Accepted
<1> QED
  BY Zenon, <1>1, <1>2, <1>3, <1>4, <1>5 DEF ChainNext

\* Which logs other readers serve is settled before the reading starts.
LEMMA ExternalKept ==
    ASSUME [ChainNext]_migrationVars
    PROVE  external' = external
BY Zenon DEF ChainNext, migrationVars, Load, FollowPrior, AskOther, Finish, Reject

\* What the invariant says of an accepted history is what AcceptedIsChain asks
\* (_stitch_migration_history).
LEMMA ChainFromInv ==
    ASSUME MigrationInv
    PROVE  AcceptedIsChain
BY Zenon DEF MigrationInv, AcceptedIsChain, Linked, Joined

===============================================================================
