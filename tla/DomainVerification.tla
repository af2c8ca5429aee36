-------------------------- MODULE DomainVerification --------------------------
(***************************************************************************)
(* How concurrent verify_domain and refresh_domain calls for one domain    *)
(* share network work, in both their synchronous and asynchronous forms    *)
(* (dnsid/manager.py).  A caller either reuses cached evidence, joins a    *)
(* future another caller registered, or registers one and starts a job     *)
(* that completes it: V (cold verification), S (status refresh of cached   *)
(* evidence), R (explicit refresh) or I (a private verification for one    *)
(* caller).  Synchronous jobs run on a bounded executor.                   *)
(*                                                                         *)
(* Evidence is the version of the published identity it was read from, its *)
(* DNS TTL (zero or positive) and, when cached, a stamp that orders status *)
(* checks as last_status_check_at does.  Whether the status interval has   *)
(* elapsed at a cache read is left open, as the interval is configuration. *)
(***************************************************************************)
EXTENDS Naturals, FiniteSets

CONSTANTS
    Caller,      \* threads and tasks that verify the domain
    Job,         \* identities of futures, reused once completed
    Styles,      \* which of "sync" and "async" callers use
    Ttls,        \* DNS TTLs the record may be published with
    Workers,     \* size of the verification executor
    MaxFaults,   \* bound on failures, deadlines, expiries, evictions, revocations
    MaxCalls,    \* bound on calls
    MaxVersion,  \* bound on changes of the published identity
    None, Failed, NotActive

ASSUME ConstantsAssumption ==
    /\ Styles \subseteq {"sync", "async"}
    /\ Ttls \subseteq {"zero", "positive"} /\ "positive" \in Ttls
    /\ Workers \in Nat \ {0}
    /\ MaxFaults \in Nat
    /\ MaxCalls \in Nat
    /\ MaxVersion \in Nat
    /\ None \notin Job

Evidence == [ver : 0..MaxVersion, ttl : {"zero", "positive"}, stamp : Nat]

Outcome == Evidence \cup {None, Failed, NotActive}

Kinds == {"V", "S", "R"}

JobRecord ==
    [kind : Kinds \cup {"free", "I"}, style : {"sync", "async", "inline"},
     pc : {"free", "prior", "queued", "begin", "await", "read", "status", "put",
           "look", "claim", "fetch", "store", "inline", "joined", "private",
           "finish", "set"},
     on   : Job \cup {None},        \* the future it waits for
     own  : {"led", "shared"},      \* whether it registered that future
     base : Evidence \cup {None},   \* S: the cached evidence to refresh
     got  : Evidence \cup {None},   \* evidence under construction
     out  : Outcome]

CallRecord ==
    [pc : {"idle", "look", "cache", "claim", "wait", "woken"},
     op : {"verify", "refresh"}, style : {"sync", "async"},
     kind : Kinds,                  \* the future it registers if there is none
     on   : Job \cup {None},
     own  : {"led", "shared"},
     seen : Evidence \cup {None},   \* the cached evidence it read
     res  : Outcome,
     need : 0..MaxVersion]          \* history: version evicted for at its start

VARIABLES
    world,    \* the published identity: version, TTL, status
    cache,    \* IdentityCache entry of the domain
    stamp,    \* stamp of the latest cached evidence
    slot,     \* _verification_futures, _status_futures, _refresh_futures
    job,      \* futures and the work that completes them
    caller,   \* calls in progress
    calls,    \* how many calls have started
    faults,   \* how many faults have happened
    closing,  \* "open", "closing" or "closed"
    floor,    \* history: newest version a completed refresh returned
    evicted   \* history: version current at the last evict_domain

vars == <<world, cache, stamp, slot, job, caller, calls, faults, closing, floor, evicted>>

FreeJob == [kind |-> "free", style |-> "sync", pc |-> "free", on |-> None,
            own |-> "led", base |-> None, got |-> None, out |-> None]

NoCall == [pc |-> "idle", op |-> "verify", style |-> "sync", kind |-> "V",
           on |-> None, own |-> "led", seen |-> None, res |-> None, need |-> 0]

Init ==
    /\ world = [ver |-> 0, ttl |-> "positive", state |-> "ACTIVE"]
    /\ cache = None
    /\ stamp = 0
    /\ slot = [k \in Kinds |-> None]
    /\ job = [j \in Job |-> FreeJob]
    /\ caller = [c \in Caller |-> NoCall]
    /\ calls = 0
    /\ faults = 0
    /\ closing = "open"
    /\ floor = 0
    /\ evicted = 0

Own(j, r) == job' = [job EXCEPT ![j] = r]

Fault == faults < MaxFaults /\ faults' = faults + 1

Is(o) == o \notin {None, Failed, NotActive}

-----------------------------------------------------------------------------
(* Futures                                                                 *)

FullFuture == IF slot["R"] # None THEN slot["R"] ELSE slot["V"]

AnyFuture == IF FullFuture # None THEN FullFuture ELSE slot["S"]

\* Mutant of Joinable: a cold lookup overlooks a refresh in progress.
JoinableOwn(style, k) == IF style = "sync" THEN slot[k] ELSE AnyFuture

\* The future a caller about to register one of kind k joins instead.
Joinable(style, k) ==
    CASE k = "R"                      -> slot["R"]
      [] k = "V" /\ style = "sync"    -> FullFuture
      [] k = "S" /\ style = "sync"    -> slot["S"]
      [] k # "R" /\ style = "async"   -> AnyFuture

HasFree == \E j \in Job : job[j].kind = "free"

Free == CHOOSE j \in Job : job[j].kind = "free"

\* Where the work itself begins.
Entry(k) == CASE k = "V" -> "read" [] k = "S" -> "look" [] k = "R" -> "begin"

\* Mutant of Started: a refresh takes a worker before the lookup it awaits is done.
StartedAtOnce(k, style, base) ==
    [FreeJob EXCEPT !.kind = k, !.style = style, !.base = base,
                    !.pc = IF style = "async" THEN Entry(k) ELSE "queued"]

\* A registered future and its job.  A synchronous refresh waits for the
\* lookup in progress before it takes a worker.
Started(k, style, base) ==
    LET previous == IF k = "R" /\ style = "sync" THEN slot["V"] ELSE None
    IN  [FreeJob EXCEPT !.kind = k, !.style = style, !.base = base,
                        !.on = previous,
                        !.pc = CASE style = "async"   -> Entry(k)
                                 [] previous # None   -> "prior"
                                 [] OTHER             -> "queued"]

\* A private verification: no slot, no cache.
Private(revalidate) ==
    [FreeJob EXCEPT !.kind = "I", !.style = "async",
                    !.pc = IF revalidate THEN "begin" ELSE "read"]

-----------------------------------------------------------------------------
(* Calls                                                                   *)

\* The call waits for future j; a leader has no further use for what it read.
Wait(c, j, own) ==
    [caller[c] EXCEPT !.pc = "wait", !.on = j, !.own = own,
                      !.seen = IF own = "led" THEN None ELSE @]

\* verify_domain, refresh_domain and their async forms enter _verification_call.
Call(c, op, style) ==
    /\ closing = "open"
    /\ caller[c].pc = "idle"
    /\ calls < MaxCalls
    /\ calls' = calls + 1
    /\ caller' = [caller EXCEPT ![c] =
            [NoCall EXCEPT !.op = op, !.style = style, !.need = evicted,
                           !.pc = IF op = "refresh" THEN "claim" ELSE "look",
                           !.kind = IF op = "refresh" THEN "R" ELSE "V"]]
    /\ UNCHANGED <<world, cache, stamp, slot, job, faults, closing, floor, evicted>>

\* The first critical section: wait for a future in progress, if there is one.
Look(c) ==
    /\ caller[c].pc = "look"
    /\ caller' = [caller EXCEPT ![c] =
            IF AnyFuture # None THEN Wait(c, AnyFuture, "shared")
            ELSE [@ EXCEPT !.pc = "cache"]]
    /\ UNCHANGED <<world, cache, stamp, slot, job, calls, faults, closing, floor, evicted>>

\* The cache read between the critical sections.
ReadCache(c) ==
    /\ caller[c].pc = "cache"
    /\ \/ /\ cache # None                \* checked within the interval
          /\ caller' = [caller EXCEPT ![c].pc = "woken", ![c].res = cache]
       \/ /\ caller' = [caller EXCEPT ![c].pc = "claim", ![c].seen = cache,
                             ![c].kind = IF cache # None THEN "S" ELSE "V"]
    /\ UNCHANGED <<world, cache, stamp, slot, job, calls, faults, closing, floor, evicted>>

\* The second critical section: join a future or register one and start it.
Claim(c) ==
    LET r == caller[c]
        f == Joinable(r.style, r.kind)
    IN  /\ r.pc = "claim"
        /\ IF f # None
           THEN /\ caller' = [caller EXCEPT ![c] = Wait(c, f, "shared")]
                /\ UNCHANGED <<slot, job>>
           ELSE /\ HasFree
                /\ slot' = [slot EXCEPT ![r.kind] = Free]
                /\ Own(Free, Started(r.kind, r.style, r.seen))
                /\ caller' = [caller EXCEPT ![c] = Wait(c, Free, "led")]
        /\ UNCHANGED <<world, cache, stamp, calls, faults, closing, floor, evicted>>

\* Another invocation's zero-TTL evidence is not this one's to use: a
\* synchronous call claims again, an asynchronous one verifies privately.
Unshared(r) == r.own = "shared" /\ Is(r.res) /\ r.res.ttl = "zero"

Again(c) ==
    LET r == caller[c]
    IN  /\ r.pc = "woken"
        /\ Unshared(r)
        /\ IF r.style = "sync"
           THEN /\ caller' = [caller EXCEPT ![c].pc = "claim", ![c].res = None]
                /\ UNCHANGED job
           ELSE /\ HasFree
                /\ Own(Free, Private(r.op = "refresh"))
                /\ caller' = [caller EXCEPT ![c] =
                        [Wait(c, Free, "led") EXCEPT !.res = None]]
        /\ UNCHANGED <<world, cache, stamp, slot, calls, faults, closing, floor, evicted>>

\* _accept_verification: the evidence is returned, or has expired and is
\* evicted; a failure is raised.
Return(c) ==
    /\ caller[c].pc = "woken"
    /\ ~Unshared(caller[c])
    /\ caller' = [caller EXCEPT ![c] = NoCall]
    /\ \/ UNCHANGED <<cache, faults>>
       \/ Is(caller[c].res) /\ cache' = None /\ Fault
    /\ UNCHANGED <<world, stamp, slot, job, calls, closing, floor, evicted>>

\* A deadline or a cancellation ends the caller's wait and nothing else.
GiveUp(c) ==
    /\ Fault
    /\ caller[c].pc = "wait"
    /\ caller' = [caller EXCEPT ![c] = NoCall]
    /\ UNCHANGED <<world, cache, stamp, slot, job, calls, closing, floor, evicted>>

-----------------------------------------------------------------------------
(* Jobs                                                                    *)

AtPc(j, pc) == job[j].pc = pc

\* Jobs that hold a worker of the executor.
Running == {j \in Job : /\ job[j].style = "sync"
                        /\ job[j].pc \notin {"free", "prior", "queued", "joined"}}

Dequeue(j) ==
    /\ AtPc(j, "queued")
    /\ Cardinality(Running) < Workers
    /\ Own(j, [job[j] EXCEPT !.pc = Entry(job[j].kind)])
    /\ UNCHANGED <<world, cache, stamp, slot, caller, calls, faults, closing, floor, evicted>>

\* Mutant of Begin: a refresh does not wait for the lookup in progress.
BeginAtOnce(j) ==
    /\ AtPc(j, "begin")
    /\ Own(j, [job[j] EXCEPT !.pc = "read"])
    /\ UNCHANGED <<world, cache, stamp, slot, caller, calls, faults, closing, floor, evicted>>

\* A refresh first waits for the lookup in progress.
Begin(j) ==
    /\ AtPc(j, "begin")
    /\ Own(j, [job[j] EXCEPT !.on = slot["V"],
                             !.pc = IF slot["V"] # None THEN "await" ELSE "read"])
    /\ UNCHANGED <<world, cache, stamp, slot, caller, calls, faults, closing, floor, evicted>>

\* The TXT record, its keys and its log, then the status.
Read(j) ==
    /\ AtPc(j, "read")
    /\ Own(j, [job[j] EXCEPT !.pc = "status",
                   !.got = [ver |-> world.ver, ttl |-> world.ttl, stamp |-> 0]])
    /\ UNCHANGED <<world, cache, stamp, slot, caller, calls, faults, closing, floor, evicted>>

Stamped(e) == [e EXCEPT !.stamp = stamp + 1]

\* Positive-TTL evidence is stamped when the status has been checked; the
\* stamp of evidence that is never cached is never compared.
Status(j) ==
    LET stamps == world.state = "ACTIVE" /\ job[j].got.ttl = "positive"
    IN  /\ AtPc(j, "status")
        /\ Own(j, CASE stamps -> [job[j] EXCEPT !.pc = "put", !.got = Stamped(@)]
                    [] world.state # "ACTIVE" ->
                           [job[j] EXCEPT !.pc = "finish", !.got = None, !.out = NotActive]
                    [] OTHER -> [job[j] EXCEPT !.pc = "put"])
        /\ stamp' = IF stamps THEN stamp + 1 ELSE stamp
        /\ UNCHANGED <<world, cache, slot, caller, calls, faults, closing, floor, evicted>>

\* _cache_verification: a private verification leaves the cache alone,
\* zero-TTL evidence empties it.
Put(j) ==
    LET e == job[j].got
    IN  /\ AtPc(j, "put")
        /\ Own(j, [job[j] EXCEPT !.pc = "finish", !.got = None, !.out = e])
        /\ cache' = CASE job[j].kind = "I" -> cache
                      [] job[j].kind # "I" /\ e.ttl = "positive" -> e
                      [] OTHER -> None
        /\ UNCHANGED <<world, stamp, slot, caller, calls, faults, closing, floor, evicted>>

\* _refresh_status: what the cache holds now decides.
LookStatus(j) ==
    /\ AtPc(j, "look")
    /\ Own(j, CASE cache = None -> [job[j] EXCEPT !.pc = "claim"]
                [] cache # None /\ cache.stamp > job[j].base.stamp ->
                       [job[j] EXCEPT !.pc = "finish", !.out = cache]
                [] OTHER -> [job[j] EXCEPT !.pc = "fetch", !.got = cache])
    /\ UNCHANGED <<world, cache, stamp, slot, caller, calls, faults, closing, floor, evicted>>

\* The evidence is gone: join a full verification or lead one, which a
\* synchronous status refresh runs on its own worker.
ClaimFull(j) ==
    LET sync == job[j].style = "sync"
    IN  /\ AtPc(j, "claim")
        /\ IF FullFuture # None
           THEN /\ Own(j, [job[j] EXCEPT !.pc = "joined", !.on = FullFuture,
                                         !.own = "shared"])
                /\ UNCHANGED slot
           ELSE /\ HasFree
                /\ slot' = [slot EXCEPT !["V"] = Free]
                /\ job' = [job EXCEPT
                      ![j] = [@ EXCEPT !.pc = IF sync THEN "inline" ELSE "joined",
                                       !.on = Free, !.own = "led"],
                      ![Free] = [FreeJob EXCEPT !.kind = "V", !.pc = "read",
                                     !.style = IF sync THEN "inline" ELSE "async"]]
        /\ UNCHANGED <<world, cache, stamp, caller, calls, faults, closing, floor, evicted>>

FetchStatus(j) ==
    /\ AtPc(j, "fetch")
    /\ IF world.state = "ACTIVE"
       THEN /\ Own(j, [job[j] EXCEPT !.pc = "store", !.out = Stamped(job[j].got)])
            /\ stamp' = stamp + 1
            /\ UNCHANGED cache
       ELSE /\ Own(j, [job[j] EXCEPT !.pc = "finish", !.got = None, !.out = NotActive])
            /\ cache' = None
            /\ UNCHANGED stamp
    /\ UNCHANGED <<world, slot, caller, calls, faults, closing, floor, evicted>>

\* _cache_refreshed_status publishes only over the evidence it refreshed.
StoreStatus(j) ==
    /\ AtPc(j, "store")
    /\ Own(j, [job[j] EXCEPT !.pc = "finish", !.got = None,
                   !.out = CASE cache = None       -> Failed
                             [] cache = job[j].got -> @
                             [] OTHER              -> cache])
    /\ cache' = IF cache = job[j].got THEN job[j].out ELSE cache
    /\ UNCHANGED <<world, stamp, slot, caller, calls, faults, closing, floor, evicted>>

\* A read fails or the budget runs out; evidence found expired is evicted.
Fail(j) ==
    /\ Fault
    /\ \/ job[j].pc \in {"begin", "await", "read", "status", "put", "look", "fetch", "store"}
       \/ AtPc(j, "joined") /\ job[j].style = "async"
       \/ AtPc(j, "finish") /\ job[j].style # "async" /\ Is(job[j].out)
    /\ Own(j, [job[j] EXCEPT !.pc = "finish", !.got = None,
                             !.out = Failed, !.on = None])
    /\ cache' \in {cache} \cup (IF job[j].pc \in {"put", "store"} THEN {None} ELSE {})
    /\ UNCHANGED <<world, stamp, slot, caller, calls, closing, floor, evicted>>

\* An asynchronous status refresh that joined zero-TTL evidence.
Separate(j) ==
    /\ AtPc(j, "private")
    /\ HasFree
    /\ job' = [job EXCEPT ![j] = [@ EXCEPT !.pc = "joined", !.on = Free, !.own = "led"],
                          ![Free] = Private(FALSE)]
    /\ UNCHANGED <<world, cache, stamp, slot, caller, calls, faults, closing, floor, evicted>>

\* Mutant of Finish: a completed future stays in its table.
FinishKeepsSlot(j) ==
    /\ AtPc(j, "finish")
    /\ Own(j, [job[j] EXCEPT !.pc = "set"])
    /\ cache' = IF job[j].out = NotActive THEN None ELSE cache
    /\ UNCHANGED <<world, stamp, slot, caller, calls, faults, closing, floor, evicted>>

\* _finish_verification, its critical section.
Finish(j) ==
    /\ AtPc(j, "finish")
    /\ Own(j, [FreeJob EXCEPT !.kind = job[j].kind, !.style = job[j].style,
                              !.pc = "set", !.out = job[j].out])
    /\ cache' = IF job[j].out = NotActive THEN None ELSE cache
    /\ slot' = [k \in Kinds |-> IF slot[k] = j THEN None ELSE slot[k]]
    /\ UNCHANGED <<world, stamp, caller, calls, faults, closing, floor, evicted>>

\* What a job does when the future it waits for has outcome o.
Resumed(r, o) ==
    LET next == [r EXCEPT !.on = None]
    IN  CASE r.pc = "prior" -> [next EXCEPT !.pc = "queued"]
          [] r.pc = "await" -> [next EXCEPT !.pc = "read"]
          [] r.pc \notin {"prior", "await"} /\ Is(o) /\ o.ttl = "zero" /\ r.style = "sync" ->
                 [next EXCEPT !.pc = "queued"]
          [] r.pc \notin {"prior", "await"} /\ Is(o) /\ o.ttl = "zero" /\ r.style = "async"
                 /\ r.own = "shared" -> [next EXCEPT !.pc = "private"]
          [] OTHER -> [next EXCEPT !.pc = "finish", !.out = o]

\* The future gets its outcome, which reaches everyone who waits for it; a
\* completed future never changes, so each of them keeps a copy.
SetOutcome(j) ==
    LET o == job[j].out
    IN  /\ AtPc(j, "set")
        /\ job' = [k \in Job |-> CASE k = j -> FreeJob
                                    [] k # j /\ job[k].on = j -> Resumed(job[k], o)
                                    [] OTHER -> job[k]]
        /\ caller' = [c \in Caller |->
                IF caller[c].pc = "wait" /\ caller[c].on = j
                THEN [caller[c] EXCEPT !.pc = "woken", !.on = None, !.res = o]
                ELSE caller[c]]
        /\ floor' = IF job[j].kind = "R" /\ Is(o) /\ o.ver > floor THEN o.ver ELSE floor
        /\ UNCHANGED <<world, cache, stamp, slot, calls, faults, closing, evicted>>

-----------------------------------------------------------------------------
(* The world, eviction and shutdown                                        *)

Change(ttl) ==
    /\ world.ver < MaxVersion
    /\ world' = [world EXCEPT !.ver = @ + 1, !.ttl = ttl]
    /\ UNCHANGED <<cache, stamp, slot, job, caller, calls, faults, closing, floor, evicted>>

Revoke ==
    /\ Fault
    /\ world.state = "ACTIVE"
    /\ world' = [world EXCEPT !.state = "REVOKED"]
    /\ UNCHANGED <<cache, stamp, slot, job, caller, calls, closing, floor, evicted>>

\* evict_domain: no coordination with work in progress.
EvictDomain ==
    /\ Fault
    /\ cache' = None
    /\ evicted' = world.ver
    /\ UNCHANGED <<world, stamp, slot, job, caller, calls, closing, floor>>

\* The cached evidence outlives its DNS TTL.
Expire ==
    /\ Fault
    /\ cache # None
    /\ cache' = None
    /\ UNCHANGED <<world, stamp, slot, job, caller, calls, closing, floor, evicted>>

\* Mutant of TrackedWorker: private verifications are not tracked.
TrackedWorkerSlots(j) == AtPc(j, "set") \/ j \in Running

\* _pending_verification_work: what close and aclose drain.
TrackedWorker(j) ==
    \/ job[j].kind = "I"
    \/ AtPc(j, "set")
    \/ j \in Running

Pending ==
    \/ \E c \in Caller : caller[c].pc # "idle"
    \/ \E k \in Kinds : slot[k] # None
    \/ \E j \in Job : TrackedWorker(j)

Close ==
    /\ closing = "open"
    /\ closing' = "closing"
    /\ UNCHANGED <<world, cache, stamp, slot, job, caller, calls, faults, floor, evicted>>

Drained ==
    /\ closing = "closing"
    /\ ~Pending
    /\ closing' = "closed"
    /\ UNCHANGED <<world, cache, stamp, slot, job, caller, calls, faults, floor, evicted>>

-----------------------------------------------------------------------------
CallerStep(c) == Look(c) \/ ReadCache(c) \/ Claim(c) \/ Again(c) \/ Return(c)

JobStep(j) ==
    \/ Dequeue(j) \/ Begin(j) \/ Read(j) \/ Status(j) \/ Put(j)
    \/ LookStatus(j) \/ ClaimFull(j) \/ FetchStatus(j) \/ StoreStatus(j)
    \/ Separate(j) \/ Finish(j) \/ SetOutcome(j)

Next ==
    \/ \E c \in Caller, op \in {"verify", "refresh"}, style \in Styles : Call(c, op, style)
    \/ \E c \in Caller : CallerStep(c) \/ GiveUp(c)
    \/ \E j \in Job : JobStep(j) \/ Fail(j)
    \/ \E ttl \in Ttls : Change(ttl)
    \/ Revoke \/ EvictDomain \/ Expire \/ Close \/ Drained

Spec == Init /\ [][Next]_vars

-----------------------------------------------------------------------------
(* Properties                                                              *)

\* The type invariant: every field of the manager's tables and of the work in
\* progress has its type.
TypeOK ==
    /\ world \in [ver : 0..MaxVersion, ttl : Ttls, state : {"ACTIVE", "REVOKED"}]
    /\ cache \in Evidence \cup {None}
    /\ stamp \in Nat
    /\ slot \in [Kinds -> Job \cup {None}]
    /\ job \in [Job -> JobRecord]
    /\ caller \in [Caller -> CallRecord]
    /\ calls \in 0..MaxCalls
    /\ faults \in 0..MaxFaults
    /\ closing \in {"open", "closing", "closed"}
    /\ floor \in 0..MaxVersion
    /\ evicted \in 0..MaxVersion

\* Once a refresh_domain call has completed, the cache never again holds
\* evidence older than the one it returned: no lookup or status refresh that
\* overlapped it can put older evidence back.
RefreshNotUndone == cache # None => cache.ver >= floor

\* At most one full verification that may write the cache reads the network
\* at a time: cold verifications, refreshes and the verifications status
\* refreshes lead all coalesce.
Acquiring == {j \in Job : /\ job[j].kind \in {"V", "R"}
                          /\ job[j].pc \in {"read", "status", "put"}}

OneAcquisition == Cardinality(Acquiring) <= 1

\* Whoever waits for a future waits for one whose work is still to complete
\* it, and a registered future is one its work has not completed: nobody can
\* find a dead future in the tables.
Live(f, kinds) == job[f].kind \in kinds

WaitersServed ==
    /\ \A k \in Kinds : slot[k] # None => Live(slot[k], {k}) /\ ~AtPc(slot[k], "set")
    /\ \A c \in Caller : caller[c].pc = "wait" => Live(caller[c].on, Kinds \cup {"I"})
    /\ \A j \in Job : job[j].on # None => Live(job[j].on, {"V", "R", "I"})

\* When close or aclose has drained the manager, no verification work is left
\* that could use the clients and executors they close next.
ClosedIsQuiet ==
    closing = "closed" => /\ \A j \in Job : job[j].kind = "free"
                          /\ \A c \in Caller : caller[c].pc = "idle"

\* models.py: "Fresh zero-TTL DNS evidence is valid only in its acquiring
\* operation".  So a status refresh that led a full verification completes
\* with its outcome; it does not discard the evidence it acquired.
Resumes(j) == job[j].on # None /\ job'[j].on = None

AcquirerUsesEvidence ==
    [][\A j \in Job : Resumes(j) /\ job[j].own = "led" /\ job[j].kind = "S"
                          => job'[j].pc = "finish"]_vars

\* docs/security.md: after an operator-driven change, evict_domain makes the
\* process observe the new state.  So a call started after the eviction is
\* never given evidence of an older version.
EvictionObserved ==
    \A c \in Caller : Is(caller[c].res) => caller[c].res.ver >= caller[c].need

=============================================================================
