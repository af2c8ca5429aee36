---------------------------- MODULE MCConcurrency ----------------------------
(***************************************************************************)
(* What must eventually happen, and the two helpers by which a             *)
(* verification runs things side by side, in small instances.  `part` says *)
(* which one a behaviour is about; the others stay in an initial state.    *)
(*   "branches"  every pair of branches of run_concurrently                *)
(*   "tasks"     every pair of branches of async_run_concurrently          *)
(*   "pool"      two loops and two callers that shut the pool down         *)
(*   "faulty"    the same with loops on which closing fails                *)
(*   "rotation"  rotations with two faults and a truthful registry         *)
(*   "threads"   two synchronous calls of a domain verification            *)
(*   "loop"      two asynchronous ones, with a changing identity           *)
(*   "evidence"  one verification of a domain's identity                   *)
(*   "file"      two processes on one key file in the old format           *)
(***************************************************************************)
EXTENDS Branches, Naturals

CONSTANTS
    k0, k1, k2, p1, p2, c1, c2, nil, Failed, NotActive,
    PoolLoop, PoolCaller, MaxCancels  \* of the client pool

VARIABLES
    part,
    tplan, task, outcome, tcancel, tlate, asked, fault, waiter, tresult,
    faulty, client, closed, pclosing, running, pcall, closes, cancels,
    store, provider, saved, held, lastError, signing, pc, work, received, stream, published,
    generated, rfaults,
    world, cache, stamp, slot, job, verifier, calls, faults, closing, floor, evicted,
    now, log, height, ku, su, withdrawn, trust, ecache, entity, load, step, dnsAt, fetched,
    status, boundAt, begun, used, granted,
    file, durable, lock, snap, fjob, promised, removed, stored, crashes

branchVars == <<plan, pri, sec, future, cancel, late, caller, result>>
taskVars == <<tplan, task, outcome, tcancel, tlate, asked, fault, waiter, tresult>>
poolVars == <<faulty, client, closed, pclosing, running, pcall, closes, cancels>>
rotationVars == <<store, provider, saved, held, lastError, signing, pc, work, received, stream,
                  published, generated, rfaults>>
domainVars == <<world, cache, stamp, slot, job, verifier, calls, faults, closing, floor, evicted>>
evidenceVars == <<now, log, height, ku, su, withdrawn, trust, ecache, entity, load, step, dnsAt,
                  fetched, status, boundAt, begun, used, granted>>
fileVars == <<file, durable, lock, snap, fjob, promised, removed, stored, crashes>>
all == <<part, branchVars, taskVars, poolVars, rotationVars, domainVars, evidenceVars, fileVars>>

Two == {c1, c2}
Keys == {k0, k1, k2}
Places == {p1, p2}
\* Each of two calls has at most one job, and a status refresh another one.
Jobs == 1..4
Both == {k1, k2}
Sync == {"sync"}
Async == {"async"}
LongTtl == {"positive"}
AllTtls == {"zero", "positive"}
Nobody == {}
OneKey == {k1}
FlatFile == {"flat"}
OnePlan == [keys |-> Both, threads |-> Nobody, tasks |-> Nobody, ttl |-> 1, maxAge |-> 2,
            fresh |-> 0, life |-> 1, dnssec |-> "REQUIRED"]

Tasks == INSTANCE AsyncBranches WITH
    plan <- tplan, cancel <- tcancel, late <- tlate, caller <- waiter, result <- tresult

Pool == INSTANCE ClientPool WITH
    Loop <- PoolLoop, Caller <- PoolCaller,
    future <- closed, closing <- pclosing, call <- pcall

Rotation == INSTANCE KeyRotation WITH
    Key <- Keys, Provider <- Places, Home <- p1, InitKey <- k0, HonestRegistry <- TRUE,
    RefusesCalls <- FALSE, MaxFaults <- 2, None <- nil,
    durable <- saved, log <- stream, used <- generated, faults <- rfaults

Threads == INSTANCE DomainVerification WITH
    Caller <- Two, Job <- Jobs, Styles <- Sync, Ttls <- LongTtl, Workers <- 1, MaxFaults <- 1,
    MaxCalls <- 2, MaxVersion <- 0, None <- nil, caller <- verifier
Loop == INSTANCE DomainVerification WITH
    Caller <- Two, Job <- Jobs, Styles <- Async, Ttls <- AllTtls, Workers <- 1, MaxFaults <- 0,
    MaxCalls <- 2, MaxVersion <- 1, None <- nil, caller <- verifier

Evidence == INSTANCE IdentityEvidence WITH
    plan <- OnePlan, CertEnd <- 3, MaxTime <- 1, MaxLog <- 1, None <- nil, cache <- ecache

File == INSTANCE KeyFile WITH
    Proc <- Places, Key <- OneKey, Old <- k0, InitialFile <- FlatFile, MaxCrashes <- 1,
    job <- fjob

ASSUME ConcurrencyInstances ==
    /\ Tasks!PlanAssumption /\ Pool!PoolAssumption
    /\ Evidence!EvidenceAssumption /\ Evidence!IsPlan(OnePlan)

-----------------------------------------------------------------------------

MCInit ==
    /\ part \in {"branches", "tasks", "pool", "faulty", "rotation", "threads", "loop", "evidence",
                 "file"}
    /\ Init /\ (part # "branches" => \A b \in DOMAIN plan : plan[b] = "ok")
    /\ Tasks!Init /\ (part # "tasks" => \A b \in DOMAIN tplan : tplan[b] = "ok")
    /\ Pool!Init /\ (part # "faulty" => faulty = {})
    /\ Rotation!Init /\ (part # "rotation" => generated = {k0})
    /\ Threads!Init
    /\ Evidence!Init /\ (part # "evidence" => ku = k1)
    /\ File!Init

OfBranches(A) ==
    /\ part = "branches" /\ A
    /\ UNCHANGED <<part, taskVars, poolVars, rotationVars, domainVars, evidenceVars, fileVars>>
OfTasks(A) ==
    /\ part = "tasks" /\ A
    /\ UNCHANGED <<part, branchVars, poolVars, rotationVars, domainVars, evidenceVars, fileVars>>
OfPool(parts, A) ==
    /\ part \in parts /\ A
    /\ UNCHANGED <<part, branchVars, taskVars, rotationVars, domainVars, evidenceVars, fileVars>>
OfRotation(A) ==
    /\ part = "rotation" /\ A
    /\ UNCHANGED <<part, branchVars, taskVars, poolVars, domainVars, evidenceVars, fileVars>>
OfDomain(p, A) ==
    /\ part = p /\ A
    /\ UNCHANGED <<part, branchVars, taskVars, poolVars, rotationVars, evidenceVars, fileVars>>
OfEvidence(A) ==
    /\ part = "evidence" /\ A
    /\ UNCHANGED <<part, branchVars, taskVars, poolVars, rotationVars, domainVars, fileVars>>
OfFile(A) ==
    /\ part = "file" /\ A
    /\ UNCHANGED <<part, branchVars, taskVars, poolVars, rotationVars, domainVars, evidenceVars>>

MCNext ==
    \/ OfBranches(Next)
    \/ OfTasks(Tasks!Next)
    \/ OfPool({"pool", "faulty"}, Pool!Next)
    \/ OfRotation(Rotation!Next)
    \/ OfDomain("threads", Threads!Next) \/ OfDomain("loop", Loop!Next)
    \/ OfEvidence(Evidence!Next)
    \/ OfFile(File!Next)

\* Threads and tasks that can take a step take one: executors, event loops and
\* the operating system see to that.  A caller whose shutdown was cancelled or
\* refused asks again; the owner of a saved rotation resumes it; the log
\* appends and the domain publishes.  Only one part is at work, so a condition
\* may serve an actor of each part.
Actor(i) ==
    LET c == <<c1, c2>>[i]  p == <<p1, p2>>[i]
    IN  \/ OfBranches(IF i = 1 THEN Secondary ELSE Primary)
        \/ OfTasks(Tasks!Run(<<"primary", "secondary">>[i]))
        \/ OfPool({"pool"}, Pool!CloseClient(p))
        \/ OfRotation(IF i = 1 THEN Rotation!CallStep ELSE Rotation!AppendSome)
        \/ OfDomain("threads", Threads!CallerStep(c)) \/ OfDomain("loop", Loop!CallerStep(c))
        \/ OfEvidence(IF i = 1 THEN Evidence!Verification ELSE Evidence!Loading("V"))
        \/ OfFile(File!Work(p))

Other(i) ==
    \/ OfDomain("threads", Threads!JobStep(i)) \/ OfDomain("loop", Loop!JobStep(i))
    \/ OfBranches(CASE i = 1 -> SettleFuture [] i = 2 -> Caught [] i = 3 -> Settle
                     [] OTHER -> Wait)
    \/ OfTasks(CASE i = 1 -> Tasks!StartTask [] i = 2 -> Tasks!Wait [] i = 3 -> Tasks!Gather
                  [] OTHER -> FALSE)
    \/ OfPool({"pool"},
              \/ i <= 2 /\ Pool!AcloseReturns(<<c1, c2>>[i])
              \/ i \in {3, 4} /\ LET c == <<c1, c2>>[i - 2]
                                IN  pcall[c] \in {"cancelled", "refused"} /\ Pool!Aclose(c))
    \/ OfRotation(CASE i = 1 -> Rotation!ResumeSaved [] i = 2 -> Rotation!Publish(Rotation!LogKey)
                     [] OTHER -> FALSE)

\* flock serves every waiter.
MCFairness ==
    /\ \A i \in 1..2 : WF_all(Actor(i))
    /\ \A i \in Jobs : WF_all(Other(i))
    /\ WF_all(OfDomain("threads", Threads!Drained) \/ OfDomain("loop", Loop!Drained))
    /\ \A p \in Places : SF_all(OfFile(File!Acquire(p)))

MCSpec == MCInit /\ [][MCNext]_all /\ MCFairness

-----------------------------------------------------------------------------

\* async_run_concurrently keeps the promise of BranchContract.  When it is over
\* so are both tasks, and what they found is what the caller gets: a failure is
\* never traded for a cancellation or for a spent budget.
TasksKeepContract ==
    /\ Tasks!RefinesContract
    /\ [](Tasks!TypeOK /\ Tasks!NothingLost)

\* Once any shutdown of the client pool has returned normally, no client is open
\* and none will be, whatever the other callers and loops were doing; and however
\* many callers shut the pool down, are cancelled and ask again, no client is
\* closed twice, also if closing one fails (_async_client_pool.py).
ClosedOnceForGood ==
    /\ Pool!TypeOK
    /\ Pool!ClosedForGood
    /\ Pool!ClosedOnce

\* A branch failed, or the task that called async_run_concurrently was cancelled.
BranchFailed ==
    \/ part = "branches" /\ (pri = "error" \/ sec = "error")
    \/ part = "tasks" /\ ((\E b \in DOMAIN task : Tasks!Definitive(b)) \/ "yes" \in {asked, fault})
BothReleased == IF part = "tasks" THEN waiter = "done" ELSE caller = "done" /\ future = "settled"

\* Callers are interchangeable, so one of them is watched.
Waiting ==
    \/ part = "pool" /\ pcall[c1] = "waiting"
    \/ verifier[c1].pc # "idle"
    \/ step = "dns"
    \/ fjob[p1] # File!Idle
Returned ==
    CASE part = "pool" -> pcall[c1] = "closed"
      [] part = "evidence" -> step \in {"accepted", "failed"}
      [] part = "file" -> fjob[p1] = File!Idle
      [] OTHER -> verifier[c1].pc = "idle"

\* Every call returns, whatever fails, dies or is cancelled around it: a shutdown
\* of the client pool, asked for again after a cancelled wait; a verification
\* call, with as few workers as one; the verification of an identity, whatever
\* its branches meet; an operation on the key file, also after the death of the
\* lock's holder; a close of the manager (aclose).  A branch that fails ends the
\* other, even one that would run until its budget is gone, and the call, without
\* help from the deadline.
CallsReturn ==
    /\ Waiting ~> Returned
    /\ BranchFailed ~> BothReleased
    /\ (closing = "closing") ~> (closing = "closed")

\* Signing that was paused for a rotation resumes, whatever crashed or was lost
\* on the way, and with a truthful registry a saved rotation ends completed
\* (resume_key_rotation).
RotationsComplete == Rotation!SigningResumes /\ Rotation!SavedRotationCompletes

===============================================================================
