--------------------------- MODULE ConcurrencyProofs ---------------------------
(***************************************************************************)
(* The two helpers by which a verification runs things side by side mask   *)
(* no failure and keep the promise of BranchContract, for every plan of    *)
(* the branches and every interleaving of them with the flag, the          *)
(* deadline and cancellations; and the pool of HTTP clients shuts down for *)
(* good, for any number of event loops, of callers and of cancelled waits. *)
(***************************************************************************)
EXTENDS MCConcurrency, TLAPS

-----------------------------------------------------------------------------
(* run_concurrently                                                        *)

\* Where the caller is tells what it knows of the primary.
CallerKnows ==
    /\ caller = "primary" => pri = "running"
    /\ caller = "caught" => pri \in {"error", "exhausted"}
    /\ caller = "settle" => pri = "exhausted"
    /\ caller = "wait" => pri = "ok"
    /\ future = "settled" => sec # "running"

\* Who set the flag, and who ran out of budget, can be traced to a failure or to
\* the end of the whole invocation.
Traced ==
    /\ sec = "error" => cancel = "set"
    /\ cancel = "set" => late = "yes" \/ sec = "error" \/ pri = "error"
    /\ sec = "exhausted" => late = "yes" \/ pri = "error"
    /\ pri = "exhausted" => late = "yes" \/ sec = "error"

IInv == TypeOK /\ CallerKnows /\ Traced /\ NoFailureMasked

\* Nothing has happened yet.
LEMMA InitIInv == Init => IInv
  BY DEF Init, IInv, TypeOK, CallerKnows, Traced, NoFailureMasked

\* Every step of the two threads and of the deadline keeps the flag traceable.
LEMMA NextIInv == IInv /\ [Next]_vars => IInv'
  <1> SUFFICES ASSUME IInv, [Next]_vars PROVE IInv'  OBVIOUS
  <1> USE DEF IInv, TypeOK, CallerKnows, Traced, NoFailureMasked
  <1>1. CASE Secondary  BY <1>1 DEF Secondary, Outcomes, Exhausted
  <1>2. CASE SettleFuture  BY <1>2 DEF SettleFuture
  <1>3. CASE Primary  BY <1>3 DEF Primary, Outcomes, Exhausted
  <1>4. CASE Caught  BY <1>4 DEF Caught
  <1>5. CASE Settle  BY <1>5 DEF Settle
  <1>6. CASE Wait  BY <1>6 DEF Wait
  <1>7. CASE Late  BY <1>7 DEF Late
  <1>8. CASE UNCHANGED vars  BY <1>8 DEF vars
  <1> QED  BY <1>1, <1>2, <1>3, <1>4, <1>5, <1>6, <1>7, <1>8 DEF Next

\* An exhausted budget is reported only when the whole invocation was
\* interrupted.
THEOREM FailuresAreReported == Spec => []NoFailureMasked
  <1>1. IInv => NoFailureMasked  BY DEF IInv
  <1> QED  BY InitIInv, NextIInv, <1>1, PTL DEF Spec

\* run_concurrently implements the contract of concurrent branches.
THEOREM BranchesKeepContract == Spec => RefinesContract
  <1>1. Init => Contract!Init  BY DEF Init, Contract!Init
  <1>2. ASSUME IInv, [Next]_vars PROVE [Contract!Next]_(Contract!vars)
    <2> USE <1>2 DEF IInv, TypeOK, CallerKnows, Traced
    <2>1. CASE Secondary
      BY <2>1 DEF Secondary, Outcomes, Exhausted, Contract!vars
    <2>2. CASE SettleFuture
      BY <2>2 DEF SettleFuture, Contract!Next, Contract!SettleSecondary, Contract!Settled
    <2>3. CASE Primary
      BY <2>3 DEF Primary, Outcomes, Exhausted, Contract!Next, Contract!SettlePrimary,
                  Contract!Settled
    <2>4. CASE Caught
      BY <2>4 DEF Caught, Contract!Next, Contract!Return, Contract!vars
    <2>5. CASE Settle
      BY <2>5 DEF Settle, Contract!Next, Contract!Return
    <2>6. CASE Wait
      BY <2>6 DEF Wait, Contract!Next, Contract!Return
    <2>7. CASE Late
      BY <2>7 DEF Late, Contract!Next, Contract!Interrupt
    <2>8. CASE UNCHANGED vars  BY <2>8 DEF vars, Contract!vars
    <2> QED  BY <2>1, <2>2, <2>3, <2>4, <2>5, <2>6, <2>7, <2>8 DEF Next
  <1> QED  BY InitIInv, NextIInv, <1>1, <1>2, PTL
           DEF Spec, RefinesContract, Contract!Spec

-----------------------------------------------------------------------------
(* async_run_concurrently                                                  *)

\* A task is started before the caller waits, is cancelled only in the clean-up,
\* and has an outcome when it is done.
TaskOrder ==
    /\ \A b \in Tasks!Branch : task[b] = "done" <=> outcome[b] # "none"
    /\ waiter = "primary" => task["primary"] = "none"
    /\ waiter = "secondary" => task["primary"] = "running"
    /\ waiter \in Tasks!Branch =>
          /\ task["secondary"] = "none" /\ asked = "no" /\ fault = "no"
    /\ fault = "yes" => waiter \in {"gather", "done"}
    /\ fault = "yes" => \A b \in Tasks!Branch : outcome[b] \in {"none", "cancelled"}
    /\ fault = "no" /\ waiter \notin Tasks!Branch => \A b \in Tasks!Branch : task[b] # "none"
    /\ waiter = "wait" => \A b \in Tasks!Branch : task[b] # "cancelling"
    /\ waiter \in {"gather", "done"} => \A b \in Tasks!Branch : task[b] # "running"
    /\ waiter = "done" => \A b \in Tasks!Branch : task[b] \in {"none", "done"}

\* Whatever ended a branch early goes back to a failure, to the deadline or to
\* the caller.
Cause == "yes" \in {tlate, asked, fault} \/ \E b \in Tasks!Branch : outcome[b] = "error"
TaskTraced ==
    /\ tcancel = "set" => Cause
    /\ \A b \in Tasks!Branch : task[b] = "cancelling" => Cause
    /\ \A b \in Tasks!Branch : outcome[b] \in {"exhausted", "cancelled"} => Cause

TaskInv == Tasks!TypeOK /\ TaskOrder /\ TaskTraced /\ Tasks!NothingLost

\* No task exists yet.
LEMMA InitTaskInv == Tasks!Init => TaskInv
  <1> SUFFICES ASSUME Tasks!Init PROVE TaskInv  OBVIOUS
  <1>1. Tasks!TypeOK  BY DEF Tasks!Init, Tasks!TypeOK, Tasks!Branch
  <1>2. TaskOrder  BY DEF Tasks!Init, TaskOrder, Tasks!Branch
  <1>3. TaskTraced  BY DEF Tasks!Init, TaskTraced
  <1> QED  BY <1>1, <1>2, <1>3 DEF Tasks!Init, TaskInv, Tasks!NothingLost

\* The clean-up leaves the finished tasks alone and cancels the others.
LEMMA CleanUpFacts ==
    ASSUME TaskInv, Tasks!CleanUp(task)
    PROVE  /\ waiter' = "gather" /\ tcancel' \in {"clear", "set"}
           /\ task' \in [Tasks!Branch -> {"none", "running", "cancelling", "done"}]
           /\ \A b \in Tasks!Branch : /\ task'[b] # "running"
                                      /\ task'[b] \in {"none", "done"} <=> task[b] \in {"none", "done"}
                                      /\ task'[b] = "none" <=> task[b] = "none"
                                      /\ task'[b] = "done" <=> task[b] = "done"
  <1>1. /\ task \in [Tasks!Branch -> {"none", "running", "cancelling", "done"}]
        /\ tcancel \in {"clear", "set"}
    BY DEF TaskInv, Tasks!TypeOK
  <1>2. waiter' = "gather" /\ tcancel' \in {"clear", "set"}
    BY <1>1 DEF Tasks!CleanUp
  <1>3. task' = [b \in Tasks!Branch |-> IF task[b] = "running" THEN "cancelling" ELSE task[b]]
    BY DEF Tasks!CleanUp
  <1> QED  BY <1>1, <1>2, <1>3

\* A step of either task, of their caller, of its canceller or of the clock keeps
\* the order of the tasks and leaves every early end traceable.
LEMMA NextTaskInv == TaskInv /\ [Tasks!Next]_(Tasks!vars) => TaskInv'
  <1> SUFFICES ASSUME TaskInv, [Tasks!Next]_(Tasks!vars) PROVE TaskInv'  OBVIOUS
  <1>1. CASE Tasks!StartTask
    <2> USE DEF TaskInv
    <2>1. /\ waiter \in Tasks!Branch /\ task' = [task EXCEPT ![waiter] = "running"]
          /\ waiter' = IF waiter = "primary" THEN "secondary" ELSE "wait"
          /\ UNCHANGED <<tplan, outcome, tcancel, tlate, asked, fault, tresult>>
      BY <1>1 DEF Tasks!StartTask
    <2>2. tresult = "none"  BY <2>1 DEF Tasks!TypeOK, Tasks!Branch
    <2>3. Tasks!TypeOK'  BY <2>1, <2>2 DEF Tasks!TypeOK, Tasks!Branch
    <2>4. TaskOrder'
      <3>1. waiter = "primary" \/ waiter = "secondary"  BY <2>1 DEF Tasks!Branch
      <3>2. CASE waiter = "primary"
        BY <2>1, <3>2 DEF Tasks!TypeOK, TaskOrder, Tasks!Branch
      <3>3. CASE waiter = "secondary"
        <4>1. /\ task["primary"] = "running" /\ task' = [task EXCEPT !["secondary"] = "running"]
              /\ fault' = "no" /\ waiter' = "wait"
          BY <2>1, <3>3 DEF TaskOrder, Tasks!Branch
        <4> QED  BY <2>1, <4>1 DEF Tasks!TypeOK, TaskOrder, Tasks!Branch
      <3> QED  BY <3>1, <3>2, <3>3
    <2>5. TaskTraced'  BY <2>1 DEF Tasks!TypeOK, TaskTraced, Cause
    <2> QED  BY <2>1, <2>2, <2>3, <2>4, <2>5 DEF Tasks!NothingLost
  <1>2. CASE Tasks!StartFails
    BY <1>2, CleanUpFacts
       DEF Tasks!StartFails, Tasks!Branch, TaskInv, Tasks!TypeOK, TaskOrder, TaskTraced, Cause,
           Tasks!NothingLost, Tasks!Definitive
  <1>3. ASSUME NEW b \in Tasks!Branch, Tasks!Run(b) PROVE TaskInv'
    <2> USE DEF TaskInv
    <2> PICK o \in Tasks!Outcomes(b) :
                /\ outcome' = [outcome EXCEPT ![b] = o]
                /\ tcancel' = IF o = "ok" THEN tcancel ELSE "set"
      BY <1>3 DEF Tasks!Run
    <2>1. /\ waiter \notin Tasks!Branch /\ task[b] \in {"running", "cancelling"}
          /\ task' = [task EXCEPT ![b] = "done"]
          /\ UNCHANGED <<tplan, tlate, asked, fault, waiter, tresult>>
      BY <1>3 DEF Tasks!Run
    <2>2. /\ o \in {"ok", "error", "exhausted", "cancelled"}
          /\ fault = "yes" => o = "cancelled"
          /\ o \in {"exhausted", "cancelled"} => Cause
      BY <2>1 DEF Tasks!Outcomes, Tasks!Exhausted, TaskTraced, Cause
    <2>3. Tasks!TypeOK'  BY <2>1, <2>2 DEF Tasks!TypeOK
    <2>4. TaskOrder'  BY <2>1, <2>2 DEF Tasks!TypeOK, TaskOrder, Tasks!Branch
    <2>5. Cause => Cause'
      BY <2>1 DEF Tasks!TypeOK, TaskOrder, Cause
    <2>6. o = "error" => Cause'  BY DEF Tasks!TypeOK, Cause
    <2>7. TaskTraced'  BY <2>1, <2>2, <2>5, <2>6 DEF Tasks!TypeOK, TaskTraced
    <2>8. tresult = "none"  BY <2>1 DEF Tasks!TypeOK, TaskOrder
    <2> QED  BY <2>1, <2>3, <2>4, <2>7, <2>8 DEF Tasks!NothingLost
  <1>4. CASE Tasks!Wait
    <2> USE DEF TaskInv
    <2>1. /\ waiter = "wait" /\ Tasks!CleanUp(task)
          /\ UNCHANGED <<tplan, outcome, tlate, asked, fault, tresult>>
      BY <1>4 DEF Tasks!Wait
    <2>2. tresult = "none"  BY <2>1 DEF Tasks!TypeOK, Tasks!Branch
    <2>3. Tasks!TypeOK'  BY <2>1, <2>2, CleanUpFacts DEF Tasks!TypeOK
    <2>4. TaskOrder'  BY <2>1, CleanUpFacts DEF TaskOrder, Tasks!Branch, Tasks!TypeOK
    <2>5. Cause \/ \A b \in Tasks!Branch : task[b] = "done"
      BY <1>4 DEF Tasks!Wait, Tasks!Done, TaskOrder, TaskTraced, Cause, Tasks!TypeOK
    <2>6. Cause' <=> Cause  BY <2>1 DEF Cause
    <2>7. TaskTraced'
      <3>1. CASE Cause  BY <2>1, <2>6, <3>1 DEF TaskTraced
      <3>2. CASE \A b \in Tasks!Branch : task[b] = "done"
        <4>1. tcancel' = tcancel /\ \A b \in Tasks!Branch : task'[b] = "done"
          BY <2>1, <3>2 DEF Tasks!CleanUp
        <4> QED  BY <2>1, <2>6, <4>1 DEF TaskTraced
      <3> QED  BY <2>5, <3>1, <3>2
    <2> QED  BY <2>1, <2>2, <2>3, <2>4, <2>7 DEF Tasks!NothingLost
  <1>5. CASE Tasks!Gather
    BY <1>5 DEF Tasks!Gather, Tasks!Verdict, Tasks!Leftover, Tasks!Branch, TaskInv, Tasks!TypeOK,
           TaskOrder, TaskTraced, Cause, Tasks!NothingLost, Tasks!Definitive
  <1>6. CASE Tasks!Ask
    BY <1>6 DEF Tasks!Ask, Tasks!Branch, TaskInv, Tasks!TypeOK, TaskOrder, TaskTraced, Cause,
           Tasks!NothingLost, Tasks!Definitive
  <1>7. CASE Tasks!Late
    BY <1>7 DEF Tasks!Late, Tasks!Branch, TaskInv, Tasks!TypeOK, TaskOrder, TaskTraced, Cause,
           Tasks!NothingLost, Tasks!Definitive
  <1>8. CASE UNCHANGED Tasks!vars
    BY <1>8 DEF Tasks!vars, Tasks!Branch, TaskInv, Tasks!TypeOK, TaskOrder, TaskTraced, Cause,
           Tasks!NothingLost, Tasks!Definitive
  <1> QED  BY <1>1, <1>2, <1>3, <1>4, <1>5, <1>6, <1>7, <1>8 DEF Tasks!Next

\* What a step of the tasks is to the contract.
LEMMA TasksImplement ==
    ASSUME TaskInv, [Tasks!Next]_(Tasks!vars)
    PROVE  [Tasks!Contract!Next]_(Tasks!Contract!vars)
  <1> USE DEF TaskInv
  <1>1. CASE Tasks!StartTask
    <2>1. task["primary"] # "done" /\ task["secondary"] # "done"
      BY <1>1 DEF Tasks!StartTask, TaskOrder, Tasks!Branch
    <2>2. task' = [task EXCEPT ![waiter] = "running"] /\ waiter \in Tasks!Branch
      BY <1>1 DEF Tasks!StartTask
    <2>3. task'["primary"] # "done" /\ task'["secondary"] # "done"
      BY <2>1, <2>2 DEF Tasks!TypeOK, Tasks!Branch
    <2> QED  BY <1>1, <2>1, <2>3 DEF Tasks!StartTask, Tasks!Contract!vars, Tasks!Seen, Tasks!Done
  <1>2. CASE Tasks!StartFails
    <2>1. UNCHANGED <<Tasks!Seen("primary"), Tasks!Seen("secondary"), tresult>> /\ fault' = "yes"
      BY <1>2, CleanUpFacts DEF Tasks!StartFails, Tasks!Seen, Tasks!Done, Tasks!Branch
    <2>2. UNCHANGED <<tlate, asked>>  BY <1>2 DEF Tasks!StartFails
    <2> QED  BY <2>1, <2>2 DEF Tasks!Contract!Next, Tasks!Contract!Interrupt, Tasks!Contract!vars
  <1>3. ASSUME NEW b \in Tasks!Branch, Tasks!Run(b)
        PROVE  [Tasks!Contract!Next]_(Tasks!Contract!vars)
    <2>1. /\ Tasks!Seen(b) = "running" /\ Tasks!Seen(b)' \in Tasks!Contract!Settled
          /\ \A c \in Tasks!Branch : c # b => Tasks!Seen(c)' = Tasks!Seen(c)
          /\ UNCHANGED <<tlate, asked, fault, tresult>>
      BY <1>3 DEF Tasks!Run, Tasks!Outcomes, Tasks!TypeOK, Tasks!Seen, Tasks!Done,
                  Tasks!Contract!Settled
    <2>2. CASE b = "primary"
      BY <2>1, <2>2 DEF Tasks!Branch, Tasks!Contract!Next, Tasks!Contract!SettlePrimary
    <2>3. CASE b = "secondary"
      BY <2>1, <2>3 DEF Tasks!Branch, Tasks!Contract!Next, Tasks!Contract!SettleSecondary
    <2> QED  BY <2>2, <2>3 DEF Tasks!Branch
  <1>4. CASE Tasks!Wait
    <2>1. UNCHANGED <<Tasks!Seen("primary"), Tasks!Seen("secondary"), tresult>>
      BY <1>4, CleanUpFacts DEF Tasks!Wait, Tasks!Seen, Tasks!Done, Tasks!Branch
    <2>2. UNCHANGED <<tlate, asked, fault>>  BY <1>4 DEF Tasks!Wait
    <2> QED  BY <2>1, <2>2 DEF Tasks!Contract!vars
  <1>5. CASE Tasks!Gather
    <2>1. /\ UNCHANGED <<Tasks!Seen("primary"), Tasks!Seen("secondary"), tlate, asked, fault>>
          /\ tresult = "none" /\ tresult' = Tasks!Verdict
      BY <1>5 DEF Tasks!Gather, Tasks!Seen, Tasks!Done, Tasks!TypeOK, Tasks!Branch
    <2>2. CASE fault = "yes"
      <3>1. tresult' = "fault" /\ Tasks!Seen("primary") # "error"
        BY <2>1, <2>2 DEF Tasks!Verdict, TaskOrder, Tasks!Seen, Tasks!Branch
      <3> QED
        BY <2>1, <2>2, <3>1 DEF Tasks!Contract!Next, Tasks!Contract!Return
    <2>3. CASE fault # "yes"
      <3>1. task["primary"] = "done" /\ task["secondary"] = "done"
        BY <1>5, <2>3 DEF Tasks!Gather, TaskOrder, Tasks!Branch, Tasks!TypeOK
      <3>2. /\ outcome["primary"] \in {"ok", "error", "exhausted", "cancelled"}
            /\ outcome["secondary"] \in {"ok", "error", "exhausted", "cancelled"}
        BY <3>1 DEF TaskOrder, Tasks!Branch, Tasks!TypeOK
      <3>3. /\ Tasks!Seen("primary") = "error" <=> Tasks!Definitive("primary")
            /\ Tasks!Seen("secondary") = "error" <=> Tasks!Definitive("secondary")
            /\ outcome["primary"] = "ok" => Tasks!Seen("primary") = "ok"
            /\ outcome["secondary"] = "ok" => Tasks!Seen("secondary") = "ok"
        BY <3>1, <3>2 DEF Tasks!Seen, Tasks!Done, Tasks!Definitive
      <3>4. CASE Tasks!Definitive("primary")
        BY <2>1, <2>3, <3>3, <3>4 DEF Tasks!Verdict, Tasks!Contract!Next, Tasks!Contract!Return
      <3>5. CASE ~Tasks!Definitive("primary") /\ Tasks!Definitive("secondary")
        BY <2>1, <2>3, <3>3, <3>5 DEF Tasks!Verdict, Tasks!Contract!Next, Tasks!Contract!Return
      <3>6. CASE ~Tasks!Definitive("primary") /\ ~Tasks!Definitive("secondary") /\ asked = "yes"
        BY <2>1, <2>3, <3>3, <3>6 DEF Tasks!Verdict, Tasks!Contract!Next, Tasks!Contract!Return
      <3>7. CASE ~Tasks!Definitive("primary") /\ ~Tasks!Definitive("secondary") /\ asked # "yes"
        <4>1. tresult' = Tasks!Leftover  BY <2>1, <2>3, <3>7 DEF Tasks!Verdict
        <4>2. CASE outcome["primary"] = "ok" /\ outcome["secondary"] = "ok"
          BY <2>1, <3>3, <4>1, <4>2 DEF Tasks!Leftover, Tasks!Contract!Next, Tasks!Contract!Return
        <4>3. CASE ~(outcome["primary"] = "ok" /\ outcome["secondary"] = "ok")
          <5>1. tresult' \in {"exhausted", "cancelled"}
            BY <3>2, <3>7, <4>1, <4>3 DEF Tasks!Leftover, Tasks!Definitive
          <5>2. Cause /\ tlate = "yes"
            BY <2>3, <3>2, <3>7, <4>3
               DEF TaskTraced, Cause, Tasks!Branch, Tasks!Definitive, Tasks!TypeOK
          <5> QED
            BY <2>1, <3>3, <3>7, <5>1, <5>2 DEF Tasks!Contract!Next, Tasks!Contract!Return
        <4> QED  BY <4>2, <4>3
      <3> QED  BY <3>4, <3>5, <3>6, <3>7
    <2> QED  BY <2>2, <2>3
  <1>6. CASE Tasks!Ask
    BY <1>6 DEF Tasks!Ask, Tasks!Seen, Tasks!Done, Tasks!Contract!Next, Tasks!Contract!Interrupt,
                Tasks!Contract!vars
  <1>7. CASE Tasks!Late
    BY <1>7 DEF Tasks!Late, Tasks!Seen, Tasks!Done, Tasks!Contract!Next, Tasks!Contract!Interrupt,
                Tasks!Contract!vars
  <1>8. CASE UNCHANGED Tasks!vars
    BY <1>8 DEF Tasks!vars, Tasks!Seen, Tasks!Done, Tasks!Contract!vars
  <1> QED  BY <1>1, <1>2, <1>3, <1>4, <1>5, <1>6, <1>7, <1>8 DEF Tasks!Next

\* async_run_concurrently implements the contract of concurrent branches, and
\* when it is over so are its tasks, with what they found for the caller.
THEOREM TasksHold == MCSpec => TasksKeepContract
  <1>1. MCInit => TaskInv  BY InitTaskInv DEF MCInit
  <1>2. [MCNext]_all => [Tasks!Next]_(Tasks!vars)
    BY DEF MCNext, all, OfBranches, OfTasks, OfPool, OfRotation, OfDomain, OfEvidence, OfFile,
           taskVars, Tasks!vars
  <1>3. MCInit => Tasks!Contract!Init
    BY DEF MCInit, Tasks!Init, Tasks!Contract!Init, Tasks!Seen, Tasks!Done, Tasks!Branch
  <1>4. TaskInv => Tasks!TypeOK /\ Tasks!NothingLost  BY DEF TaskInv
  <1> QED  BY <1>1, <1>2, <1>3, <1>4, NextTaskInv, TasksImplement, PTL
           DEF MCSpec, TasksKeepContract, Tasks!RefinesContract, Tasks!Contract!Spec

-----------------------------------------------------------------------------
(* The client pool                                                         *)

\* Once the pool is closing, every client that is open has its closing
\* scheduled, and only a closing pool schedules one.
CloseScheduled ==
    /\ \A l \in PoolLoop : pclosing = "yes" /\ client[l] = "open" => closed[l] \in {"pending", "failed"}
    /\ \A l \in PoolLoop : closed[l] # "none" => pclosing = "yes"
    /\ \A c \in PoolCaller : pcall[c] = "waiting" => pclosing = "yes"

\* The history of a loop's client follows its future.
CloseCounted == \A l \in PoolLoop : closes[l] = IF closed[l] \in {"ok", "failed"} THEN 1 ELSE 0

PoolInv == Pool!TypeOK /\ CloseScheduled /\ CloseCounted /\ Pool!ClosedForGood

\* The pool starts empty and open.
LEMMA InitPoolInv ==
    ASSUME Pool!PoolAssumption
    PROVE  Pool!Init => PoolInv
  BY DEF Pool!PoolAssumption, Pool!Init, PoolInv, Pool!TypeOK, CloseScheduled, CloseCounted,
         Pool!ClosedForGood, Pool!Open

\* Requests, shutdowns, closings, cancellations and stopping loops keep it.
LEMMA NextPoolInv ==
    ASSUME Pool!PoolAssumption, PoolInv, [Pool!Next]_(Pool!vars)
    PROVE  PoolInv'
  <1> USE DEF Pool!PoolAssumption, PoolInv
  <1>1. ASSUME NEW l \in PoolLoop, Pool!Get(l) PROVE PoolInv'
    <2>1. Pool!TypeOK'  BY <1>1 DEF Pool!Get, Pool!TypeOK
    <2>2. CloseScheduled' /\ CloseCounted'  BY <1>1 DEF Pool!Get, Pool!TypeOK, CloseScheduled, CloseCounted
    <2>3. Pool!ClosedForGood'  BY <1>1 DEF Pool!Get, Pool!ClosedForGood
    <2> QED  BY <2>1, <2>2, <2>3
  <1>2. ASSUME NEW c \in PoolCaller, Pool!Close(c) PROVE PoolInv'
    <2>1. Pool!TypeOK'  BY <1>2 DEF Pool!Close, Pool!TypeOK
    <2>2. CloseScheduled' /\ CloseCounted'
      BY <1>2 DEF Pool!Close, Pool!TypeOK, CloseScheduled, CloseCounted, Pool!Open
    <2>3. Pool!ClosedForGood'  BY <1>2 DEF Pool!Close, Pool!TypeOK, Pool!ClosedForGood, Pool!Open
    <2> QED  BY <2>1, <2>2, <2>3
  <1>3. ASSUME NEW c \in PoolCaller, Pool!Aclose(c) PROVE PoolInv'
    <2>1. Pool!TypeOK'  BY <1>3 DEF Pool!Aclose, Pool!TypeOK
    <2>2. CloseScheduled'  BY <1>3 DEF Pool!Aclose, Pool!TypeOK, CloseScheduled, Pool!Open
    <2>3. CloseCounted'  BY <1>3 DEF Pool!Aclose, Pool!TypeOK, CloseCounted
    <2>4. Pool!ClosedForGood'  BY <1>3 DEF Pool!Aclose, Pool!TypeOK, Pool!ClosedForGood, Pool!Open
    <2> QED  BY <2>1, <2>2, <2>3, <2>4
  <1>4. ASSUME NEW l \in PoolLoop, Pool!CloseClient(l) PROVE PoolInv'
    <2>1. Pool!TypeOK'  BY <1>4 DEF Pool!CloseClient, Pool!TypeOK
    <2>2. CloseScheduled'  BY <1>4 DEF Pool!CloseClient, Pool!TypeOK, CloseScheduled
    <2>3. CloseCounted'  BY <1>4 DEF Pool!CloseClient, Pool!TypeOK, CloseCounted
    <2>4. Pool!ClosedForGood'  BY <1>4 DEF Pool!CloseClient, Pool!TypeOK, Pool!ClosedForGood, Pool!Open
    <2> QED  BY <2>1, <2>2, <2>3, <2>4
  <1>5. ASSUME NEW c \in PoolCaller, Pool!AcloseReturns(c) PROVE PoolInv'
    <2>1. Pool!TypeOK'  BY <1>5 DEF Pool!AcloseReturns, Pool!TypeOK
    <2>2. CloseScheduled' /\ CloseCounted'
      BY <1>5 DEF Pool!AcloseReturns, Pool!TypeOK, CloseScheduled, CloseCounted
    <2>3. Pool!ClosedForGood'
      BY <1>5 DEF Pool!AcloseReturns, Pool!TypeOK, CloseScheduled, Pool!ClosedForGood, Pool!Open
    <2> QED  BY <2>1, <2>2, <2>3
  <1>6. ASSUME NEW c \in PoolCaller, Pool!CancelWait(c) PROVE PoolInv'
    <2>1. Pool!TypeOK'  BY <1>6 DEF Pool!CancelWait, Pool!TypeOK
    <2>2. CloseScheduled' /\ CloseCounted'
      BY <1>6 DEF Pool!CancelWait, Pool!TypeOK, CloseScheduled, CloseCounted
    <2>3. Pool!ClosedForGood'  BY <1>6 DEF Pool!CancelWait, Pool!TypeOK, Pool!ClosedForGood, Pool!Open
    <2> QED  BY <2>1, <2>2, <2>3
  <1>7. ASSUME NEW l \in PoolLoop, Pool!StopLoop(l) PROVE PoolInv'
    BY <1>7 DEF Pool!StopLoop, Pool!TypeOK, CloseScheduled, CloseCounted, Pool!ClosedForGood, Pool!Open
  <1>8. CASE UNCHANGED Pool!vars
    BY <1>8 DEF Pool!vars, Pool!TypeOK, CloseScheduled, CloseCounted, Pool!ClosedForGood, Pool!Open
  <1> QED  BY <1>1, <1>2, <1>3, <1>4, <1>5, <1>6, <1>7, <1>8 DEF Pool!Next

\* Once a shutdown of the pool returned normally no client is open, nor will be,
\* and none is ever closed twice, for any loops, callers and failing closings.
THEOREM PoolShutsDown == MCSpec => []ClosedOnceForGood
  <1>1. MCInit => PoolInv  BY InitPoolInv, ConcurrencyInstances DEF MCInit
  <1>2. [MCNext]_all => [Pool!Next]_(Pool!vars)
    BY DEF MCNext, all, OfBranches, OfTasks, OfPool, OfRotation, OfDomain, OfEvidence, OfFile,
           poolVars, Pool!vars
  <1>3. PoolInv /\ [Pool!Next]_(Pool!vars) => PoolInv'  BY NextPoolInv, ConcurrencyInstances
  <1>4. ASSUME PoolInv PROVE ClosedOnceForGood
    <2>1. ASSUME NEW l \in PoolLoop PROVE closes[l] <= 1
      <3>1. closes[l] = 0 \/ closes[l] = 1  BY <1>4 DEF PoolInv, CloseCounted
      <3> QED  BY <3>1
    <2> QED  BY <1>4, <2>1 DEF PoolInv, ClosedOnceForGood, Pool!ClosedOnce
  <1> QED  BY <1>1, <1>2, <1>3, <1>4, PTL DEF MCSpec

===============================================================================
