----------------------------- MODULE AsyncBranches -----------------------------
(***************************************************************************)
(* async_run_concurrently (dnsid/_verification_budget.py): the same two    *)
(* branches as tasks of one event loop, whose caller may be cancelled at   *)
(* any await.                                                              *)
(***************************************************************************)
CONSTANT Plan  \* what a branch does if nobody interrupts it

\* What the constants must be.
PlanAssumption == Plan \subseteq {"ok", "error", "hang"}

Branch == {"primary", "secondary"}

VARIABLES
    plan,      \* the plan of each branch
    task,      \* "none", "running" (or not yet run), "cancelling" or "done"
    outcome,   \* of a done task, else "none"
    cancel,    \* the flag both budgets watch
    late,      \* the invocation's deadline passed
    asked,     \* the caller's own task was asked to stop
    fault,     \* creating a task failed
    caller,    \* "primary" or "secondary" to start, "wait", "gather" or "done"
    result

vars == <<plan, task, outcome, cancel, late, asked, fault, caller, result>>

Init ==
    /\ plan \in [Branch -> Plan]
    /\ task = [b \in Branch |-> "none"]
    /\ outcome = [b \in Branch |-> "none"]
    /\ cancel = "clear"
    /\ late = "no"
    /\ asked = "no"
    /\ fault = "no"
    /\ caller = "primary"
    /\ result = "none"

Exhausted == late = "yes" \/ cancel = "set"

\* create_task, for one branch after the other.
StartTask ==
    /\ caller \in Branch
    /\ task' = [task EXCEPT ![caller] = "running"]
    /\ caller' = IF caller = "primary" THEN "secondary" ELSE "wait"
    /\ UNCHANGED <<plan, outcome, cancel, late, asked, fault, result>>

\* The finally block: every task that is not done is cancelled, and all are
\* waited for.
CleanUp(t) ==
    /\ cancel' = IF \E b \in Branch : t[b] = "running" THEN "set" ELSE cancel
    /\ task' = [b \in Branch |-> IF t[b] = "running" THEN "cancelling" ELSE t[b]]
    /\ caller' = "gather"

StartFails ==
    /\ caller \in Branch
    /\ fault' = "yes"
    /\ CleanUp(task)
    /\ UNCHANGED <<plan, outcome, late, asked, result>>

\* How the body of a branch ends.  Cancelled work may still deliver the
\* failure it had met; a task cancelled before its first step does nothing.
Outcomes(b) ==
    IF fault = "yes" THEN {"cancelled"} ELSE
    (IF plan[b] = "error" THEN {"error"} ELSE {})
    \cup (IF task[b] = "cancelling" THEN {"cancelled"} ELSE {})
    \cup (IF Exhausted THEN {"exhausted"}
          ELSE IF plan[b] = "ok" THEN {"ok"} ELSE {})

\* guarded, to its end: anything but success sets the flag.  No task runs
\* before the caller's first await.
Run(b) ==
    /\ caller \notin Branch
    /\ task[b] \in {"running", "cancelling"}
    /\ \E o \in Outcomes(b) :
          /\ outcome' = [outcome EXCEPT ![b] = o]
          /\ cancel' = IF o = "ok" THEN cancel ELSE "set"
    /\ task' = [task EXCEPT ![b] = "done"]
    /\ UNCHANGED <<plan, late, asked, fault, caller, result>>

Done(b) == task[b] = "done"

\* asyncio.wait until both are done, one has failed, or it is cancelled.
Wait ==
    /\ caller = "wait"
    /\ \/ \E b \in Branch : Done(b) /\ outcome[b] # "ok"
       \/ \A b \in Branch : Done(b)
       \/ asked = "yes"
    /\ CleanUp(task)
    /\ UNCHANGED <<plan, outcome, late, asked, fault, result>>

Definitive(b) == outcome[b] = "error"

\* With no failure and nobody cancelled: the first branch that has no result.
Leftover ==
    IF outcome["primary"] # "ok" THEN outcome["primary"]
    ELSE outcome["secondary"]

\* Mutant: the secondary's failure is looked at first.
VerdictSwapped ==
    IF fault = "yes" THEN "fault"
    ELSE IF Definitive("secondary") THEN "secondary"
    ELSE IF Definitive("primary") THEN "primary"
    ELSE IF asked = "yes" THEN "cancelled" ELSE Leftover

\* What is raised or returned once both tasks are done.
Verdict ==
    IF fault = "yes" THEN "fault"
    ELSE IF Definitive("primary") THEN "primary"
    ELSE IF Definitive("secondary") THEN "secondary"
    ELSE IF asked = "yes" THEN "cancelled" ELSE Leftover

Gather ==
    /\ caller = "gather"
    /\ \A b \in Branch : task[b] \in {"none", "done"}
    /\ result' = Verdict
    /\ caller' = "done"
    /\ UNCHANGED <<plan, task, outcome, cancel, late, asked, fault>>

\* The caller's task is cancelled, at an await.  While it gathers, the tasks
\* are cancelled again and still waited for.
Ask ==
    /\ caller \in {"wait", "gather"}
    /\ asked = "no" /\ asked' = "yes"
    /\ UNCHANGED <<plan, task, outcome, cancel, late, fault, caller, result>>

Late ==
    /\ late = "no" /\ late' = "yes"
    /\ UNCHANGED <<plan, task, outcome, cancel, asked, fault, caller, result>>

Next ==
    \/ StartTask \/ StartFails \/ Wait \/ Gather \/ Ask \/ Late
    \/ \E b \in Branch : Run(b)

Spec == Init /\ [][Next]_vars

-----------------------------------------------------------------------------

TypeOK ==
    /\ plan \in [Branch -> Plan]
    /\ task \in [Branch -> {"none", "running", "cancelling", "done"}]
    /\ outcome \in [Branch -> {"none", "ok", "error", "exhausted", "cancelled"}]
    /\ cancel \in {"clear", "set"}
    /\ {late, asked, fault} \subseteq {"no", "yes"}
    /\ caller \in Branch \cup {"wait", "gather", "done"}
    /\ result \in IF caller # "done" THEN {"none"}
                  ELSE {"ok", "primary", "secondary", "exhausted", "cancelled", "fault"}

\* When the call is over so are both tasks, and what they found is what the
\* caller gets: a failure is never traded for the caller's cancellation or
\* for a spent budget, the primary's comes first, and neither is invented.
NothingLost ==
    result # "none" =>
        /\ \A b \in Branch : task[b] \in {"none", "done"}
        /\ result \in {"primary", "secondary"} => Definitive(result)
        /\ result \in {"secondary", "exhausted", "cancelled"} => ~Definitive("primary")
        /\ result \in {"exhausted", "cancelled"} => ~Definitive("secondary")
        /\ result = "exhausted" => late = "yes"
        /\ result = "cancelled" => "yes" \in {asked, late}

\* async_run_concurrently keeps the promise of BranchContract.  A caller that
\* is cancelled, and one that cannot start its tasks, are interrupted.
Seen(b) ==
    IF ~Done(b) THEN "running"
    ELSE IF outcome[b] = "cancelled" THEN "exhausted" ELSE outcome[b]

Contract == INSTANCE BranchContract
    WITH primary <- Seen("primary"), secondary <- Seen("secondary"),
         interrupted <- IF "yes" \in {late, asked, fault} THEN "yes" ELSE "no",
         result <- IF result \in {"cancelled", "fault"} THEN "exhausted" ELSE result

RefinesContract == Contract!Spec

===============================================================================
