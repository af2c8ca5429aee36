------------------------------- MODULE Branches -------------------------------
(***************************************************************************)
(* run_concurrently (dnsid/_verification_budget.py): the primary branch on *)
(* the caller's thread, the secondary on a helper thread, and a flag by    *)
(* which the first to fail cancels the other through its budget.           *)
(***************************************************************************)
CONSTANT Plan  \* what a branch does if nobody interrupts it

ASSUME PlanAssumption == Plan \subseteq {"ok", "error", "hang"}

VARIABLES
    plan,    \* the plan of each branch
    pri,     \* outcome of the primary, "running" until it has one
    sec,     \* outcome of the secondary, which is raised first ...
    future,  \* ... and visible to the caller once its future is settled
    cancel,  \* the flag
    late,    \* the invocation's deadline passed, or its parent was cancelled
    caller,  \* where the caller is: "primary", "caught", "settle", "wait", "done"
    result

vars == <<plan, pri, sec, future, cancel, late, caller, result>>

Init ==
    /\ plan \in [{"primary", "secondary"} -> Plan]
    /\ pri = "running" /\ sec = "running"
    /\ future = "pending"
    /\ cancel = "clear"
    /\ late = "no"
    /\ caller = "primary"
    /\ result = "none"

\* remaining_seconds raises for a branch.
Exhausted == late = "yes" \/ cancel = "set"

\* How the body of a branch ends.  A budget is checked when it is left
\* normally, and by the body from time to time; an error leaves it unchecked.
Outcomes(branch) ==
    (IF plan[branch] = "error" THEN {"error"} ELSE {})
    \cup (IF Exhausted THEN {"exhausted"}
          ELSE IF plan[branch] = "ok" THEN {"ok"} ELSE {})

\* guarded_secondary: an exception sets the flag before it is raised.
Secondary ==
    /\ sec = "running"
    /\ sec' \in Outcomes("secondary")
    /\ cancel' = IF sec' = "ok" THEN cancel ELSE "set"
    /\ UNCHANGED <<plan, pri, future, late, caller, result>>

SettleFuture ==
    /\ sec # "running" /\ future = "pending"
    /\ future' = "settled"
    /\ UNCHANGED <<plan, pri, sec, cancel, late, caller, result>>

Primary ==
    /\ caller = "primary"
    /\ pri' \in Outcomes("primary")
    /\ caller' = IF pri' = "ok" THEN "wait" ELSE "caught"
    /\ UNCHANGED <<plan, sec, future, cancel, late, result>>

\* The handlers around the primary.  An exhausted budget may be the
\* secondary's doing: its failure is then the one to report.
Caught ==
    /\ caller = "caught"
    /\ IF pri = "exhausted" /\ cancel = "set"
       THEN caller' = "settle" /\ UNCHANGED <<cancel, result>>
       ELSE /\ caller' = "done"
            /\ result' = IF pri = "error" THEN "primary" ELSE "exhausted"
            /\ cancel' = "set"
    /\ UNCHANGED <<plan, pri, sec, future, late>>

\* future.exception(), which waits without a limit.
Settle ==
    /\ caller = "settle" /\ future = "settled"
    /\ result' = IF sec = "error" THEN "secondary" ELSE "exhausted"
    /\ cancel' = "set"
    /\ caller' = "done"
    /\ UNCHANGED <<plan, pri, sec, future, late>>

\* Mutant: a result is taken from a secondary that did not deliver one.
WaitEither ==
    /\ caller = "wait"
    /\ future = "settled"
    /\ result' = IF sec = "error" THEN "secondary" ELSE "ok"
    /\ caller' = "done"
    /\ UNCHANGED <<plan, pri, sec, future, cancel, late>>

\* wait_for_verification, under the caller's own budget.
Wait ==
    /\ caller = "wait"
    /\ \/ late = "yes" /\ result' = "exhausted"
       \/ /\ future = "settled"
          /\ result' = CASE sec = "ok" -> "ok"
                         [] sec = "error" -> "secondary"
                         [] OTHER -> "exhausted"
    /\ caller' = "done"
    /\ UNCHANGED <<plan, pri, sec, future, cancel, late>>

\* The deadline of the enclosing budget, or a cancellation from outside.
Late ==
    /\ late = "no" /\ late' = "yes"
    /\ UNCHANGED <<plan, pri, sec, future, cancel, caller, result>>

Next == Secondary \/ SettleFuture \/ Primary \/ Caught \/ Settle \/ Wait \/ Late

Spec == Init /\ [][Next]_vars

-----------------------------------------------------------------------------

TypeOK ==
    /\ plan \in [{"primary", "secondary"} -> Plan]
    /\ {pri, sec} \subseteq {"running", "ok", "error", "exhausted"}
    /\ future \in {"pending", "settled"}
    /\ cancel \in {"clear", "set"}
    /\ late \in {"no", "yes"}
    /\ caller \in {"primary", "caught", "settle", "wait", "done"}
    /\ result \in IF caller # "done" THEN {"none"}
                  ELSE {"ok", "primary", "secondary", "exhausted"}

\* A definitive failure is never reported as a cancellation: the caller sees
\* an exhausted budget only if the whole invocation was interrupted, however
\* the branches and the flag were interleaved (the handler of BudgetExhausted
\* in run_concurrently).
NoFailureMasked == result = "exhausted" => late = "yes"

\* run_concurrently keeps the promise of BranchContract, at the moment its
\* result is decided.
Contract == INSTANCE BranchContract
    WITH primary <- pri, secondary <- IF future = "settled" THEN sec ELSE "running",
         interrupted <- late, result <- result

RefinesContract == Contract!Spec

===============================================================================
