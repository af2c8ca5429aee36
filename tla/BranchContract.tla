---------------------------- MODULE BranchContract ----------------------------
(***************************************************************************)
(* What dnsid/_verification_budget.py promises of two verification         *)
(* branches run side by side: success needs both, a failure of the primary *)
(* branch wins over one of the secondary, and only an interruption of the  *)
(* whole invocation may end it without either.                             *)
(***************************************************************************)
VARIABLES
    primary, secondary,  \* how far each branch is known to have come
    interrupted,         \* the invocation's deadline passed or it was cancelled
    result               \* what the caller gets

vars == <<primary, secondary, interrupted, result>>

Settled == {"ok", "error", "exhausted"}

Init ==
    /\ primary = "running" /\ secondary = "running"
    /\ interrupted = "no"
    /\ result = "none"

SettlePrimary ==
    /\ primary = "running" /\ primary' \in Settled
    /\ UNCHANGED <<secondary, interrupted, result>>

SettleSecondary ==
    /\ secondary = "running" /\ secondary' \in Settled
    /\ UNCHANGED <<primary, interrupted, result>>

Interrupt ==
    /\ interrupted = "no" /\ interrupted' = "yes"
    /\ UNCHANGED <<primary, secondary, result>>

Return ==
    /\ result = "none"
    /\ \/ primary = "error" /\ result' = "primary"
       \/ primary # "error" /\ secondary = "error" /\ result' = "secondary"
       \/ primary # "error" /\ interrupted = "yes" /\ result' = "exhausted"
       \/ primary = "ok" /\ secondary = "ok" /\ result' = "ok"
    /\ UNCHANGED <<primary, secondary, interrupted>>

Next == SettlePrimary \/ SettleSecondary \/ Interrupt \/ Return

Spec == Init /\ [][Next]_vars

===============================================================================
