------------------------------ MODULE ClientPool ------------------------------
(***************************************************************************)
(* _AsyncClientPool (dnsid/_async_client_pool.py): one HTTP client per     *)
(* event loop, opened on demand and closed on the loop that owns it, by    *)
(* however many callers of aclose, any of which may be cancelled and come  *)
(* back.                                                                   *)
(***************************************************************************)
EXTENDS Naturals

CONSTANTS
    Loop,        \* event loops
    Caller,      \* tasks that shut the pool down
    MaxCancels   \* bound on the cancelled waits

\* What the constants must be.
PoolAssumption == MaxCancels \in Nat

VARIABLES
    faulty,   \* the loops on which closing the client fails
    client,   \* _clients: "none" or "open" for each loop
    future,   \* _close_futures: "none", "pending", "ok" or "failed"
    closing,
    running,  \* the loops that run
    call,     \* of each caller: "idle", "waiting", "closed", "failed", "refused", "cancelled"
    closes,   \* history: how often a loop's client was closed
    cancels

vars == <<faulty, client, future, closing, running, call, closes, cancels>>

Init ==
    /\ faulty \in SUBSET Loop
    /\ client = [l \in Loop |-> "none"]
    /\ future = [l \in Loop |-> "none"]
    /\ closing = "no"
    /\ running = Loop
    /\ call = [c \in Caller |-> "idle"]
    /\ closes = [l \in Loop |-> 0]
    /\ cancels = 0

Open == {l \in Loop : client[l] = "open"}

\* A request on loop l takes the loop's client.
Get(l) ==
    /\ l \in running
    /\ closing = "no"
    /\ client' = [client EXCEPT ![l] = "open"]
    /\ UNCHANGED <<faulty, future, closing, running, call, closes, cancels>>

\* Synchronous shutdown, refused while a client is open.
Close(c) ==
    /\ call[c] \in {"idle", "cancelled", "failed", "refused"}
    /\ IF Open # {} THEN call' = [call EXCEPT ![c] = "refused"] /\ UNCHANGED closing
       ELSE call' = [call EXCEPT ![c] = "closed"] /\ closing' = "yes"
    /\ UNCHANGED <<faulty, client, future, running, closes, cancels>>

\* Mutant: every caller schedules the closing of every client.
AcloseAgain(c) ==
    /\ call[c] \in {"idle", "cancelled", "failed", "refused"}
    /\ IF ~(Open \subseteq running)
       THEN call' = [call EXCEPT ![c] = "refused"] /\ UNCHANGED <<closing, future>>
       ELSE /\ call' = [call EXCEPT ![c] = "waiting"]
            /\ closing' = "yes"
            /\ future' = [l \in Loop |-> IF l \in Open THEN "pending" ELSE future[l]]
    /\ UNCHANGED <<faulty, client, running, closes, cancels>>

\* aclose up to its await: each open client is scheduled once, on its loop.
Aclose(c) ==
    /\ call[c] \in {"idle", "cancelled", "failed", "refused"}
    /\ IF ~(Open \subseteq running)
       THEN call' = [call EXCEPT ![c] = "refused"] /\ UNCHANGED <<closing, future>>
       ELSE /\ call' = [call EXCEPT ![c] = "waiting"]
            /\ closing' = "yes"
            /\ future' = [l \in Loop |-> IF l \in Open /\ future[l] = "none"
                                         THEN "pending" ELSE future[l]]
    /\ UNCHANGED <<faulty, client, running, closes, cancels>>

\* _close_client, on its own loop.
CloseClient(l) ==
    /\ l \in running
    /\ future[l] = "pending"
    /\ closes' = [closes EXCEPT ![l] = @ + 1]
    /\ IF l \in faulty THEN future' = [future EXCEPT ![l] = "failed"] /\ UNCHANGED client
       ELSE /\ future' = [future EXCEPT ![l] = "ok"]
            /\ client' = [client EXCEPT ![l] = "none"]
    /\ UNCHANGED <<faulty, closing, running, call, cancels>>

\* The gather over the shielded futures.
AcloseReturns(c) ==
    /\ call[c] = "waiting"
    /\ \/ /\ \A l \in Loop : future[l] \in {"none", "ok"}
          /\ call' = [call EXCEPT ![c] = "closed"]
       \/ /\ \E l \in Loop : future[l] = "failed"
          /\ call' = [call EXCEPT ![c] = "failed"]
    /\ UNCHANGED <<faulty, client, future, closing, running, closes, cancels>>

\* A cancelled wait leaves the closing alone.
CancelWait(c) ==
    /\ call[c] = "waiting"
    /\ cancels < MaxCancels /\ cancels' = cancels + 1
    /\ call' = [call EXCEPT ![c] = "cancelled"]
    /\ UNCHANGED <<faulty, client, future, closing, running, closes>>

\* A loop that owns no client any more, or never did, may stop.
StopLoop(l) ==
    /\ l \in running /\ client[l] = "none" /\ closing = "yes"
    /\ running' = running \ {l}
    /\ UNCHANGED <<faulty, client, future, closing, call, closes, cancels>>

Next ==
    \/ \E l \in Loop : Get(l) \/ CloseClient(l) \/ StopLoop(l)
    \/ \E c \in Caller : Close(c) \/ Aclose(c) \/ AcloseReturns(c) \/ CancelWait(c)

Spec == Init /\ [][Next]_vars

-----------------------------------------------------------------------------

TypeOK ==
    /\ faulty \subseteq Loop
    /\ client \in [Loop -> {"none", "open"}]
    /\ future \in [Loop -> {"none", "pending", "ok", "failed"}]
    /\ closing \in {"no", "yes"}
    /\ running \subseteq Loop
    /\ call \in [Caller -> {"idle", "waiting", "closed", "failed", "refused", "cancelled"}]
    /\ closes \in [Loop -> Nat]
    /\ cancels \in 0..MaxCancels

\* Once any shutdown has returned normally, no client is open, and none will
\* be, whatever the other callers and loops were doing (aclose, close, get).
ClosedForGood == (\E c \in Caller : call[c] = "closed") => Open = {} /\ closing = "yes"

\* However many callers shut the pool down, and however often they are
\* cancelled and retry, no client is closed twice (_close_futures).
ClosedOnce == \A l \in Loop : closes[l] <= 1

===============================================================================
