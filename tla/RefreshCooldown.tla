-------------------------- MODULE RefreshCooldown --------------------------
(***************************************************************************)
(* The gate in front of the forced DNSid refresh of the Web Bot Auth       *)
(* verifier (src/dnsid/wba_verifier.py, WBAHttpVerifier._refresh).         *)
(* Verifications run on several threads.  One whose key is not the one the *)
(* resolver knows may ask for a refresh of the signer's domain: at most    *)
(* one at a time and one per cooldown, over a bounded number of domains.   *)
(*                                                                         *)
(* A caller reads the clock BEFORE it takes the lock, so the reading may   *)
(* be old when it is used; MaxDelay bounds how old.                        *)
(***************************************************************************)
EXTENDS Integers, FiniteSets

CONSTANTS Domain,        \* signer domains
          Thread,        \* threads that verify
          Capacity,      \* the 1024 of the code
          Cooldown,      \* the 5 seconds of the code
          MaxDelay,      \* time between reading the clock and holding the lock
          MaxNow         \* bound on the clock

ASSUME GateAssumption ==
    /\ IsFiniteSet(Domain)
    /\ Capacity \in Nat /\ Cooldown \in Nat \ {0}
    /\ MaxDelay \in Nat /\ MaxNow \in Nat

VARIABLES now,          \* time.monotonic()
          deadlines,    \* self._refresh_deadlines
          thread,       \* per thread: where it is, its domain, its clock reading
          began         \* per domain: when the latest refresh began

gateVars == <<now, deadlines, thread, began>>

Absent == 0             \* the domain is not in the dictionary
InFlight == -1          \* math.inf: a refresh is running

Held(dl) == {d \in Domain : dl[d] # Absent}

\* Mutant: an in-flight mark that can be swept.
SweptMark(dl, t) == [d \in Domain |-> IF dl[d] > t THEN dl[d] ELSE Absent]

\* The dictionary without the deadlines that have passed at time t.
Kept(dl, t) ==
    [d \in Domain |-> IF dl[d] = InFlight \/ dl[d] > t THEN dl[d] ELSE Absent]

\* Whether a refresh of d may start, the dictionary being swept.
Admits(dl, d) == dl[d] = Absent /\ Cardinality(Held(dl)) < Capacity

GateTypeOK ==
    /\ now \in 0..MaxNow
    /\ deadlines \in [Domain -> Int]
    /\ thread \in [Thread -> [pc : {"idle", "asked", "refreshing"},
                              domain : Domain, at : Nat]]
    /\ began \in [Domain -> Int]

GateInit ==
    /\ now = 0
    /\ deadlines = [d \in Domain |-> Absent]
    /\ thread \in [Thread -> [pc : {"idle"}, domain : Domain, at : {0}]]
    /\ began = [d \in Domain |-> -Cooldown]

\* remaining_seconds() has not raised; the clock is read.
Ask(c, d) ==
    /\ thread[c].pc = "idle"
    /\ thread' = [thread EXCEPT ![c] = [pc |-> "asked", domain |-> d, at |-> now]]
    /\ UNCHANGED <<now, deadlines, began>>

\* One pass under the lock: sweep, then refuse or mark the domain in flight.
Suppress(c) ==
    /\ thread[c].pc = "asked"
    /\ ~Admits(Kept(deadlines, thread[c].at), thread[c].domain)
    /\ deadlines' = Kept(deadlines, thread[c].at)
    /\ thread' = [thread EXCEPT ![c].pc = "idle", ![c].at = 0]
    /\ UNCHANGED <<now, began>>

StartRefresh(c) ==
    /\ thread[c].pc = "asked"
    /\ Admits(Kept(deadlines, thread[c].at), thread[c].domain)
    /\ deadlines' = [Kept(deadlines, thread[c].at) EXCEPT ![thread[c].domain] = InFlight]
    /\ thread' = [thread EXCEPT ![c].pc = "refreshing"]
    /\ began' = [began EXCEPT ![thread[c].domain] = now]
    /\ UNCHANGED now

\* The finally block: the refresh returned or raised.
FinishRefresh(c) ==
    /\ thread[c].pc = "refreshing"
    /\ deadlines' = [deadlines EXCEPT ![thread[c].domain] = thread[c].at + Cooldown]
    /\ thread' = [thread EXCEPT ![c].pc = "idle", ![c].at = 0]
    /\ UNCHANGED <<now, began>>

Tick ==
    /\ now < MaxNow
    /\ \A c \in Thread : thread[c].pc = "asked" => now < thread[c].at + MaxDelay
    /\ now' = now + 1
    /\ UNCHANGED <<deadlines, thread, began>>

GateNext ==
    \/ \E c \in Thread : \/ \E d \in Domain : Ask(c, d)
                         \/ Suppress(c) \/ StartRefresh(c) \/ FinishRefresh(c)
    \/ Tick

GateSpec == GateInit /\ [][GateNext]_gateVars

---------------------------------------------------------------------------
(* Properties *)

\* Never do two threads refresh the same domain at once, however long a
\* refresh outlasts the cooldown: its entry cannot be swept away.
OneInFlight ==
    \A c, e \in Thread :
        thread[c].pc = "refreshing" /\ thread[e].pc = "refreshing"
            /\ thread[c].domain = thread[e].domain => c = e

\* The dictionary never holds more domains than its limit, although entries
\* are written again when a refresh ends.
Bounded == Cardinality(Held(deadlines)) <= Capacity

Starts(c) == thread[c].pc = "asked" /\ thread'[c].pc = "refreshing"

\* Two refreshes of a domain begin at least a cooldown apart, less the time a
\* thread may have carried its clock reading to the lock.
SpacedWithin ==
    [][\A c \in Thread : Starts(c) =>
            now - began[thread[c].domain] >= Cooldown - MaxDelay]_gateVars

\* The gate as a whole (_refresh): of one domain, one refresh at a time and a
\* cooldown apart, and a dictionary within its limit.
RefreshesGated == [](OneInFlight /\ Bounded) /\ SpacedWithin

=============================================================================
