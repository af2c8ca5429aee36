--------------------------- MODULE CheckpointStore ---------------------------
(***************************************************************************)
(* The trusted checkpoint of one log origin, shared by concurrent          *)
(* verification calls (dnsid/c2sp_tlog/checkpoint_store.py), and the ways  *)
(* a call establishes that its checkpoint extends the trusted one:         *)
(*   - a complete scan, whose entries are already loaded (reader.py);      *)
(*   - a stream bundle with a proof source or hash tiles, read while the   *)
(*     per-origin lock is held (stream_bundle.py);                         *)
(*   - a stream bundle with neither, which falls back to loading a scan;   *)
(*   - the asynchronous bundle reader, which checks tiles without the lock *)
(*     against a checkpoint it read earlier, and retries if trust moved.   *)
(* The log is not trusted: candidates and scans come from any tree.        *)
(***************************************************************************)
EXTENDS Naturals

\* The trees a transparency log may commit to.  A checkpoint's root hash
\* identifies the tree, so a tree stands for its root; what matters of two
\* trees is their sizes and whether one is a prefix of the other, which is
\* what a Merkle consistency check decides.
CONSTANTS
    Tree,   \* trees, of every branch an equivocating log may sign
    Size,   \* a tree's number of leaves
    Prefix, \* the pairs <<s, t>> such that t extends s or equals it
    Empty,  \* the tree with no leaves
    None    \* no tree, no checkpoint

PrefixOf(s, t) == <<s, t>> \in Prefix

ASSUME TreesAssumption ==
    /\ Size \in [Tree -> Nat]
    /\ None \notin Tree
    /\ Empty \in Tree
    /\ \A t \in Tree : Size[t] = 0 <=> t = Empty

\* Prefixes of leaf sequences: an order, graded by size, in which the
\* prefixes of one tree are comparable.
ASSUME PrefixAssumption ==
    /\ \A t \in Tree : PrefixOf(t, t) /\ PrefixOf(Empty, t)
    /\ \A s, t, u \in Tree : PrefixOf(s, t) /\ PrefixOf(t, u) => PrefixOf(s, u)
    /\ \A s, t \in Tree :
          PrefixOf(s, t) => Size[s] <= Size[t] /\ (Size[s] = Size[t] => s = t)
    /\ \A s, t, u \in Tree :
          PrefixOf(s, u) /\ PrefixOf(t, u) /\ Size[s] <= Size[t] => PrefixOf(s, t)

CONSTANTS
    Verifier,   \* verification calls that may be in progress at once
    Time,       \* witness times
    MaxCalls    \* bound on verification calls and seedings

\* TrustedCheckpoint of the origin: the tree stands for size and root hash.
Checkpoint == [tree : Tree, time : Time]

ASSUME StoreAssumption ==
    /\ None \notin Checkpoint
    /\ None \notin Verifier
    /\ MaxCalls \in Nat

Mode == {"scan", "locked", "bare", "async"}

Pc == {"idle", "reading", "checking", "waiting", "verifying", "advancing",
       "loading"}

\* One call: where it is, how it gets evidence, its candidate, the checkpoint
\* the asynchronous reader last saw, the one loaded under the lock, and the
\* tree of the complete scan it holds.
Call == [pc : Pc, mode : Mode, cand : Checkpoint \cup {None},
         seen : Checkpoint \cup {None}, stored : Checkpoint \cup {None},
         scan : Tree \cup {None}]

NoCall == [pc |-> "idle", mode |-> "scan", cand |-> None, seen |-> None,
           stored |-> None, scan |-> None]

VARIABLES
    trusted,    \* _by_origin[origin]
    lock,       \* the holder of the origin's lock, or None
    call,       \* the calls in progress
    calls,      \* how many calls and seedings there have been
    accepted    \* history: trees accepted since trust was last seeded

vars == <<trusted, lock, call, calls, accepted>>

Init ==
    /\ trusted = None
    /\ lock = None
    /\ call = [v \in Verifier |-> NoCall]
    /\ calls = 0
    /\ accepted = {}

-----------------------------------------------------------------------------

\* Nothing is held against the log before it has leaves that are trusted.
TreeOf(s) == IF s = None THEN Empty ELSE s.tree

\* The candidate is larger than checkpoint s and s has leaves, so evidence of
\* consistency is needed.
Grows(s, c) == 0 < Size[TreeOf(s)] /\ Size[TreeOf(s)] < Size[c.tree]

Set(v, r) == call' = [call EXCEPT ![v] = r]

End(v) == Set(v, NoCall)

\* A call presents a checkpoint whose signatures, witness quorum and
\* freshness have been verified.
Start(v, m, c) ==
    /\ call[v].pc = "idle"
    /\ calls < MaxCalls
    /\ calls' = calls + 1
    /\ Set(v, [NoCall EXCEPT !.pc = IF m = "async" THEN "reading" ELSE "waiting",
                             !.mode = m, !.cand = c,
                             !.scan = IF m = "scan" THEN c.tree ELSE None])
    /\ UNCHANGED <<trusted, lock, accepted>>

\* The asynchronous reader's loop head: get() under the lock, then release.
AsyncRead(v) ==
    /\ call[v].pc = "reading"
    /\ lock = None
    /\ Set(v, [call[v] EXCEPT !.seen = trusted,
                              !.pc = IF Grows(trusted, call[v].cand)
                                     THEN "checking" ELSE "waiting"])
    /\ UNCHANGED <<trusted, lock, calls, accepted>>

\* verify_checkpoint_consistency: tiles are read and compared, no lock held.
AsyncCheck(v) ==
    /\ call[v].pc = "checking"
    /\ IF PrefixOf(call[v].seen.tree, call[v].cand.tree)
       THEN Set(v, [call[v] EXCEPT !.pc = "waiting"])
       ELSE End(v)
    /\ UNCHANGED <<trusted, lock, calls, accepted>>

\* verify_and_advance: take the origin's lock and load the stored checkpoint.
Acquire(v) ==
    /\ call[v].pc = "waiting"
    /\ lock = None
    /\ lock' = v
    /\ Set(v, [call[v] EXCEPT !.pc = "verifying", !.stored = trusted])
    /\ UNCHANGED <<trusted, calls, accepted>>

\* Mutant: the asynchronous reader does not compare the stored checkpoint with
\* the one it checked.
EvidenceStale(r) ==
    IF r.scan # None THEN PrefixOf(TreeOf(r.stored), r.scan)
    ELSE \/ r.mode = "locked" /\ PrefixOf(TreeOf(r.stored), r.cand.tree)
         \/ r.mode = "async"

\* Evidence that the stored tree is a prefix of the candidate's: a complete
\* scan, else a proof or tiles read now, else tiles checked before against the
\* same stored checkpoint.
Evidence(r) ==
    IF r.scan # None THEN PrefixOf(TreeOf(r.stored), r.scan)
    ELSE \/ r.mode = "locked" /\ PrefixOf(TreeOf(r.stored), r.cand.tree)
         \/ r.mode = "async" /\ r.stored = r.seen

\* Mutant: the scan is not bound to the candidate it stands in for.
ConsistentScanUnbound(r) ==
    \/ TreeOf(r.stored) \in {r.cand.tree, Empty}
    \/ Grows(r.stored, r.cand) /\ Evidence(r)

\* _verify: the callback verify_and_advance runs under the lock.
Consistent(r) ==
    /\ r.scan # None => PrefixOf(r.cand.tree, r.scan)
    /\ \/ TreeOf(r.stored) \in {r.cand.tree, Empty}
       \/ Grows(r.stored, r.cand) /\ Evidence(r)

\* The reader's check callback raises _CheckpointChanged.
Changed(r) == r.mode = "async" /\ Grows(r.stored, r.cand) /\ r.stored # r.seen

\* _MissingC2spConsistencyEvidenceError.
Missing(r) == r.mode = "bare" /\ r.scan = None /\ Grows(r.stored, r.cand)

\* The callback returned, and the budget has not run out.
Approve(v) ==
    /\ call[v].pc = "verifying"
    /\ Consistent(call[v])
    /\ Set(v, [call[v] EXCEPT !.pc = "advancing"])
    /\ UNCHANGED <<trusted, lock, calls, accepted>>

\* The callback raised: rollback, fork or inconsistency.
Reject(v) ==
    /\ call[v].pc = "verifying"
    /\ ~Consistent(call[v])
    /\ ~Changed(call[v])
    /\ ~Missing(call[v])
    /\ lock' = None
    /\ End(v)
    /\ UNCHANGED <<trusted, calls, accepted>>

\* Mutant: the retry keeps the checkpoint read before the loop.
RetryUnread(v) ==
    /\ call[v].pc = "verifying"
    /\ Changed(call[v])
    /\ lock' = None
    /\ Set(v, [call[v] EXCEPT !.pc = "waiting", !.stored = None])
    /\ UNCHANGED <<trusted, calls, accepted>>

\* Trust moved since the reader looked: go round the loop again.
Retry(v) ==
    /\ call[v].pc = "verifying"
    /\ Changed(call[v])
    /\ lock' = None
    /\ Set(v, [call[v] EXCEPT !.pc = "reading", !.stored = None, !.seen = None])
    /\ UNCHANGED <<trusted, calls, accepted>>

\* No evidence: load a complete scan.  Its tree need not be the candidate's.
NeedScan(v) ==
    /\ call[v].pc = "verifying"
    /\ Missing(call[v])
    /\ lock' = None
    /\ Set(v, [call[v] EXCEPT !.pc = "loading", !.stored = None])
    /\ UNCHANGED <<trusted, calls, accepted>>

LoadScan(v, t) ==
    /\ call[v].pc = "loading"
    /\ Set(v, [call[v] EXCEPT !.pc = "waiting", !.scan = t])
    /\ UNCHANGED <<trusted, lock, calls, accepted>>

\* _advance_locked raises on an equal size with another root ...
Conflicts(c) ==
    /\ trusted # None
    /\ Size[c.tree] = Size[trusted.tree]
    /\ c.tree # trusted.tree

\* Mutant: an equal-size checkpoint is recorded whatever its root.
AdvanceLockedAny(c) ==
    trusted' = IF trusted = None \/ Size[c.tree] >= Size[trusted.tree]
               THEN c ELSE trusted

\* ... and otherwise records what is not smaller.
AdvanceLocked(c) ==
    trusted' = IF /\ ~Conflicts(c)
                  /\ trusted = None \/ Size[c.tree] >= Size[trusted.tree]
               THEN c ELSE trusted

\* The rest of verify_and_advance: record the candidate, release, return.
Advance(v) ==
    /\ call[v].pc = "advancing"
    /\ AdvanceLocked(call[v].cand)
    /\ accepted' = IF Conflicts(call[v].cand) THEN accepted
                   ELSE accepted \cup {call[v].cand.tree}
    /\ lock' = None
    /\ End(v)
    /\ UNCHANGED calls

\* A deadline, a cancellation or a failed read ends the call anywhere before
\* the last budget check; the lock's context manager releases it.
GiveUp(v) ==
    /\ call[v].pc \notin {"idle", "advancing"}
    /\ End(v)
    /\ lock' = IF lock = v THEN None ELSE lock
    /\ UNCHANGED <<trusted, calls, accepted>>

\* put: the operator seeds trust without a consistency check.
Put(c) ==
    /\ lock = None
    /\ calls < MaxCalls
    /\ calls' = calls + 1
    /\ AdvanceLocked(c)
    /\ accepted' = IF trusted # None /\ trusted'.tree = trusted.tree
                   THEN accepted ELSE {}
    /\ UNCHANGED <<lock, call>>

\* The steps a call takes by itself once started.
Step(v) ==
    \/ AsyncRead(v)
    \/ AsyncCheck(v)
    \/ Acquire(v)
    \/ Approve(v)
    \/ Reject(v)
    \/ Retry(v)
    \/ NeedScan(v)
    \/ \E t \in Tree : LoadScan(v, t)
    \/ Advance(v)

Next ==
    \/ \E v \in Verifier :
          \/ \E m \in Mode, c \in Checkpoint : Start(v, m, c)
          \/ Step(v)
          \/ GiveUp(v)
    \/ \E c \in Checkpoint : Put(c)

Spec == Init /\ [][Next]_vars

\* Every thread that runs a call is scheduled; every read under a budget ends.
FairSpec == Spec /\ \A v \in Verifier : WF_vars(Step(v))

-----------------------------------------------------------------------------

\* The store, the lock and the calls in progress have the shapes the code
\* gives them, and the lock is held by exactly the call inside
\* verify_and_advance.
TypeOK ==
    /\ trusted \in Checkpoint \cup {None}
    /\ lock \in Verifier \cup {None}
    /\ call \in [Verifier -> Call]
    /\ calls \in 0..MaxCalls
    /\ accepted \subseteq Tree
    /\ \A v \in Verifier :
          lock = v <=> call[v].pc \in {"verifying", "advancing"}

\* An equivocating log cannot get two forked trees accepted by verification
\* calls that share a store, however the calls and their evidence interleave:
\* of any two accepted trees, one is a prefix of the other (the promise of
\* verify_and_advance's docstring).
OneHistory == \A s, t \in accepted : PrefixOf(s, t) \/ PrefixOf(t, s)

\* Trust keeps covering what was accepted: every tree a call accepted stays a
\* prefix of the trusted one, so no later call can be sold a rollback of it.
TrustCoversAccepted ==
    accepted # {} =>
        trusted # None /\ \A t \in accepted : PrefixOf(t, trusted.tree)

\* What the store promises, with the trusted checkpoint's tree as its head.
History == INSTANCE TrustedHistory
               WITH head <- IF trusted = None THEN None ELSE trusted.tree

\* The store with its lock, its optimistic readers and its fallbacks holds
\* the log to one append-only history.
RefinesHistory == History!Spec

\* Every call ends: no call waits for the lock for ever, and the reader's
\* retry loop is driven only by other calls' progress.
CallsEnd == \A v \in Verifier : call[v].pc # "idle" ~> call[v].pc = "idle"

===============================================================================
