------------------------ MODULE CheckpointStoreProofs ------------------------
(***************************************************************************)
(* Proofs, for any number of calls, any trees and any witness times, that  *)
(* the checkpoint store holds a log to one append-only history and that it *)
(* implements TrustedHistory.                                              *)
(***************************************************************************)
EXTENDS CheckpointStore, TLAPS

Holding == {"verifying", "advancing"}

\* What is known of a call in progress when t is the trusted checkpoint: what
\* it loaded under the lock is still trusted, what the asynchronous reader
\* checked without the lock was consistent, and a call about to record its
\* candidate has established consistency.
CallInv(r, t) ==
    /\ r.pc # "idle" => r.cand \in Checkpoint
    /\ r.pc = "loading" => r.mode = "bare"
    /\ r.pc \in Holding => r.stored = t
    /\ r.pc = "advancing" => Consistent(r)
    /\ r.mode = "async" /\ r.pc \in Holding \cup {"waiting"} =>
          (Grows(r.seen, r.cand) => PrefixOf(TreeOf(r.seen), r.cand.tree))

\* The inductive invariant.
IInv ==
    /\ TypeOK
    /\ TrustCoversAccepted
    /\ \A v \in Verifier : CallInv(call[v], trusted)

-----------------------------------------------------------------------------
(* Trees and calls                                                         *)

\* The tree a checkpoint is of.
LEMMA TreeOfType ==
    ASSUME NEW s \in Checkpoint \cup {None}
    PROVE  TreeOf(s) \in Tree
  BY TreesAssumption DEF TreeOf, Checkpoint

\* An idle verifier makes no call.
LEMMA NoCallType == NoCall \in Call
  BY DEF NoCall, Call, Pc, Mode

\* A call that has established consistency extends what it loaded: directly,
\* or because stored and candidate are prefixes of one scan.
LEMMA ConsistentExtends ==
    ASSUME NEW r \in Call, NEW t, CallInv(r, t), r.pc \in Holding, Consistent(r)
    PROVE  PrefixOf(TreeOf(r.stored), r.cand.tree)
  <1> DEFINE s == TreeOf(r.stored)
             c == r.cand.tree
  <1>1. r.cand \in Checkpoint /\ c \in Tree
    BY DEF CallInv, Holding, Checkpoint
  <1>2. r.stored \in Checkpoint \cup {None} /\ r.scan \in Tree \cup {None}
    BY DEF Call
  <1>3. s \in Tree
    BY <1>2, TreeOfType
  <1>4. CASE s \in {c, Empty}
    BY <1>1, <1>4, PrefixAssumption
  <1>5. CASE Grows(r.stored, r.cand) /\ Evidence(r)
    <2>1. Size[s] < Size[c]
      BY <1>5 DEF Grows
    <2>2. CASE r.scan # None
      <3>1. r.scan \in Tree /\ PrefixOf(c, r.scan) /\ PrefixOf(s, r.scan)
        BY <1>2, <1>5, <2>2 DEF Consistent, Evidence
      <3>2. Size[s] \in Nat /\ Size[c] \in Nat
        BY <1>1, <1>3, TreesAssumption
      <3>3. Size[s] <= Size[c]
        BY <2>1, <3>2
      <3> QED
        BY <1>1, <1>3, <3>1, <3>3, PrefixAssumption
    <2>3. CASE r.scan = None
      <3>1. CASE r.mode = "locked" /\ PrefixOf(s, c)
        BY <3>1
      <3>2. CASE r.mode = "async" /\ r.stored = r.seen
        BY <1>5, <3>2 DEF CallInv, Holding
      <3> QED
        BY <1>5, <2>3, <3>1, <3>2 DEF Evidence
    <2> QED
      BY <2>2, <2>3
  <1> QED
    BY <1>4, <1>5 DEF Consistent

\* One call moves to record r; the others are left alone.
LEMMA CallMoves ==
    ASSUME IInv, NEW v \in Verifier, NEW r \in Call, Set(v, r),
           trusted' \in Checkpoint \cup {None},
           lock' \in Verifier \cup {None},
           calls' \in 0..MaxCalls,
           accepted' \subseteq Tree,
           TrustCoversAccepted',
           CallInv(r, trusted'),
           lock' = v <=> r.pc \in Holding,
           \A w \in Verifier \ {v} : lock' = w <=> lock = w,
           trusted' = trusted \/ lock = v
    PROVE  IInv'
  <1>1. call \in [Verifier -> Call] /\ call' = [call EXCEPT ![v] = r]
    BY DEF IInv, TypeOK, Set
  <1>2. call' \in [Verifier -> Call]
    BY <1>1
  <1>3. ASSUME NEW w \in Verifier
        PROVE  /\ lock' = w <=> call'[w].pc \in Holding
               /\ CallInv(call'[w], trusted')
    <2>1. CASE w = v
      BY <1>1, <2>1
    <2>2. CASE w # v
      <3>1. call'[w] = call[w]
        BY <1>1, <2>2
      <3>2. lock' = w <=> lock = w
        BY <2>2
      <3>3. lock = w <=> call[w].pc \in Holding
        BY DEF IInv, TypeOK, Holding
      <3>4. CallInv(call[w], trusted)
        BY DEF IInv
      <3>5. CASE trusted' = trusted
        BY <3>1, <3>2, <3>3, <3>4, <3>5
      <3>6. CASE lock = v
        <4>1. call[w].pc \notin Holding
          BY <2>2, <3>3, <3>6
        <4>2. CallInv(call[w], trusted')
          BY <3>4, <4>1 DEF CallInv, Holding
        <4> QED
          BY <3>1, <3>2, <3>3, <4>2
      <3> QED
        BY <3>5, <3>6
    <2> QED
      BY <2>1, <2>2
  <1>4. TypeOK'
    BY <1>2, <1>3 DEF TypeOK, Holding
  <1> QED
    BY <1>3, <1>4 DEF IInv

-----------------------------------------------------------------------------
(* Each action preserves the invariant                                     *)

\* The facts every step starts from.
LEMMA Facts ==
    ASSUME IInv, NEW v \in Verifier
    PROVE  /\ call[v] \in Call
           /\ CallInv(call[v], trusted)
           /\ lock = v <=> call[v].pc \in Holding
           /\ v # None
           /\ trusted \in Checkpoint \cup {None}
           /\ lock \in Verifier \cup {None}
           /\ calls \in 0..MaxCalls
           /\ accepted \subseteq Tree
           /\ TrustCoversAccepted
  BY StoreAssumption DEF IInv, TypeOK, Holding

\* Leaving trust and history alone keeps their relation.
LEMMA TrustKept ==
    ASSUME TrustCoversAccepted, UNCHANGED <<trusted, accepted>>
    PROVE  TrustCoversAccepted'
  BY DEF TrustCoversAccepted

\* An idle call satisfies its invariant whatever is trusted.
LEMMA IdleInv ==
    ASSUME NEW t
    PROVE  CallInv(NoCall, t) /\ NoCall.pc \notin Holding
  BY DEF CallInv, NoCall, Holding

\* A verification begins.
LEMMA StartStep ==
    ASSUME IInv, NEW v \in Verifier, NEW m \in Mode, NEW c \in Checkpoint,
           Start(v, m, c)
    PROVE  IInv'
  <1> DEFINE r == [NoCall EXCEPT !.pc = IF m = "async" THEN "reading" ELSE "waiting",
                                 !.mode = m, !.cand = c,
                                 !.scan = IF m = "scan" THEN c.tree ELSE None]
  <1>1. r \in Call
    BY DEF NoCall, Call, Pc, Mode, Checkpoint
  <1>2. CallInv(r, trusted')
    BY DEF NoCall, CallInv, Holding, Mode
  <1>3. calls' \in 0..MaxCalls
    BY StoreAssumption, Facts DEF Start
  <1>4. r.pc \notin Holding /\ call[v].pc \notin Holding
    BY DEF NoCall, Holding, Start
  <1>5. TrustCoversAccepted'
    BY Facts, TrustKept DEF Start
  <1> QED
    BY <1>1, <1>2, <1>3, <1>4, <1>5, Facts, CallMoves DEF Start

\* The asynchronous path reads the trusted checkpoint.
LEMMA AsyncReadStep ==
    ASSUME IInv, NEW v \in Verifier, AsyncRead(v)
    PROVE  IInv'
  <1> DEFINE r == [call[v] EXCEPT !.seen = trusted,
                                  !.pc = IF Grows(trusted, call[v].cand)
                                         THEN "checking" ELSE "waiting"]
  <1>1. r \in Call
    BY Facts DEF Call, Pc
  <1>2. CallInv(r, trusted')
    <2>1. r.cand = call[v].cand /\ r.seen = trusted /\ r.cand \in Checkpoint
      BY Facts DEF Call, CallInv, AsyncRead
    <2>2. r.pc = IF Grows(trusted, call[v].cand) THEN "checking" ELSE "waiting"
      BY Facts DEF Call
    <2> QED
      BY <2>1, <2>2 DEF CallInv, Holding
  <1>3. r.pc \notin Holding /\ call[v].pc \notin Holding
    BY Facts DEF Holding, AsyncRead, Call
  <1>4. TrustCoversAccepted'
    BY Facts, TrustKept DEF AsyncRead
  <1> QED
    BY <1>1, <1>2, <1>3, <1>4, Facts, CallMoves DEF AsyncRead

\* The asynchronous path compares with what it read.
LEMMA AsyncCheckStep ==
    ASSUME IInv, NEW v \in Verifier, AsyncCheck(v)
    PROVE  IInv'
  <1> DEFINE q == [call[v] EXCEPT !.pc = "waiting"]
  <1>1. call[v].pc \notin Holding
    BY DEF AsyncCheck, Holding
  <1>2. TrustCoversAccepted'
    BY Facts, TrustKept DEF AsyncCheck
  <1>3. CASE PrefixOf(call[v].seen.tree, call[v].cand.tree)
    <2>1. q \in Call
      BY Facts DEF Call, Pc
    <2>2. q.pc = "waiting" /\ q.cand = call[v].cand /\ q.seen = call[v].seen
      BY Facts DEF Call
    <2>3. q.cand \in Checkpoint
      BY <2>2, Facts DEF CallInv, AsyncCheck
    <2>4. Grows(q.seen, q.cand) => PrefixOf(TreeOf(q.seen), q.cand.tree)
      <3>1. CASE q.seen = None
        BY <3>1, TreesAssumption DEF Grows, TreeOf
      <3>2. CASE q.seen # None
        BY <1>3, <2>2, <3>2 DEF TreeOf
      <3> QED
        BY <3>1, <3>2
    <2>5. CallInv(q, trusted')
      BY <2>2, <2>3, <2>4 DEF CallInv, Holding
    <2>6. q.pc \notin Holding
      BY <2>2 DEF Holding
    <2> QED
      BY <1>1, <1>2, <1>3, <2>1, <2>5, <2>6, Facts, CallMoves DEF AsyncCheck
  <1>4. CASE ~PrefixOf(call[v].seen.tree, call[v].cand.tree)
    BY <1>1, <1>2, <1>4, NoCallType, IdleInv, Facts, CallMoves DEF AsyncCheck, End
  <1> QED
    BY <1>3, <1>4

\* A verifier takes the lock of its log.
LEMMA AcquireStep ==
    ASSUME IInv, NEW v \in Verifier, Acquire(v)
    PROVE  IInv'
  <1> DEFINE r == [call[v] EXCEPT !.pc = "verifying", !.stored = trusted]
  <1>1. r \in Call
    BY ZenonT(60), Facts DEF Call, Pc
  <1>2. /\ r.pc = "verifying" /\ r.cand = call[v].cand /\ r.seen = call[v].seen
        /\ r.mode = call[v].mode /\ r.stored = trusted
    BY Facts DEF Call
  <1>3. CallInv(r, trusted')
    BY <1>2, Facts DEF CallInv, Holding, Acquire
  <1>4. TrustCoversAccepted'
    BY Facts, TrustKept DEF Acquire
  <1>5. r.pc \in Holding
    BY <1>2 DEF Holding
  <1>6. \A w \in Verifier \ {v} : lock' = w <=> lock = w
    BY StoreAssumption DEF Acquire
  <1> QED
    BY <1>1, <1>3, <1>4, <1>5, <1>6, Facts, CallMoves DEF Acquire

\* A checkpoint is approved under the lock.
LEMMA ApproveStep ==
    ASSUME IInv, NEW v \in Verifier, Approve(v)
    PROVE  IInv'
  <1> DEFINE r == [call[v] EXCEPT !.pc = "advancing"]
  <1>1. r \in Call
    BY Facts DEF Call, Pc
  <1>2. /\ r.pc = "advancing" /\ r.cand = call[v].cand /\ r.seen = call[v].seen
        /\ r.mode = call[v].mode /\ r.stored = call[v].stored
        /\ r.scan = call[v].scan
    BY Facts DEF Call
  <1>3. Consistent(r)
    BY <1>2 DEF Approve, Consistent, Evidence
  <1>4. CallInv(r, trusted')
    BY <1>2, <1>3, Facts DEF CallInv, Holding, Approve
  <1>5. TrustCoversAccepted'
    BY Facts, TrustKept DEF Approve
  <1>6. r.pc \in Holding /\ lock = v
    BY <1>2, Facts DEF Holding, Approve
  <1> QED
    BY <1>1, <1>4, <1>5, <1>6, Facts, CallMoves DEF Approve

\* The steps that release the lock without touching trust.
LEMMA ReleaseStep ==
    ASSUME IInv, NEW v \in Verifier, lock' = None, lock = v,
           UNCHANGED <<trusted, calls, accepted>>,
           NEW r \in Call, Set(v, r), r.pc \notin Holding, CallInv(r, trusted')
    PROVE  IInv'
  <1>1. TrustCoversAccepted'
    BY Facts, TrustKept
  <1>2. \A w \in Verifier \ {v} : lock' = w <=> lock = w
    BY StoreAssumption
  <1> QED
    BY <1>1, <1>2, Facts, CallMoves

\* A checkpoint is refused.
LEMMA RejectStep ==
    ASSUME IInv, NEW v \in Verifier, Reject(v)
    PROVE  IInv'
  <1>1. lock = v
    BY Facts DEF Reject, Holding
  <1> QED
    BY <1>1, NoCallType, IdleInv, ReleaseStep DEF Reject, End

\* Trust moved since the reader looked: the loop goes round again.
LEMMA RetryStep ==
    ASSUME IInv, NEW v \in Verifier, Retry(v)
    PROVE  IInv'
  <1> DEFINE r == [call[v] EXCEPT !.pc = "reading", !.stored = None, !.seen = None]
  <1>1. r \in Call /\ r.pc = "reading" /\ r.cand = call[v].cand
    BY Facts DEF Call, Pc
  <1>2. CallInv(r, trusted')
    BY <1>1, Facts DEF CallInv, Holding, Retry
  <1>3. lock = v /\ r.pc \notin Holding
    BY <1>1, Facts DEF Retry, Holding
  <1> QED
    BY <1>1, <1>2, <1>3, ReleaseStep DEF Retry

\* Without evidence of consistency the lock is released for a complete scan.
LEMMA NeedScanStep ==
    ASSUME IInv, NEW v \in Verifier, NeedScan(v)
    PROVE  IInv'
  <1> DEFINE r == [call[v] EXCEPT !.pc = "loading", !.stored = None]
  <1>1. /\ r \in Call /\ r.pc = "loading"
        /\ r.cand = call[v].cand /\ r.mode = call[v].mode
    BY Facts DEF Call, Pc
  <1>2. CallInv(r, trusted')
    BY <1>1, Facts DEF CallInv, Holding, NeedScan, Missing
  <1>3. lock = v /\ r.pc \notin Holding
    BY <1>1, Facts DEF NeedScan, Holding
  <1> QED
    BY <1>1, <1>2, <1>3, ReleaseStep DEF NeedScan

\* A complete scan is loaded, without the lock.
LEMMA LoadScanStep ==
    ASSUME IInv, NEW v \in Verifier, NEW t \in Tree, LoadScan(v, t)
    PROVE  IInv'
  <1> DEFINE r == [call[v] EXCEPT !.pc = "waiting", !.scan = t]
  <1>1. /\ r \in Call /\ r.pc = "waiting"
        /\ r.cand = call[v].cand /\ r.mode = call[v].mode
    BY Facts DEF Call, Pc
  <1>2. CallInv(r, trusted')
    BY <1>1, Facts DEF CallInv, Holding, LoadScan
  <1>3. r.pc \notin Holding /\ call[v].pc \notin Holding
    BY <1>1 DEF Holding, LoadScan
  <1>4. TrustCoversAccepted'
    BY Facts, TrustKept DEF LoadScan
  <1> QED
    BY <1>1, <1>2, <1>3, <1>4, Facts, CallMoves DEF LoadScan

\* A call that records its candidate extends the tree trusted at that moment.
LEMMA AdvanceExtends ==
    ASSUME IInv, NEW v \in Verifier, Advance(v)
    PROVE  /\ call[v].cand \in Checkpoint
           /\ PrefixOf(TreeOf(trusted), call[v].cand.tree)
           /\ trusted' = call[v].cand
           /\ accepted' = accepted \cup {call[v].cand.tree}
  <1> DEFINE c == call[v].cand
  <1>1. call[v].pc = "advancing" /\ call[v].pc \in Holding
    BY DEF Advance, Holding
  <1>2. call[v].stored = trusted /\ c \in Checkpoint /\ Consistent(call[v])
    BY <1>1, Facts DEF CallInv
  <1>3. PrefixOf(TreeOf(trusted), c.tree)
    BY <1>1, <1>2, Facts, ConsistentExtends
  <1>4. trusted \in Checkpoint \cup {None} /\ c.tree \in Tree
    BY <1>2, Facts DEF Checkpoint
  <1>5. CASE trusted = None
    BY <1>2, <1>3, <1>5 DEF Advance, AdvanceLocked, Conflicts
  <1>6. CASE trusted # None
    <2>1. trusted.tree \in Tree /\ PrefixOf(trusted.tree, c.tree)
      BY <1>3, <1>4, <1>6 DEF TreeOf, Checkpoint
    <2>2. /\ Size[trusted.tree] <= Size[c.tree]
          /\ Size[trusted.tree] = Size[c.tree] => trusted.tree = c.tree
      BY <1>4, <2>1, PrefixAssumption
    <2>3. Size[trusted.tree] \in Nat /\ Size[c.tree] \in Nat
      BY <1>4, <2>1, TreesAssumption
    <2>4. ~Conflicts(c) /\ Size[c.tree] >= Size[trusted.tree]
      BY <2>2, <2>3 DEF Conflicts
    <2> QED
      BY <1>2, <1>3, <2>4 DEF Advance, AdvanceLocked
  <1> QED
    BY <1>5, <1>6

\* The candidate is recorded and the lock released (verify_and_advance).
LEMMA AdvanceStep ==
    ASSUME IInv, NEW v \in Verifier, Advance(v)
    PROVE  IInv'
  <1> DEFINE c == call[v].cand
  <1>1. /\ c \in Checkpoint /\ c.tree \in Tree /\ trusted' = c
        /\ PrefixOf(TreeOf(trusted), c.tree)
        /\ accepted' = accepted \cup {c.tree}
    BY AdvanceExtends DEF Checkpoint
  <1>2. lock = v
    BY Facts DEF Advance, Holding
  <1>3. ASSUME NEW t \in accepted' PROVE PrefixOf(t, c.tree)
    <2>1. CASE t = c.tree
      BY <1>1, <2>1, PrefixAssumption
    <2>2. CASE t \in accepted
      <3>1. trusted # None /\ PrefixOf(t, trusted.tree) /\ t \in Tree
        BY <2>2, Facts DEF TrustCoversAccepted
      <3>2. trusted.tree \in Tree /\ PrefixOf(trusted.tree, c.tree)
        BY <1>1, <3>1, Facts DEF TreeOf, Checkpoint
      <3> QED
        BY <1>1, <3>1, <3>2, PrefixAssumption
    <2> QED
      BY <1>1, <1>3, <2>1, <2>2
  <1>4. trusted' # None
    BY <1>1, StoreAssumption
  <1>5. TrustCoversAccepted'
    BY <1>1, <1>3, <1>4 DEF TrustCoversAccepted
  <1>6. \A w \in Verifier \ {v} : lock' = w <=> lock = w
    BY <1>2, StoreAssumption DEF Advance
  <1>7. accepted' \subseteq Tree /\ lock' = None /\ calls' = calls
    BY <1>1, Facts DEF Advance
  <1> QED
    BY <1>1, <1>2, <1>5, <1>6, <1>7, NoCallType, IdleInv, Facts, CallMoves
    DEF Advance, End

\* A call that fails or is cancelled leaves the lock free.
LEMMA GiveUpStep ==
    ASSUME IInv, NEW v \in Verifier, GiveUp(v)
    PROVE  IInv'
  <1>1. TrustCoversAccepted'
    BY Facts, TrustKept DEF GiveUp
  <1>2. \A w \in Verifier \ {v} : lock' = w <=> lock = w
    BY StoreAssumption DEF GiveUp
  <1>3. lock' # v /\ lock' \in Verifier \cup {None}
    BY Facts DEF GiveUp
  <1> QED
    BY <1>1, <1>2, <1>3, NoCallType, IdleInv, Facts, CallMoves DEF GiveUp, End

\* Seeding records a checkpoint or leaves trust alone.
LEMMA PutRecords ==
    ASSUME IInv, NEW c \in Checkpoint, Put(c)
    PROVE  \/ trusted' = trusted
           \/ /\ trusted' = c
              /\ trusted # None =>
                    c.tree = trusted.tree \/ Size[trusted.tree] < Size[c.tree]
  <1>1. trusted \in Checkpoint \cup {None}
    BY DEF IInv, TypeOK
  <1>2. CASE trusted = None
    BY <1>2 DEF Put, AdvanceLocked
  <1>3. CASE trusted # None
    <2>1. Size[trusted.tree] \in Nat /\ Size[c.tree] \in Nat
      BY <1>1, <1>3, TreesAssumption DEF Checkpoint
    <2> QED
      BY <1>3, <2>1 DEF Put, AdvanceLocked, Conflicts
  <1> QED
    BY <1>2, <1>3

\* The operator seeds trust (put).
LEMMA PutStep ==
    ASSUME IInv, NEW c \in Checkpoint, Put(c)
    PROVE  IInv'
  <1>1. /\ trusted \in Checkpoint \cup {None} /\ lock = None
        /\ accepted \subseteq Tree /\ TrustCoversAccepted
        /\ UNCHANGED <<lock, call>>
    BY DEF IInv, TypeOK, Put
  <1>2. trusted' \in Checkpoint \cup {None}
    BY <1>1, PutRecords
  <1>3. calls' \in 0..MaxCalls
    BY StoreAssumption DEF IInv, TypeOK, Put
  <1>4. TrustCoversAccepted' /\ accepted' \subseteq Tree
    <2>1. CASE trusted # None /\ trusted'.tree = trusted.tree
      <3>1. accepted' = accepted
        BY <2>1 DEF Put
      <3>2. trusted' # None
        BY <2>1, PutRecords, StoreAssumption
      <3> QED
        BY <1>1, <2>1, <3>1, <3>2 DEF TrustCoversAccepted
    <2>2. CASE ~(trusted # None /\ trusted'.tree = trusted.tree)
      BY <2>2 DEF Put, TrustCoversAccepted
    <2> QED
      BY <2>1, <2>2
  <1>5. ASSUME NEW w \in Verifier
        PROVE  /\ lock' = w <=> call'[w].pc \in Holding
               /\ CallInv(call'[w], trusted')
    <2>1. call[w].pc \notin Holding /\ CallInv(call[w], trusted)
      BY <1>1, Facts
    <2>2. CallInv(call[w], trusted')
      BY <2>1 DEF CallInv, Holding
    <2> QED
      BY <1>1, <2>1, <2>2, Facts
  <1>6. TypeOK'
    BY <1>1, <1>2, <1>3, <1>4, <1>5 DEF TypeOK, IInv, Holding
  <1> QED
    BY <1>4, <1>5, <1>6 DEF IInv

-----------------------------------------------------------------------------
(* Theorems                                                                *)

\* At the start nobody calls.
LEMMA InitInv ==
    ASSUME Init
    PROVE  IInv
  <1>1. ASSUME NEW v \in Verifier
        PROVE  /\ call[v] = NoCall /\ call[v].pc \notin Holding
               /\ CallInv(call[v], trusted) /\ lock # v
    BY IdleInv, StoreAssumption DEF Init
  <1>2. TypeOK
    BY <1>1, NoCallType, StoreAssumption DEF Init, TypeOK, Holding
  <1>3. TrustCoversAccepted
    BY DEF Init, TrustCoversAccepted
  <1> QED
    BY <1>1, <1>2, <1>3 DEF IInv

\* A step of something else.
LEMMA StutterInv ==
    ASSUME IInv, UNCHANGED vars
    PROVE  IInv'
  <1>1. TypeOK'
    BY DEF IInv, TypeOK, vars
  <1>2. TrustCoversAccepted'
    BY DEF IInv, TrustCoversAccepted, vars
  <1>3. \A v \in Verifier : CallInv(call'[v], trusted')
    BY DEF IInv, vars
  <1> QED
    BY <1>1, <1>2, <1>3 DEF IInv

\* Every step keeps the invariant.
LEMMA NextInv ==
    ASSUME IInv, [Next]_vars
    PROVE  IInv'
  <1>1. ASSUME NEW v \in Verifier, NEW m \in Mode, NEW c \in Checkpoint,
               Start(v, m, c)
        PROVE  IInv'
    BY <1>1, StartStep
  <1>2. ASSUME NEW v \in Verifier, Step(v)
        PROVE  IInv'
    BY <1>2, AsyncReadStep, AsyncCheckStep, AcquireStep, ApproveStep,
       RejectStep, RetryStep, NeedScanStep, LoadScanStep, AdvanceStep DEF Step
  <1>3. ASSUME NEW v \in Verifier, GiveUp(v)
        PROVE  IInv'
    BY <1>3, GiveUpStep
  <1>4. ASSUME NEW c \in Checkpoint, Put(c)
        PROVE  IInv'
    BY <1>4, PutStep
  <1> QED
    BY <1>1, <1>2, <1>3, <1>4, StutterInv DEF Next

\* The invariant from which the properties follow holds throughout.
THEOREM Invariance == Spec => []IInv
  BY InitInv, NextInv, PTL DEF Spec

\* The lock of verify_and_advance is held by exactly the call inside it, in
\* every behaviour of any number of concurrent calls.
THEOREM TypeCorrect == Spec => []TypeOK
  <1>1. IInv => TypeOK
    BY DEF IInv
  <1> QED
    BY <1>1, Invariance, PTL

\* What was accepted stays a prefix of what is trusted.
THEOREM TrustSafe == Spec => []TrustCoversAccepted
  <1>1. IInv => TrustCoversAccepted
    BY DEF IInv
  <1> QED
    BY <1>1, Invariance, PTL

\* No two forked trees are both accepted: two accepted trees are prefixes of
\* the trusted one, hence comparable.
THEOREM OneHistorySafe == Spec => []OneHistory
  <1>1. ASSUME IInv PROVE OneHistory
    <2>1. SUFFICES ASSUME NEW s \in accepted, NEW t \in accepted
                   PROVE  PrefixOf(s, t) \/ PrefixOf(t, s)
      BY DEF OneHistory
    <2>2. /\ trusted # None /\ trusted \in Checkpoint \cup {None}
          /\ PrefixOf(s, trusted.tree) /\ PrefixOf(t, trusted.tree)
          /\ s \in Tree /\ t \in Tree
      BY <1>1 DEF IInv, TypeOK, TrustCoversAccepted
    <2>3. trusted.tree \in Tree
      BY <2>2 DEF Checkpoint
    <2>4. Size[s] \in Nat /\ Size[t] \in Nat
      BY <2>2, TreesAssumption
    <2>5. Size[s] <= Size[t] \/ Size[t] <= Size[s]
      BY <2>4
    <2> QED
      BY <2>2, <2>3, <2>5, PrefixAssumption
  <1> QED
    BY <1>1, Invariance, PTL

\* The store implements TrustedHistory: recording a candidate is Accept,
\* seeding another tree is Seed, every other step leaves the history alone.
THEOREM Implements == Spec => RefinesHistory
  <1>1. ASSUME Init PROVE History!Init
    BY <1>1 DEF Init, History!Init
  <1>2. ASSUME IInv, [Next]_vars PROVE [History!Next]_(History!historyVars)
    <2>1. CASE UNCHANGED <<trusted, accepted>>
      BY <2>1 DEF History!historyVars
    <2>2. ASSUME NEW v \in Verifier, Advance(v)
          PROVE  History!Next
      <3> DEFINE c == call[v].cand
      <3>1. /\ c \in Checkpoint /\ c.tree \in Tree /\ c # None /\ trusted' = c
            /\ PrefixOf(TreeOf(trusted), c.tree)
            /\ accepted' = accepted \cup {c.tree}
        BY <1>2, <2>2, AdvanceExtends, StoreAssumption DEF Checkpoint
      <3>2. History!Accept(c.tree)
        <4>1. CASE trusted = None
          BY <3>1, <4>1 DEF History!Accept
        <4>2. CASE trusted # None
          BY <3>1, <4>2 DEF History!Accept, PrefixOf, TreeOf
        <4> QED
          BY <4>1, <4>2
      <3> QED
        BY <3>1, <3>2 DEF History!Next
    <2>3. ASSUME NEW c \in Checkpoint, Put(c)
          PROVE  [History!Next]_(History!historyVars)
      <3>1. c.tree \in Tree /\ c # None
        BY StoreAssumption DEF Checkpoint
      <3>2. CASE trusted' = trusted
        <4>1. CASE trusted = None
          BY <1>2, <2>3, <3>2, <4>1, <3>1 DEF Put, AdvanceLocked, Conflicts
        <4>2. CASE trusted # None
          BY <2>3, <3>2, <4>2 DEF Put, History!historyVars
        <4> QED
          BY <4>1, <4>2
      <3>3. CASE /\ trusted' = c
                 /\ trusted # None =>
                       c.tree = trusted.tree \/ Size[trusted.tree] < Size[c.tree]
        <4>1. CASE trusted # None /\ c.tree = trusted.tree
          BY <2>3, <3>1, <3>3, <4>1 DEF Put, History!historyVars
        <4>2. CASE trusted # None /\ c.tree # trusted.tree
          <5>1. History!Seed(c.tree)
            BY <2>3, <3>1, <3>3, <4>2 DEF Put, History!Seed
          <5> QED
            BY <3>1, <5>1 DEF History!Next
        <4>3. CASE trusted = None
          <5>1. History!Seed(c.tree)
            BY <2>3, <3>1, <3>3, <4>3 DEF Put, History!Seed
          <5> QED
            BY <3>1, <5>1 DEF History!Next
        <4> QED
          BY <4>1, <4>2, <4>3
      <3> QED
        BY <1>2, <2>3, <3>2, <3>3, PutRecords
    <2>4. \/ UNCHANGED <<trusted, accepted>>
          \/ \E v \in Verifier : Advance(v)
          \/ \E c \in Checkpoint : Put(c)
      BY <1>2 DEF Next, Step, Start, AsyncRead, AsyncCheck, Acquire, Approve,
                  Reject, Retry, NeedScan, LoadScan, GiveUp, vars
    <2> QED
      BY <2>1, <2>2, <2>3, <2>4
  <1> QED
    BY <1>1, <1>2, Invariance, PTL DEF Spec, RefinesHistory, History!Spec

=============================================================================
