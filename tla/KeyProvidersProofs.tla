-------------------------- MODULE KeyProvidersProofs --------------------------
(***************************************************************************)
(* The key file shared by any number of processes, with any number of      *)
(* deaths and power losses: no key a call has reported is lost, no key     *)
(* that was never stored is used, and the file implements the contract of  *)
(* key providers.  Then the cloud providers, for any KMS keys, aliases,    *)
(* versions and threads: no key is lost, a signature is made by the key    *)
(* it was asked of, and both implement the contract.                       *)
(***************************************************************************)
EXTENDS MCKeyProviders, TLAPS

Keys == Key \cup {Old}
Stores == [kind : {"absent", "flat", "store"}, active : Keys \cup {None},
           retained : SUBSET Keys, pending : SUBSET Keys]
Mutations == {"generate_key", "activate", "supersede", "supersede_active"}
Removals == {"supersede", "supersede_active"}
Places == {"idle", "lock", "locked", "write", "sync", "found", "done", "failed", "unlock"}
Jobs == [op : Mutations \cup {"idle", "load"}, kid : Keys \cup {None}, at : Places,
         store : Stores]

Types ==
    /\ file \in Stores /\ durable \in Stores
    /\ lock \in Proc \cup {Free}
    /\ snap \in [Proc -> Stores]
    /\ job \in [Proc -> Jobs]
    /\ promised \subseteq Keys /\ removed \subseteq Keys /\ stored \subseteq Keys

\* A key has one role; a store that is not in the new format is one of two.
Sound(s) ==
    /\ s.active \notin s.retained \cup s.pending /\ s.retained \cap s.pending = {}
    /\ s.kind = "absent" => s = NoStore
    /\ s.kind = "flat" => s = Flat

\* A key that is being generated and not yet stored.
Unborn(j) == j.op = "generate_key" /\ j.at \in {"lock", "locked", "write"}

\* What is about to be written is the change of what the file holds.
Pending(j, f) ==
    \/ j.op = "load" /\ f.kind = "absent" /\ \E k \in Key : j.store = Store(k, {}, {})
    \/ j.op = "load" /\ f.kind = "flat" /\ j.store = Store(Old, {}, {})
    \/ j.op \in Mutations /\ j.store = Mutated(f, j.op, j.kid)

\* What holds of process p in job j, the file being f, what is durable of it d,
\* the holder of the lock h, and the keys ever stored st.
JobOK(p, j, f, d, h, st) ==
    /\ j.at \in {"locked", "write", "sync", "found", "done", "failed", "unlock"} => h = p
    /\ j.at # "idle" => j.op # "idle"
    /\ j.op \in Mutations => f.kind = "store" /\ j.kid # None
    /\ j.at \in {"found", "sync", "done"} => f.kind = "store"
    /\ j.at = "done" => d = f
    /\ j.at = "write" => Pending(j, f)
    /\ j.op = "generate_key" => j.kid \in Key
    /\ Unborn(j) => j.kid \notin st

\* A key being generated by one process is unknown to the others.
Apart(j, i) == Unborn(j) => j.kid # i.kid /\ j.kid \notin KeysOf(i.store)

SnapOK(s, f, st) == KeysOf(s) \subseteq st /\ (s # NoStore => f.kind = "store")

\* Keys promised, and the old key, survive in s or were superseded.
Kept(s) ==
    /\ promised \subseteq KeysOf(s) \cup removed
    /\ Old \in stored => Old \in KeysOf(s) \cup removed
    /\ KeysOf(s) \subseteq stored

IInv ==
    /\ Types
    /\ Sound(file) /\ Sound(durable)
    /\ Kept(file) /\ Kept(durable)
    /\ \A p \in Proc : JobOK(p, job[p], file, durable, lock, stored)
    /\ \A p \in Proc : SnapOK(snap[p], file, stored)
    /\ \A p, q \in Proc : p # q => Apart(job[p], job[q])

-----------------------------------------------------------------------------
(* Stores *)

\* A mutation of a sound store is sound, brings in only the key it generates and
\* takes out only the key it removes.
LEMMA MutatedFacts ==
    ASSUME NEW s \in Stores, NEW op \in Mutations, NEW kid \in Keys,
           Sound(s), s.kind = "store",
           op = "generate_key" => kid \notin KeysOf(s)
    PROVE  /\ Mutated(s, op, kid) \in Stores
           /\ Mutated(s, op, kid).kind = "store"
           /\ Sound(Mutated(s, op, kid))
           /\ KeysOf(Mutated(s, op, kid)) \subseteq
                 KeysOf(s) \cup (IF op = "generate_key" THEN {kid} ELSE {})
           /\ KeysOf(s) \subseteq
                 KeysOf(Mutated(s, op, kid)) \cup (IF op \in Removals THEN {kid} ELSE {})
  <1> DEFINE t == Mutated(s, op, kid)
  <1> USE KeyFileAssumption DEF Stores, Mutations, Removals, Keys, Sound, KeysOf, Store, None
  <1>1. CASE op = "generate_key" /\ s.active # None
    BY <1>1 DEF Mutated
  <1>2. CASE op = "activate" /\ kid \in s.pending
    BY <1>2 DEF Mutated
  <1>3. CASE op = "supersede_active" /\ kid = s.active
    BY Zenon, <1>3 DEF Mutated
  <1>4. CASE op \in Removals /\ kid \in s.retained
    BY Zenon, <1>4 DEF Mutated
  <1>5. CASE t = s  BY Zenon, <1>5
  <1> QED  BY ZenonT(60), <1>1, <1>2, <1>3, <1>4, <1>5 DEF Mutated

\* The stores a load writes.
LEMMA LoadedFacts ==
    ASSUME NEW k \in Keys
    PROVE  /\ Store(k, {}, {}) \in Stores
           /\ Store(k, {}, {}).kind = "store"
           /\ Sound(Store(k, {}, {}))
           /\ KeysOf(Store(k, {}, {})) = {k}
  BY Zenon, KeyFileAssumption DEF Stores, Store, Sound, KeysOf, Keys, None

\* The stores there are before any.
LEMMA FirstFacts ==
    /\ NoStore \in Stores /\ KeysOf(NoStore) = {} /\ Sound(NoStore)
    /\ Flat \in Stores /\ KeysOf(Flat) = {Old} /\ Sound(Flat)
  BY Zenon, KeyFileAssumption DEF Stores, NoStore, Flat, Sound, KeysOf, Keys, None

\* A process that is in no operation.
LEMMA IdleFacts ==
    /\ Idle \in Jobs /\ ~Unborn(Idle)
    /\ KeysOf(Idle.store) = {} /\ Idle.kid = None /\ Idle.at = "idle" /\ Idle.op = "idle"
  BY Zenon, FirstFacts DEF Idle, Jobs, Places, Unborn

-----------------------------------------------------------------------------
(* Steps *)

\* Whatever one process does to its job, its snapshot and the lock keeps the
\* invariant, if it leaves the file and the locks of the others alone and does
\* not promise what is not kept.
LEMMA OneMovesKeeping ==
    ASSUME IInv, NEW p \in Proc, NEW j \in Jobs, NEW s \in Stores,
           job' = [job EXCEPT ![p] = j], snap' = [snap EXCEPT ![p] = s],
           UNCHANGED <<file, durable, stored>>,
           promised' \subseteq Keys, removed' \subseteq Keys, Kept(file)', Kept(durable)',
           lock' \in Proc \cup {Free},
           \A q \in Proc : q # p /\ lock = q => lock' = q,
           JobOK(p, j, file, durable, lock', stored),
           SnapOK(s, file, stored),
           \A q \in Proc : q # p => Apart(j, job[q]) /\ Apart(job[q], j)
    PROVE  IInv'
  <1>1. Types'  BY Zenon DEF IInv, Types
  <1>2. Sound(file)' /\ Sound(durable)'  BY Zenon DEF IInv, Sound
  <1>3. ASSUME NEW q \in Proc PROVE JobOK(q, job[q], file, durable, lock, stored)'
    <2>1. CASE q = p  BY Zenon, <2>1 DEF IInv, Types
    <2>2. CASE q # p
      <3>1. job'[q] = job[q] /\ JobOK(q, job[q], file, durable, lock, stored)
        BY Zenon, <2>2 DEF IInv, Types
      <3> QED  BY <2>2, <3>1 DEF JobOK
    <2> QED  BY Zenon, <2>1, <2>2
  <1>4. ASSUME NEW q \in Proc PROVE SnapOK(snap[q], file, stored)'
    BY Zenon DEF IInv, Types
  <1>5. ASSUME NEW q \in Proc, NEW r \in Proc, q # r PROVE Apart(job[q], job[r])'
    BY Zenon, <1>5 DEF IInv, Types
  <1> QED  BY Zenon, <1>1, <1>2, <1>3, <1>4, <1>5 DEF IInv

\* The same for a step that promises nothing.
LEMMA OneMoves ==
    ASSUME IInv, NEW p \in Proc, NEW j \in Jobs, NEW s \in Stores,
           job' = [job EXCEPT ![p] = j], snap' = [snap EXCEPT ![p] = s],
           UNCHANGED <<file, durable, promised, removed, stored>>,
           lock' \in Proc \cup {Free},
           \A q \in Proc : q # p /\ lock = q => lock' = q,
           JobOK(p, j, file, durable, lock', stored),
           SnapOK(s, file, stored),
           \A q \in Proc : q # p => Apart(j, job[q]) /\ Apart(job[q], j)
    PROVE  IInv'
  <1>1. Kept(file)' /\ Kept(durable)'  BY Zenon DEF IInv, Kept
  <1>2. promised' \subseteq Keys /\ removed' \subseteq Keys  BY Zenon DEF IInv, Types
  <1> QED  BY Zenon, <1>1, <1>2, OneMovesKeeping

\* A process that only goes on in its operation.
LEMMA GoesOn ==
    ASSUME IInv, NEW p \in Proc, NEW at \in Places,
           job' = [job EXCEPT ![p].at = at], UNCHANGED <<file, durable, promised, removed, stored>>,
           lock' \in Proc \cup {Free}, \A q \in Proc : q # p /\ lock = q => lock' = q,
           NEW s \in Stores, snap' = [snap EXCEPT ![p] = s], SnapOK(s, file, stored),
           at \in {"lock", "locked", "write"} => job[p].at \in {"lock", "locked", "write"},
           JobOK(p, [job[p] EXCEPT !.at = at], file, durable, lock', stored)
    PROVE  IInv'
  <1> DEFINE j == [job[p] EXCEPT !.at = at]
  <1>1. job[p] \in Jobs  BY Zenon DEF IInv, Types
  <1>2. j \in Jobs /\ j.op = job[p].op /\ j.kid = job[p].kid /\ j.store = job[p].store
        /\ j.at = at
    BY Zenon, <1>1 DEF Jobs
  <1>3. job' = [job EXCEPT ![p] = j]  BY Zenon DEF IInv, Types
  <1>4. Unborn(j) => Unborn(job[p])  BY Zenon, <1>2 DEF Unborn
  <1>5. JobOK(p, j, file, durable, lock', stored)  BY Zenon
  <1> HIDE DEF j
  <1>6. \A q \in Proc : q # p => Apart(j, job[q]) /\ Apart(job[q], j)
    BY Zenon, <1>2, <1>4 DEF IInv, Apart
  <1> QED  BY Zenon, <1>2, <1>3, <1>5, <1>6, OneMoves

\* The steps of load.
LEMMA LoadSteps ==
    ASSUME IInv, NEW p \in Proc
    PROVE  /\ LoadFast(p) => IInv'
           /\ LoadSlow(p) => IInv'
           /\ (\E k \in IF file.kind = "store" THEN {Old} ELSE Fresh : LoadLocked(p, k)) => IInv'
  <1>1. /\ job[p] \in Jobs /\ snap[p] \in Stores /\ file \in Stores
        /\ JobOK(p, job[p], file, durable, lock, stored)
        /\ SnapOK(snap[p], file, stored) /\ KeysOf(file) \subseteq stored /\ Sound(file)
        /\ \A q \in Proc : q # p => Apart(job[p], job[q]) /\ Apart(job[q], job[p])
        /\ lock \in Proc \cup {Free}
    BY Zenon DEF IInv, Types, Kept
  <1>2. ASSUME LoadFast(p) PROVE IInv'
    <2>1. job' = [job EXCEPT ![p] = job[p]]  BY Zenon, <1>2 DEF LoadFast, IInv, Types
    <2>2. SnapOK(file, file, stored)  BY Zenon, <1>1, <1>2 DEF LoadFast, SnapOK
    <2> QED  BY Zenon, <1>1, <1>2, <2>1, <2>2, OneMoves DEF LoadFast
  <1>3. ASSUME LoadSlow(p) PROVE IInv'
    <2> DEFINE j == [Idle EXCEPT !.op = "load", !.at = "lock"]
    <2>1. j \in Jobs /\ j.op = "load" /\ j.at = "lock" /\ j.kid = None /\ j.store = Idle.store
      BY Zenon, IdleFacts DEF Jobs, Places
    <2>2. job' = [job EXCEPT ![p] = j] /\ UNCHANGED <<file, durable, lock, snap, promised, removed, stored>>
      BY Zenon, <1>3 DEF LoadSlow
    <2>3. snap' = [snap EXCEPT ![p] = snap[p]]  BY Zenon, <2>2 DEF IInv, Types
    <2> HIDE DEF j
    <2>4. JobOK(p, j, file, durable, lock', stored)
      BY Zenon, <2>1 DEF JobOK, Unborn, Mutations
    <2>5. \A q \in Proc : q # p => Apart(j, job[q]) /\ Apart(job[q], j)
      <3> SUFFICES ASSUME NEW q \in Proc, q # p PROVE Apart(j, job[q]) /\ Apart(job[q], j)
        BY Zenon
      <3>1. Apart(j, job[q])  BY Zenon, <2>1 DEF Apart, Unborn
      <3>2. JobOK(q, job[q], file, durable, lock, stored)  BY Zenon DEF IInv
      <3>3. Apart(job[q], j)
        BY Zenon, <2>1, <3>2, IdleFacts, KeyFileAssumption DEF Apart, Unborn, JobOK, None
      <3> QED  BY Zenon, <3>1, <3>3
    <2> QED  BY Zenon, <1>1, <2>1, <2>2, <2>3, <2>4, <2>5, OneMoves
  <1>4. ASSUME NEW k \in IF file.kind = "store" THEN {Old} ELSE Fresh, LoadLocked(p, k)
        PROVE  IInv'
    <2>1. /\ UNCHANGED <<file, durable, lock, snap, promised, removed, stored>>
          /\ job[p].op = "load" /\ job[p].at = "locked" /\ lock = p
      BY Zenon, <1>1, <1>4 DEF LoadLocked, JobOK
    <2>2. snap' = [snap EXCEPT ![p] = snap[p]]  BY Zenon, <2>1 DEF IInv, Types
    <2>3. CASE file.kind = "store"
      <3>1. job' = [job EXCEPT ![p].at = "found"]
        BY Zenon, <1>4, <2>3 DEF LoadLocked, ReRead, Step
      <3> DEFINE j == [job[p] EXCEPT !.at = "found"]
      <3>2. j.op = "load" /\ j.at = "found"  BY Zenon, <1>1, <2>1 DEF Jobs
      <3> HIDE DEF j
      <3>3. JobOK(p, j, file, durable, lock', stored)
        BY Zenon, <2>1, <2>3, <3>2 DEF JobOK, Unborn, Mutations
      <3>4. "found" \in Places  BY Zenon DEF Places
      <3> QED  BY Zenon, <1>1, <2>1, <2>2, <3>1, <3>3, <3>4, GoesOn DEF j
    <2>4. CASE file.kind # "store"
      <3> DEFINE t == ReRead(p, k)
                 j == [job[p] EXCEPT !.at = "write", !.store = t]
      <3>1. k \in Key /\ \A q \in Proc : job[q].kid # k
        BY Zenon, <1>4, <2>4 DEF Fresh
      <3>2. \/ file.kind = "absent" /\ t = Store(k, {}, {})
            \/ file.kind = "flat" /\ t = Store(Old, {}, {})
        BY Zenon, <1>1, <2>4 DEF ReRead, Stores
      <3>3. t \in Stores /\ t.kind = "store" /\ (KeysOf(t) = {k} \/ KeysOf(t) = {Old})
        BY Zenon, <3>1, <3>2, LoadedFacts DEF Keys
      <3>4. t # file  BY Zenon, <2>4, <3>3
      <3>5. job' = [job EXCEPT ![p] = j]
        BY Zenon, <1>4, <3>4 DEF LoadLocked, IInv, Types
      <3> HIDE DEF t
      <3>6. j \in Jobs /\ j.op = "load" /\ j.at = "write" /\ j.kid = job[p].kid /\ j.store = t
        BY Zenon, <1>1, <2>1, <3>3 DEF Jobs, Places
      <3> HIDE DEF j
      <3>7. Pending(j, file)  BY Zenon, <3>1, <3>2, <3>6 DEF Pending
      <3>8. JobOK(p, j, file, durable, lock', stored)
        BY Zenon, <2>1, <3>6, <3>7 DEF JobOK, Unborn, Mutations
      <3>9. ASSUME NEW q \in Proc, q # p PROVE Apart(j, job[q]) /\ Apart(job[q], j)
        <4>1. Apart(j, job[q])  BY Zenon, <3>6 DEF Apart, Unborn
        <4>2. JobOK(q, job[q], file, durable, lock, stored) /\ Apart(job[q], job[p])
          BY Zenon, <1>1, <3>9 DEF IInv
        <4>3. Apart(job[q], j)
          BY Zenon, <3>1, <3>3, <3>6, <4>2, KeyFileAssumption DEF Apart, Unborn, JobOK
        <4> QED  BY Zenon, <4>1, <4>3
      <3> QED  BY Zenon, <1>1, <2>1, <2>2, <3>5, <3>6, <3>8, <3>9, OneMoves
    <2> QED  BY Zenon, <2>3, <2>4
  <1> QED  BY Zenon, <1>2, <1>3, <1>4

\* A mutation is called: with a fresh key to generate, or with a key the
\* process knows.
LEMMA BeginStep ==
    ASSUME IInv, NEW p \in Proc, NEW op \in Mutations, NEW kid \in Keys, Begin(p, op, kid),
           \/ op = "generate_key" /\ kid \in Fresh
           \/ op # "generate_key" /\ kid \in KeysOf(snap[p])
    PROVE  IInv'
  <1> DEFINE j == [Idle EXCEPT !.op = op, !.kid = kid, !.at = "lock"]
  <1>1. j \in Jobs /\ j.op = op /\ j.at = "lock" /\ j.kid = kid /\ j.store = Idle.store
    BY Zenon, IdleFacts DEF Jobs, Places
  <1>2. job' = [job EXCEPT ![p] = j] /\ UNCHANGED <<file, durable, lock, snap, promised, removed, stored>>
    BY Zenon DEF Begin
  <1>3. snap' = [snap EXCEPT ![p] = snap[p]] /\ snap[p] \in Stores /\ SnapOK(snap[p], file, stored)
        /\ lock' \in Proc \cup {Free}
    BY Zenon, <1>2 DEF IInv, Types
  <1> HIDE DEF j
  <1>4. file.kind = "store"  BY Zenon, <1>3 DEF Begin, SnapOK
  <1>5. kid # None  BY Zenon, KeyFileAssumption DEF Keys, None
  <1>6. op = "generate_key" => kid \in Key \ stored
    BY Zenon, <1>3 DEF Fresh, SnapOK
  <1>7. JobOK(p, j, file, durable, lock', stored)
    BY Zenon, <1>1, <1>4, <1>5, <1>6 DEF JobOK, Unborn, Mutations
  <1>8. ASSUME NEW q \in Proc, q # p PROVE Apart(j, job[q]) /\ Apart(job[q], j)
    <2>1. Apart(j, job[q])  BY Zenon, <1>1 DEF Apart, Unborn, Fresh
    <2>2. JobOK(q, job[q], file, durable, lock, stored)  BY Zenon DEF IInv
    <2>3. op # "generate_key" => kid \in stored  BY Zenon, <1>3 DEF SnapOK
    <2>4. op = "generate_key" => job[q].kid # kid  BY Zenon DEF Fresh
    <2>5. Apart(job[q], j)
      BY Zenon, <1>1, <2>2, <2>3, <2>4, IdleFacts DEF Apart, JobOK
    <2> QED  BY Zenon, <2>1, <2>5
  <1> QED  BY Zenon, <1>1, <1>2, <1>3, <1>7, <1>8, OneMoves

\* The steps of an operation that leave the file alone.
LEMMA QuietSteps ==
    ASSUME IInv, NEW p \in Proc
    PROVE  /\ Acquire(p) => IInv'
           /\ WriteFails(p) => IInv'
           /\ SyncFails(p) => IInv'
           /\ Unlock(p) => IInv'
           /\ Dies(p) => IInv'
  <1>1. /\ job[p] \in Jobs /\ snap[p] \in Stores
        /\ JobOK(p, job[p], file, durable, lock, stored)
        /\ SnapOK(snap[p], file, stored) /\ lock \in Proc \cup {Free}
    BY Zenon DEF IInv, Types
  <1>2. \A q \in Proc : q # Free  BY Zenon, KeyFileAssumption DEF Free
  <1>3. {"locked", "failed"} \subseteq Places  BY Zenon DEF Places
  <1>4. ASSUME Acquire(p) PROVE IInv'
    <2> DEFINE j == [job[p] EXCEPT !.at = "locked"]
    <2>1. /\ job' = [job EXCEPT ![p].at = "locked"] /\ lock' = p /\ job[p].at = "lock" /\ lock = Free
          /\ UNCHANGED <<file, durable, snap, promised, removed, stored>>
      BY Zenon, <1>4 DEF Acquire, Step
    <2>2. snap' = [snap EXCEPT ![p] = snap[p]]  BY Zenon, <2>1 DEF IInv, Types
    <2>3. j.op = job[p].op /\ j.kid = job[p].kid /\ j.at = "locked"  BY Zenon, <1>1 DEF Jobs
    <2> HIDE DEF j
    <2>4. JobOK(p, j, file, durable, lock', stored)
      BY Zenon, <1>1, <2>1, <2>3 DEF JobOK, Unborn
    <2> QED  BY Zenon, <1>1, <1>2, <1>3, <2>1, <2>2, <2>4, GoesOn DEF j
  <1>5. ASSUME WriteFails(p) \/ SyncFails(p) PROVE IInv'
    <2> DEFINE j == [job[p] EXCEPT !.at = "failed"]
    <2>1. /\ job' = [job EXCEPT ![p].at = "failed"] /\ job[p].at \in {"write", "sync"}
          /\ UNCHANGED <<file, durable, lock, snap, promised, removed, stored>>
      BY Zenon, <1>5 DEF WriteFails, SyncFails, Step
    <2>2. snap' = [snap EXCEPT ![p] = snap[p]]  BY Zenon, <2>1 DEF IInv, Types
    <2>3. j.op = job[p].op /\ j.kid = job[p].kid /\ j.at = "failed"  BY Zenon, <1>1 DEF Jobs
    <2> HIDE DEF j
    <2>4. JobOK(p, j, file, durable, lock', stored)
      BY Zenon, <1>1, <2>1, <2>3 DEF JobOK, Unborn
    <2> QED  BY Zenon, <1>1, <1>3, <2>1, <2>2, <2>4, GoesOn DEF j
  <1>6. \A q \in Proc : q # p => Apart(Idle, job[q]) /\ Apart(job[q], Idle)
    <2> SUFFICES ASSUME NEW q \in Proc, q # p
                 PROVE  Apart(Idle, job[q]) /\ Apart(job[q], Idle)
      BY Zenon
    <2>1. JobOK(q, job[q], file, durable, lock, stored)  BY Zenon DEF IInv
    <2>2. Unborn(job[q]) => job[q].kid # None
      BY Zenon, <2>1, KeyFileAssumption DEF JobOK, Unborn, None
    <2> QED  BY Zenon, <2>2, IdleFacts DEF Apart
  <1>7. \A h : JobOK(p, Idle, file, durable, h, stored)
    BY Zenon, IdleFacts DEF JobOK, Mutations
  <1>8. ASSUME Unlock(p) PROVE IInv'
    <2>1. /\ job' = [job EXCEPT ![p] = Idle] /\ lock' = Free /\ lock = p
          /\ UNCHANGED <<file, durable, snap, promised, removed, stored>>
      BY Zenon, <1>1, <1>8 DEF Unlock, JobOK
    <2>2. snap' = [snap EXCEPT ![p] = snap[p]]  BY Zenon, <2>1 DEF IInv, Types
    <2> QED  BY Zenon, <1>1, <1>6, <1>7, <2>1, <2>2, IdleFacts, OneMoves
  <1>9. ASSUME Dies(p) PROVE IInv'
    <2>1. /\ job' = [job EXCEPT ![p] = Idle] /\ snap' = [snap EXCEPT ![p] = NoStore]
          /\ lock' = IF lock = p THEN Free ELSE lock
          /\ UNCHANGED <<file, durable, promised, removed, stored>>
      BY Zenon, <1>9 DEF Dies
    <2>2. SnapOK(NoStore, file, stored)  BY Zenon, FirstFacts DEF SnapOK
    <2> QED  BY Zenon, <1>1, <1>6, <1>7, <2>1, <2>2, IdleFacts, FirstFacts, OneMoves
  <1> QED  BY Zenon, <1>4, <1>5, <1>8, <1>9

\* The changed copy is made from the file as it is under the lock.
LEMMA MutateStep ==
    ASSUME IInv, NEW p \in Proc, Mutate(p)
    PROVE  IInv'
  <1> DEFINE t == Mutated(file, job[p].op, job[p].kid)
  <1>1. /\ job[p] \in Jobs /\ file \in Stores /\ Sound(file) /\ KeysOf(file) \subseteq stored
        /\ JobOK(p, job[p], file, durable, lock, stored) /\ lock \in Proc \cup {Free}
    BY Zenon DEF IInv, Types, Kept
  <1>2. /\ job[p].op \in Mutations /\ job[p].at = "locked" /\ lock = p
        /\ job[p].kid \in Keys /\ file.kind = "store"
    BY Zenon, <1>1 DEF Mutate, JobOK, Jobs
  <1>3. /\ snap' = [snap EXCEPT ![p] = file]
        /\ UNCHANGED <<file, durable, lock, promised, removed, stored>>
        /\ job' = IF t = file THEN [job EXCEPT ![p].at = "unlock"]
                  ELSE [job EXCEPT ![p].at = "write", ![p].store = t]
    BY Zenon DEF Mutate, Reloaded, Step
  <1>4. SnapOK(file, file, stored)  BY Zenon, <1>1, <1>2 DEF SnapOK
  <1>5. CASE t = file
    <2> DEFINE j == [job[p] EXCEPT !.at = "unlock"]
    <2>1. j.op = job[p].op /\ j.kid = job[p].kid /\ j.at = "unlock"  BY Zenon, <1>1 DEF Jobs
    <2> HIDE DEF j
    <2>2. JobOK(p, j, file, durable, lock', stored)
      BY Zenon, <1>1, <1>2, <1>3, <2>1 DEF JobOK, Unborn
    <2>3. "unlock" \in Places  BY Zenon DEF Places
    <2> QED  BY Zenon, <1>1, <1>3, <1>4, <1>5, <2>2, <2>3, GoesOn DEF j
  <1>6. CASE t # file
    <2> DEFINE j == [job[p] EXCEPT !.at = "write", !.store = t]
    <2>1. /\ t \in Stores
          /\ KeysOf(t) \subseteq KeysOf(file) \cup (IF job[p].op = "generate_key" THEN {job[p].kid} ELSE {})
      <3>1. job[p].op = "generate_key" => job[p].kid \notin KeysOf(file)
        BY Zenon, <1>1, <1>2 DEF JobOK, Unborn
      <3> QED  BY <1>1, <1>2, <3>1, MutatedFacts
    <2>2. job' = [job EXCEPT ![p] = j]  BY Zenon, <1>3, <1>6 DEF IInv, Types
    <2>3. Pending([job[p] EXCEPT !.at = "write", !.store = t], file)
      <3>1. j.op = job[p].op /\ j.kid = job[p].kid /\ j.store = t
        BY Zenon, <1>1 DEF Jobs
      <3> QED  BY Zenon, <1>2, <3>1 DEF Pending
    <2> HIDE DEF t
    <2>4. j \in Jobs /\ j.op = job[p].op /\ j.kid = job[p].kid /\ j.at = "write" /\ j.store = t
      BY Zenon, <1>1, <2>1 DEF Jobs, Places
    <2> HIDE DEF j
    <2>5. Pending(j, file)  BY Zenon, <2>3 DEF j
    <2>6. JobOK(p, j, file, durable, lock', stored)
      BY Zenon, <1>1, <1>2, <1>3, <2>4, <2>5 DEF JobOK, Unborn
    <2>7. ASSUME NEW q \in Proc, q # p PROVE Apart(j, job[q]) /\ Apart(job[q], j)
      <3>1. Apart(job[p], job[q]) /\ Apart(job[q], job[p])
            /\ JobOK(q, job[q], file, durable, lock, stored)
        BY Zenon, <2>7 DEF IInv
      <3>2. Apart(j, job[q])  BY Zenon, <1>2, <2>4, <3>1 DEF Apart, Unborn
      <3>3. Apart(job[q], j)
        BY Zenon, <1>1, <2>1, <2>4, <3>1 DEF Apart, JobOK
      <3> QED  BY Zenon, <3>2, <3>3
    <2> QED  BY Zenon, <1>1, <1>3, <1>4, <2>2, <2>4, <2>6, <2>7, OneMoves
  <1> QED  BY Zenon, <1>5, <1>6

\* The end of a call: the snapshot is the file, and a call that wrote it without
\* an error promises its keys.
LEMMA FinishStep ==
    ASSUME IInv, NEW p \in Proc, Finish(p)
    PROVE  IInv'
  <1> DEFINE j == [job[p] EXCEPT !.at = "unlock"]
             s == IF job[p].op = "load" /\ job[p].at = "failed" THEN NoStore ELSE file
  <1>1. /\ job[p] \in Jobs /\ file \in Stores /\ lock \in Proc \cup {Free}
        /\ JobOK(p, job[p], file, durable, lock, stored)
        /\ Kept(file) /\ Kept(durable) /\ promised \subseteq Keys /\ removed \subseteq Keys
        /\ stored \subseteq Keys
    BY Zenon DEF IInv, Types
  <1>2. /\ job' = [job EXCEPT ![p] = j] /\ snap' = [snap EXCEPT ![p] = s]
        /\ UNCHANGED <<file, durable, lock, removed, stored>>
        /\ promised' = IF job[p].at = "done" THEN promised \cup KeysOf(file) ELSE promised
        /\ job[p].at \in {"found", "done", "failed"} /\ lock = p
    BY Zenon, <1>1 DEF Finish, Step, IInv, Types, JobOK
  <1>3. s \in Stores /\ SnapOK(s, file, stored)
    <2>1. job[p].op = "load" \/ job[p].op \in Mutations  BY Zenon, <1>1, <1>2 DEF Jobs, JobOK
    <2>2. CASE s = NoStore  BY Zenon, <2>2, FirstFacts DEF SnapOK
    <2>3. CASE s = file /\ ~(job[p].op = "load" /\ job[p].at = "failed")
      <3>1. file.kind = "store"  BY Zenon, <1>1, <1>2, <2>1, <2>3 DEF JobOK
      <3> QED  BY Zenon, <1>1, <2>3, <3>1 DEF SnapOK, Kept
    <2> QED  BY Zenon, <2>2, <2>3
  <1>4. j \in Jobs /\ j.op = job[p].op /\ j.kid = job[p].kid /\ j.at = "unlock"
        /\ j.store = job[p].store
    BY Zenon, <1>1 DEF Jobs, Places
  <1> HIDE DEF j, s
  <1>5. JobOK(p, j, file, durable, lock', stored)
    BY Zenon, <1>1, <1>2, <1>4 DEF JobOK, Unborn
  <1>6. \A q \in Proc : q # p => Apart(j, job[q]) /\ Apart(job[q], j)
    BY Zenon, <1>4 DEF IInv, Apart, Unborn
  <1>7. promised' \subseteq Keys /\ Kept(file)' /\ Kept(durable)'
    BY Zenon, <1>1, <1>2 DEF Kept, JobOK
  <1> QED  BY Zenon, <1>1, <1>2, <1>3, <1>4, <1>5, <1>6, <1>7, OneMovesKeeping

\* What a process is about to write keeps every key but one it supersedes.
LEMMA PendingFacts ==
    ASSUME NEW j \in Jobs, NEW f \in Stores, Sound(f), Pending(j, f),
           j.op \in Mutations => f.kind = "store" /\ j.kid \in Keys,
           j.op = "generate_key" => j.kid \in Key /\ j.kid \notin KeysOf(f)
    PROVE  /\ j.store \in Stores /\ j.store.kind = "store" /\ Sound(j.store)
           /\ KeysOf(f) \subseteq KeysOf(j.store) \cup (IF j.op \in Removals THEN {j.kid} ELSE {})
           /\ Old \in KeysOf(j.store) => Old \in KeysOf(f)
  <1>1. CASE f.kind = "absent" /\ \E k \in Key : j.store = Store(k, {}, {})
    <2>1. PICK k \in Key : j.store = Store(k, {}, {})  BY Zenon, <1>1
    <2>2. KeysOf(f) = {}  BY Zenon, <1>1, FirstFacts DEF Sound
    <2> QED  BY Zenon, <2>1, <2>2, LoadedFacts, KeyFileAssumption DEF Keys
  <1>2. CASE f.kind = "flat" /\ j.store = Store(Old, {}, {})
    <2>1. KeysOf(f) = {Old}  BY Zenon, <1>2, FirstFacts DEF Sound
    <2> QED  BY Zenon, <1>2, <2>1, LoadedFacts DEF Keys
  <1>3. CASE j.op \in Mutations /\ j.store = Mutated(f, j.op, j.kid)
    BY SMTT(20), <1>3, MutatedFacts, KeyFileAssumption DEF Removals
  <1> QED  BY Zenon, <1>1, <1>2, <1>3 DEF Pending

\* The file is replaced.
LEMMA ReplaceStep ==
    ASSUME IInv, NEW p \in Proc, Replace(p)
    PROVE  IInv'
  <1> DEFINE j == [job[p] EXCEPT !.at = "sync"]
             lost == IF job[p].op \in Removals THEN {job[p].kid} ELSE {}
  <1>1. /\ job[p] \in Jobs /\ file \in Stores /\ Sound(file)
        /\ JobOK(p, job[p], file, durable, lock, stored)
        /\ Kept(file) /\ Kept(durable) /\ promised \subseteq Keys /\ removed \subseteq Keys
        /\ stored \subseteq Keys
    BY Zenon DEF IInv, Types
  <1>2. /\ job' = [job EXCEPT ![p] = j] /\ file' = job[p].store
        /\ UNCHANGED <<durable, lock, snap, promised>>
        /\ stored' = stored \cup KeysOf(job[p].store)
        /\ removed' = removed \cup lost
        /\ job[p].at = "write" /\ lock = p
    BY Zenon, <1>1 DEF Replace, Step, IInv, Types, JobOK, Removals
  <1>3. j \in Jobs /\ j.op = job[p].op /\ j.kid = job[p].kid /\ j.at = "sync"
        /\ j.store = job[p].store
    BY Zenon, <1>1 DEF Jobs, Places
  <1>4. job[p].op \in Mutations => job[p].kid \in Keys
    BY Zenon, <1>1 DEF JobOK, Jobs
  <1>5. /\ job[p].store \in Stores /\ job[p].store.kind = "store" /\ Sound(job[p].store)
        /\ KeysOf(file) \subseteq KeysOf(job[p].store) \cup lost
        /\ Old \in KeysOf(job[p].store) => Old \in KeysOf(file)
    <2>1. Pending(job[p], file)  BY Zenon, <1>1, <1>2 DEF JobOK
    <2>2. job[p].op = "generate_key" => job[p].kid \in Key /\ job[p].kid \notin KeysOf(file)
      BY Zenon, <1>1, <1>2 DEF JobOK, Unborn, Kept
    <2>3. job[p].op \in Mutations => file.kind = "store"  BY Zenon, <1>1 DEF JobOK
    <2> QED  BY Zenon, <1>1, <1>4, <2>1, <2>2, <2>3, PendingFacts
  <1>6. lost \subseteq Keys  BY Zenon, <1>4 DEF Removals, Mutations
  <1> HIDE DEF j, lost
  <1>7. KeysOf(job[p].store) \subseteq Keys  BY Zenon, <1>5 DEF Stores, KeysOf
  <1>8. Types'  BY Zenon, <1>1, <1>2, <1>3, <1>5, <1>6, <1>7 DEF IInv, Types
  <1>9. Sound(file)' /\ Sound(durable)'
    <2>1. Sound(file')  BY Zenon, <1>2, <1>5
    <2>2. Sound(durable')  BY Zenon, <1>2 DEF IInv
    <2> QED  BY Zenon, <2>1, <2>2 DEF Sound
  <1>10. Kept(file)' /\ Kept(durable)'  BY Zenon, <1>1, <1>2, <1>5 DEF Kept
  <1>11. ASSUME NEW q \in Proc PROVE JobOK(q, job[q], file, durable, lock, stored)'
    <2>1. CASE q = p
      <3>1. JobOK(p, j, file', durable', lock', stored')
        BY Zenon, <1>1, <1>2, <1>3, <1>5 DEF JobOK, Unborn
      <3>2. job'[p] = j  BY Zenon, <1>2 DEF IInv, Types
      <3> QED  BY Zenon, <2>1, <3>1, <3>2
    <2>2. CASE q # p
      <3>1. job'[q] = job[q] /\ JobOK(q, job[q], file, durable, lock, stored)
            /\ Apart(job[q], job[p])
        BY Zenon, <1>2, <2>2 DEF IInv, Types
      <3>2. JobOK(q, job[q], file', durable', lock', stored')
        BY Zenon, <1>2, <1>5, <2>2, <3>1 DEF JobOK, Apart
      <3> QED  BY Zenon, <3>1, <3>2
    <2> QED  BY Zenon, <2>1, <2>2
  <1>12. ASSUME NEW q \in Proc PROVE SnapOK(snap[q], file, stored)'
    BY Zenon, <1>2, <1>5 DEF IInv, SnapOK
  <1>13. ASSUME NEW q \in Proc, NEW r \in Proc, q # r PROVE Apart(job[q], job[r])'
    <2>1. Apart(job[q], job[r])  BY Zenon, <1>13 DEF IInv
    <2>2. job'[q] = (IF q = p THEN j ELSE job[q]) /\ job'[r] = (IF r = p THEN j ELSE job[r])
      BY Zenon, <1>2 DEF IInv, Types
    <2> QED  BY Zenon, <1>3, <2>1, <2>2 DEF Apart, Unborn
  <1> QED  BY Zenon, <1>8, <1>9, <1>10, <1>11, <1>12, <1>13 DEF IInv

\* The directory entry is synced.
LEMMA SyncStep ==
    ASSUME IInv, NEW p \in Proc, Sync(p)
    PROVE  IInv'
  <1> DEFINE j == [job[p] EXCEPT !.at = "done"]
  <1>1. /\ job[p] \in Jobs /\ JobOK(p, job[p], file, durable, lock, stored)
        /\ Sound(file) /\ Kept(file)
    BY Zenon DEF IInv, Types
  <1>2. /\ job' = [job EXCEPT ![p] = j] /\ durable' = file
        /\ UNCHANGED <<file, lock, snap, promised, removed, stored>>
        /\ job[p].at = "sync" /\ lock = p
    BY Zenon, <1>1 DEF Sync, Step, IInv, Types, JobOK
  <1>3. j \in Jobs /\ j.op = job[p].op /\ j.kid = job[p].kid /\ j.at = "done"
        /\ j.store = job[p].store
    BY Zenon, <1>1 DEF Jobs, Places
  <1> HIDE DEF j
  <1>4. Types'  BY Zenon, <1>2, <1>3 DEF IInv, Types
  <1>5. Sound(file)' /\ Sound(durable)' /\ Kept(file)' /\ Kept(durable)'
    BY Zenon, <1>1, <1>2 DEF Kept, Sound
  <1>6. ASSUME NEW q \in Proc PROVE JobOK(q, job[q], file, durable, lock, stored)'
    <2>1. CASE q = p
      <3>1. JobOK(p, j, file', durable', lock', stored')
        BY Zenon, <1>1, <1>2, <1>3 DEF JobOK, Unborn
      <3>2. job'[p] = j  BY Zenon, <1>2 DEF IInv, Types
      <3> QED  BY Zenon, <2>1, <3>1, <3>2
    <2>2. CASE q # p
      <3>1. job'[q] = job[q] /\ JobOK(q, job[q], file, durable, lock, stored)
        BY Zenon, <1>2, <2>2 DEF IInv, Types
      <3>2. JobOK(q, job[q], file', durable', lock', stored')
        BY Zenon, <1>2, <2>2, <3>1 DEF JobOK
      <3> QED  BY Zenon, <3>1, <3>2
    <2> QED  BY Zenon, <2>1, <2>2
  <1>7. ASSUME NEW q \in Proc PROVE SnapOK(snap[q], file, stored)'
    BY Zenon, <1>2 DEF IInv
  <1>8. ASSUME NEW q \in Proc, NEW r \in Proc, q # r PROVE Apart(job[q], job[r])'
    <2>1. Apart(job[q], job[r])  BY Zenon, <1>8 DEF IInv
    <2>2. job'[q] = (IF q = p THEN j ELSE job[q]) /\ job'[r] = (IF r = p THEN j ELSE job[r])
      BY Zenon, <1>2 DEF IInv, Types
    <2> QED  BY Zenon, <1>3, <2>1, <2>2 DEF Apart, Unborn
  <1> QED  BY Zenon, <1>4, <1>5, <1>6, <1>7, <1>8 DEF IInv

\* When no process is in an operation or has a snapshot, only the file counts.
LEMMA AllIdle ==
    ASSUME Types, Sound(file), Sound(durable), Kept(file), Kept(durable),
           job = [p \in Proc |-> Idle], snap = [p \in Proc |-> NoStore]
    PROVE  IInv
  <1>1. ASSUME NEW p \in Proc
        PROVE  JobOK(p, job[p], file, durable, lock, stored) /\ SnapOK(snap[p], file, stored)
    BY Zenon, IdleFacts, FirstFacts DEF JobOK, SnapOK, Mutations
  <1>2. ASSUME NEW p \in Proc, NEW q \in Proc PROVE Apart(job[p], job[q])
    BY Zenon, IdleFacts DEF Apart
  <1> QED  BY Zenon, <1>1, <1>2 DEF IInv

\* A power loss leaves the file or what was durable of it, and a removal that
\* was undone is no longer one.
LEMMA PowerLossStep == IInv /\ PowerLoss => IInv'
  <1> SUFFICES ASSUME IInv, PowerLoss PROVE IInv'  BY Zenon
  <1>1. /\ file' \in Stores /\ Sound(file') /\ durable' = file'
        /\ promised \subseteq KeysOf(file') \cup removed
        /\ Old \in stored => Old \in KeysOf(file') \cup removed
        /\ KeysOf(file') \subseteq stored
    BY Zenon DEF IInv, Types, Kept, PowerLoss
  <1>2. /\ removed' = removed \ KeysOf(file')
        /\ job' = [p \in Proc |-> Idle] /\ snap' = [p \in Proc |-> NoStore] /\ lock' = Free
        /\ promised' = promised /\ stored' = stored
    BY Zenon DEF PowerLoss
  <1>3. Types'  BY Zenon, <1>1, <1>2, IdleFacts, FirstFacts DEF IInv, Types
  <1>4. Sound(file)' /\ Sound(durable)'  BY Zenon, <1>1 DEF Sound
  <1>5. Kept(file)' /\ Kept(durable)'  BY Zenon, <1>1, <1>2 DEF Kept
  <1>6. ASSUME NEW p \in Proc
        PROVE  JobOK(p, job[p], file, durable, lock, stored)' /\ SnapOK(snap[p], file, stored)'
    <2>1. job'[p] = Idle /\ snap'[p] = NoStore  BY Zenon, <1>2
    <2>2. JobOK(p, Idle, file', durable', lock', stored')  BY Zenon, IdleFacts DEF JobOK, Mutations
    <2>3. SnapOK(NoStore, file', stored')  BY Zenon, FirstFacts DEF SnapOK
    <2> QED  BY Zenon, <2>1, <2>2, <2>3
  <1>7. ASSUME NEW p \in Proc, NEW q \in Proc PROVE Apart(job[p], job[q])'
    BY Zenon, <1>2, IdleFacts DEF Apart
  <1> QED  BY Zenon, <1>3, <1>4, <1>5, <1>6, <1>7 DEF IInv

\* The file is absent, in the old format, or in the new one.
LEMMA InitIInv == Init => IInv
  <1> SUFFICES ASSUME Init PROVE IInv  BY Zenon
  <1>1. file = NoStore \/ file = Flat \/ file = Store(Old, {}, {})  BY Zenon DEF Init
  <1>2. file \in Stores /\ Sound(file) /\ KeysOf(file) \subseteq Keys
    BY Zenon, <1>1, FirstFacts, LoadedFacts DEF Keys
  <1>3. /\ durable = file /\ lock = Free /\ promised = {} /\ removed = {} /\ stored = KeysOf(file)
        /\ job = [p \in Proc |-> Idle] /\ snap = [p \in Proc |-> NoStore]
    BY Zenon DEF Init
  <1>4. Types  BY Zenon, <1>2, <1>3, IdleFacts, FirstFacts DEF Types
  <1>5. Kept(file) /\ Kept(durable)  BY Zenon, <1>3 DEF Kept
  <1> QED  BY Zenon, <1>2, <1>3, <1>4, <1>5, AllIdle

\* Every step of every process, and every loss, keeps the invariant.
LEMMA NextIInv == IInv /\ [Next]_vars => IInv'
  <1> SUFFICES ASSUME IInv, [Next]_vars PROVE IInv'  BY Zenon
  <1>1. ASSUME NEW p \in Proc, Work(p) PROVE IInv'
    BY Zenon, <1>1, LoadSteps, QuietSteps, MutateStep, FinishStep, ReplaceStep, SyncStep DEF Work
  <1>2. ASSUME NEW p \in Proc, Call(p) PROVE IInv'
    <2>1. ASSUME NEW k \in Fresh, Begin(p, "generate_key", k) PROVE IInv'
      BY Zenon, <2>1, BeginStep DEF Fresh, Mutations, Keys
    <2>2. ASSUME NEW k \in KeysOf(snap[p]), NEW op \in {"activate", "supersede", "supersede_active"},
                 Begin(p, op, k)
          PROVE  IInv'
      <3>1. k \in Keys /\ op \in Mutations /\ op # "generate_key"
        BY Zenon DEF IInv, Types, SnapOK, Mutations
      <3> QED  BY Zenon, <2>2, <3>1, BeginStep
    <2> QED  BY Zenon, <1>2, <2>1, <2>2, LoadSteps DEF Call
  <1>3. ASSUME NEW p \in Proc, Dies(p) PROVE IInv'  BY Zenon, <1>3, QuietSteps
  <1>4. CASE PowerLoss  BY Zenon, <1>4, PowerLossStep
  <1>5. CASE UNCHANGED vars
    BY Zenon, <1>5 DEF vars, IInv, Types, Sound, Kept, JobOK, SnapOK, Apart
  <1> QED  BY Zenon, <1>1, <1>2, <1>3, <1>4, <1>5 DEF Next

-----------------------------------------------------------------------------
(* Theorems *)

\* No two processes are between reload and unlock at once.
THEOREM MutationsExclude == Spec => []Exclusive
  <1>1. IInv => Exclusive  BY Zenon DEF IInv, JobOK, Exclusive
  <1> QED  BY InitIInv, NextIInv, <1>1, PTL DEF Spec

\* Every key a call has reported stays in the file until it is superseded,
\* whichever processes write, fail, die or lose power.
THEOREM ReportedStay == Spec => []ReportedKeysAreKept
  <1>1. IInv => ReportedKeysAreKept  BY Zenon DEF IInv, Kept, ReportedKeysAreKept
  <1> QED  BY InitIInv, NextIInv, <1>1, PTL DEF Spec

\* The key of a store in the old format survives its migration.
THEOREM OldStays == Spec => []OldKeyIsKept
  <1>1. IInv => OldKeyIsKept  BY Zenon DEF IInv, Kept, OldKeyIsKept
  <1> QED  BY InitIInv, NextIInv, <1>1, PTL DEF Spec

\* No process signs with a key that was never in the file.
THEOREM NothingPhantom == Spec => []NoPhantomKey
  <1>1. IInv => NoPhantomKey  BY Zenon DEF IInv, SnapOK, NoPhantomKey
  <1> QED  BY InitIInv, NextIInv, <1>1, PTL DEF Spec

\* No key that was reported or found in the old format is lost, and none appears
\* that was never stored.
THEOREM KeysStay == Spec => []KeysKept
  BY ReportedStay, OldStays, NothingPhantom, PTL DEF KeysKept

\* What a process writes changes the roles of the keys as the contract allows.
LEMMA ReplaceIsRingStep ==
    ASSUME IInv, NEW p \in Proc, Replace(p)
    PROVE  KR!Next \/ UNCHANGED KR!ringVars
  <1>1. /\ job[p] \in Jobs /\ file \in Stores /\ Sound(file) /\ Kept(file)
        /\ JobOK(p, job[p], file, durable, lock, stored)
    BY Zenon DEF IInv, Types
  <1>2. /\ file' = job[p].store /\ durable' = durable
        /\ job[p].at = "write" /\ Pending(job[p], file)
    BY Zenon, <1>1 DEF Replace, JobOK
  <1> DEFINE kid == job[p].kid
  <1>3. CASE file.kind = "absent" /\ \E k \in Key : job[p].store = Store(k, {}, {})
    <2>1. PICK k \in Key : job[p].store = Store(k, {}, {})  BY Zenon, <1>3
    <2>2. file = NoStore  BY Zenon, <1>1, <1>3 DEF Sound
    <2>3. KR!Create(k)
      BY SMTT(20), <1>2, <2>1, <2>2 DEF KR!Create, KR!Empty, RingOf, NoStore, Store
    <2> QED  BY Zenon, <2>3 DEF KR!Next
  <1>4. CASE file.kind = "flat" /\ job[p].store = Store(Old, {}, {})
    <2>1. file = Flat  BY Zenon, <1>1, <1>4 DEF Sound
    <2> QED  BY <1>2, <1>4, <2>1 DEF KR!ringVars, RingOf, Flat, Store
  <1>5. CASE job[p].op \in Mutations /\ job[p].store = Mutated(file, job[p].op, kid)
    <2>1. kid \in Key \cup {Old}  BY Zenon, <1>1, <1>5 DEF Jobs, JobOK, Keys
    <2>2. file' = Mutated(file, job[p].op, kid)  BY Zenon, <1>2, <1>5
    <2>3. CASE job[p].op = "generate_key" /\ file.active # None
      <3>1. file' = [file EXCEPT !.pending = @ \cup {kid}]  BY Zenon, <2>2, <2>3 DEF Mutated
      <3>2. kid \notin KeysOf(file)  BY Zenon, <1>1, <1>2, <2>3 DEF JobOK, Unborn, Kept
      <3>3. KR!Generate(kid)
        BY <1>1, <1>2, <3>1, <3>2 DEF KR!Generate, KR!Held, RingOf, KeysOf, Stores
      <3> QED  BY Zenon, <2>1, <3>3 DEF KR!Next
    <2>4. CASE job[p].op = "activate" /\ kid \in file.pending
      <3>1. file' = Store(kid, file.retained \cup ({file.active} \ {None}), file.pending \ {kid})
        BY Zenon, <2>2, <2>4 DEF Mutated
      <3>2. KR!Activate(kid)
        BY <1>2, <2>4, <3>1 DEF KR!Activate, RingOf, Store
      <3> QED  BY Zenon, <2>1, <3>2 DEF KR!Next
    <2>5. CASE job[p].op = "supersede_active" /\ kid = file.active
      <3>1. file' = [file EXCEPT !.active = None]  BY Zenon, <1>1, <2>2, <2>5 DEF Mutated, Sound
      <3>2. KR!SupersedeActive(kid)
        BY <1>1, <1>2, <2>5, <3>1 DEF KR!SupersedeActive, RingOf, Stores
      <3> QED  BY Zenon, <2>1, <3>2 DEF KR!Next
    <2>6. CASE /\ job[p].op \in Removals /\ kid \in file.retained
               /\ ~(job[p].op = "supersede_active" /\ kid = file.active)
      <3>1. file' = [file EXCEPT !.retained = @ \ {kid}]
        BY Zenon, <2>2, <2>6 DEF Mutated, Removals
      <3>2. KR!Supersede(kid)
        BY SMTT(20), <1>1, <1>2, <2>6, <3>1 DEF KR!Supersede, RingOf, Stores
      <3> QED  BY Zenon, <2>1, <3>2 DEF KR!Next
    <2>7. CASE file' = file  BY Zenon, <1>2, <2>7 DEF KR!ringVars, RingOf
    <2> QED  BY Zenon, <1>5, <2>2, <2>3, <2>4, <2>5, <2>6, <2>7 DEF Mutated, Mutations, Removals
  <1> QED  BY Zenon, <1>2, <1>3, <1>4, <1>5 DEF Pending

\* The shared file implements the contract of key providers: every replacement
\* is one change of roles, syncing it saves it, and a power loss is a restart.
THEOREM FileIsKeyRing == Spec => RefinesKeyRing
  <1>1. Init => KR!Init
    <2> SUFFICES ASSUME Init PROVE KR!Init  BY Zenon
    <2>1. IInv /\ durable = file  BY Zenon, InitIInv DEF Init
    <2>2. file \in Stores /\ Sound(file)  BY Zenon, <2>1 DEF IInv, Types
    <2> QED  BY Zenon, <2>1, <2>2 DEF KR!Init, KR!Ring, RingOf, Stores, Keys, Sound
  <1>2. ASSUME IInv, [Next]_vars PROVE [KR!Next]_(KR!ringVars)
    <2>1. ASSUME NEW p \in Proc, Work(p) PROVE [KR!Next]_(KR!ringVars)
      <3>1. CASE Replace(p)  BY Zenon, <1>2, <3>1, ReplaceIsRingStep
      <3>2. CASE Sync(p)  BY Zenon, <3>2 DEF Sync, KR!Next, KR!Save
      <3>3. CASE ~Replace(p) /\ ~Sync(p)
        <4>1. UNCHANGED <<file, durable>>
          BY Zenon, <2>1, <3>3 DEF Work, Acquire, Mutate, WriteFails, SyncFails, Finish, Unlock,
             LoadLocked
        <4> QED  BY Zenon, <4>1 DEF KR!ringVars
      <3> QED  BY Zenon, <3>1, <3>2, <3>3
    <2>2. ASSUME NEW p \in Proc, Call(p) \/ Dies(p) PROVE [KR!Next]_(KR!ringVars)
      BY Zenon, <2>2 DEF Call, LoadFast, LoadSlow, Begin, Dies, KR!ringVars
    <2>3. CASE PowerLoss
      <3>1. CASE file' = file
        BY Zenon, <2>3, <3>1 DEF PowerLoss, KR!Next, KR!Save
      <3>2. CASE file' = durable
        BY Zenon, <2>3, <3>2 DEF PowerLoss, KR!Next, KR!Restart
      <3> QED  BY Zenon, <2>3, <3>1, <3>2 DEF PowerLoss
    <2>4. CASE UNCHANGED vars  BY Zenon, <2>4 DEF vars, KR!ringVars
    <2> QED  BY Zenon, <1>2, <2>1, <2>2, <2>3, <2>4 DEF Next
  <1> QED  BY InitIInv, NextIInv, <1>1, <1>2, PTL DEF Spec, RefinesKeyRing, KR!Spec

-----------------------------------------------------------------------------
(* What the contract promises of the roles, for the keys of the file.  *)

\* Every change of the roles keeps them disjoint, saved or not.
LEMMA StepKeepsRoles ==
    ASSUME KR!RolesDisjoint, [KR!Next]_(KR!ringVars)
    PROVE  KR!RolesDisjoint'
  <1>0. None \notin Keys  BY Zenon, KeyFileAssumption DEF None, Keys
  <1> USE <1>0 DEF KR!RolesDisjoint, KR!OneRole, KR!Ring, Keys
  <1>1. ASSUME NEW k \in Keys, KR!Create(k) PROVE KR!RolesDisjoint'
    BY Zenon, <1>1 DEF KR!Create, KR!Empty
  <1>2. ASSUME NEW k \in Keys, KR!Generate(k) PROVE KR!RolesDisjoint'
    BY SMTT(20), <1>2 DEF KR!Generate, KR!Held
  <1>3. ASSUME NEW k \in Keys, KR!Activate(k) PROVE KR!RolesDisjoint'
    BY <1>3 DEF KR!Activate
  <1>4. ASSUME NEW k \in Keys, KR!Supersede(k) PROVE KR!RolesDisjoint'
    BY Zenon, <1>4 DEF KR!Supersede
  <1>5. ASSUME NEW k \in Keys, KR!SupersedeActive(k) PROVE KR!RolesDisjoint'
    BY Zenon, <1>5 DEF KR!SupersedeActive
  <1>6. CASE KR!Save  BY Zenon, <1>6 DEF KR!Save
  <1>7. CASE KR!Restart  BY Zenon, <1>7 DEF KR!Restart
  <1>8. CASE UNCHANGED KR!ringVars  BY Zenon, <1>8 DEF KR!ringVars
  <1> QED  BY Zenon, <1>1, <1>2, <1>3, <1>4, <1>5, <1>6, <1>7, <1>8 DEF KR!Next

\* Whatever is generated, activated, superseded, synced and lost, no key of the
\* file is active, retained and pending in two of these roles.
THEOREM RolesStayDisjoint == Spec => []KR!RolesDisjoint
  <1>1. KR!Init => KR!RolesDisjoint  BY Zenon DEF KR!Init, KR!RolesDisjoint, KR!OneRole
  <1>2. KR!RolesDisjoint /\ [KR!Next]_(KR!ringVars) => KR!RolesDisjoint'  BY Zenon, StepKeepsRoles
  <1> QED  BY <1>1, <1>2, FileIsKeyRing, PTL DEF RefinesKeyRing, KR!Spec

\* The key a rotation has retired signs again only if a power loss undoes the
\* rotation.
THEOREM RetiredStaysRetired == Spec => KR!NoComeback
  <1> DEFINE Stays == \A k \in Keys :
               k \in RingOf(file).retained /\ RingOf(file)' # RingOf(durable) =>
                   k # RingOf(file)'.active /\ k \notin RingOf(file)'.pending
  <1>0. None \notin Keys  BY Zenon, KeyFileAssumption DEF None, Keys
  <1>1. ASSUME KR!RolesDisjoint, [KR!Next]_(KR!ringVars) PROVE Stays
    <2> SUFFICES ASSUME NEW k \in Keys, k \in RingOf(file).retained,
                        RingOf(file)' # RingOf(durable)
                 PROVE  k # RingOf(file)'.active /\ k \notin RingOf(file)'.pending
      BY Zenon
    <2> USE <1>0, <1>1 DEF KR!RolesDisjoint, KR!OneRole, KR!Ring, Keys
    <2>1. ASSUME NEW j \in Keys, KR!Create(j) PROVE FALSE
      BY Zenon, <2>1 DEF KR!Create, KR!Empty
    <2>2. ASSUME NEW j \in Keys, KR!Generate(j)
          PROVE k # RingOf(file)'.active /\ k \notin RingOf(file)'.pending
      BY <2>2 DEF KR!Generate, KR!Held
    <2>3. ASSUME NEW j \in Keys, KR!Activate(j)
          PROVE k # RingOf(file)'.active /\ k \notin RingOf(file)'.pending
      BY <2>3 DEF KR!Activate
    <2>4. ASSUME NEW j \in Keys, KR!Supersede(j)
          PROVE k # RingOf(file)'.active /\ k \notin RingOf(file)'.pending
      BY Zenon, <2>4 DEF KR!Supersede
    <2>5. ASSUME NEW j \in Keys, KR!SupersedeActive(j)
          PROVE k # RingOf(file)'.active /\ k \notin RingOf(file)'.pending
      BY Zenon, <2>5 DEF KR!SupersedeActive
    <2>6. CASE KR!Save  BY Zenon, <2>6 DEF KR!Save
    <2>7. CASE KR!Restart  BY Zenon, <2>7 DEF KR!Restart
    <2>8. CASE UNCHANGED KR!ringVars  BY Zenon, <2>8 DEF KR!ringVars
    <2> QED  BY Zenon, <2>1, <2>2, <2>3, <2>4, <2>5, <2>6, <2>7, <2>8 DEF KR!Next, Keys
  <1>2. Spec => []KR!RolesDisjoint  BY Zenon, RolesStayDisjoint
  <1> QED  BY <1>1, <1>2, FileIsKeyRing, PTL DEF RefinesKeyRing, KR!Spec, KR!NoComeback, Keys

-----------------------------------------------------------------------------
(* Google Cloud KMS *)

GoogleCalls ==
    [op : {"idle", "generate_key", "sign"}, kid : Google!Kid \cup {noKey},
     version : Version \cup {noKey}]

\* A key of the provider has a version with its thumbprint, only the holder of
\* the lock is in a call, and a call that signs has a key that may.
GoogleInv ==
    /\ Google!TypeOK /\ starts \in Nat
    /\ versions \in [DOMAIN versions -> Version]
    /\ \A kid \in DOMAIN versions : VersionThumb[versions[kid]] = kid
    /\ ({active} \ {noKey}) \cup retained \cup pending \subseteq DOMAIN versions
    /\ gJob \in [Thread -> GoogleCalls]
    /\ \A t \in Thread : gJob[t].op # "idle" => gLock = t
    /\ \A t \in Thread : gJob[t].op = "generate_key" => gJob[t].version \in Version
    /\ Google!NoRetiredSignature

\* A new Google provider has its first version only.
LEMMA InitGoogleInv == Google!Init => GoogleInv
  <1> USE CloudAssumption
      DEF Google!GoogleAssumption, Google!Kid, Google!Free, Google!Idle, GoogleCalls
  <1> SUFFICES ASSUME Google!Init PROVE GoogleInv  BY Zenon
  <1>1. Google!TypeOK  BY Zenon DEF Google!Init, Google!TypeOK
  <1>2. Google!NoRetiredSignature  BY Zenon DEF Google!Init, Google!NoRetiredSignature
  <1>3. versions \in [DOMAIN versions -> Version]  BY Zenon DEF Google!Init
  <1>4. \A kid \in DOMAIN versions : VersionThumb[versions[kid]] = kid  BY Zenon DEF Google!Init
  <1> QED  BY Zenon, <1>1, <1>2, <1>3, <1>4 DEF Google!Init, GoogleInv

\* A call that is under way holds the lock, so the roles change only while no
\* other call signs.
LEMMA NextGoogleInv == GoogleInv /\ [Google!Next]_(Google!vars) => GoogleInv'
  <1> USE CloudAssumption
      DEF Google!GoogleAssumption, Google!Kid, Google!Free, Google!Idle, GoogleCalls, GoogleInv,
          Google!TypeOK, Google!NoRetiredSignature
  <1> SUFFICES ASSUME GoogleInv, [Google!Next]_(Google!vars) PROVE GoogleInv'  BY Zenon
  <1>1. ASSUME NEW t \in Thread, NEW v \in Version, Google!Create(t, v) PROVE GoogleInv'
    BY SMTT(20), <1>1 DEF Google!Create, Google!Enters, Google!roles
  <1>2. ASSUME NEW t \in Thread, NEW kid \in Google!Kid, Google!Activate(t, kid)
        PROVE  GoogleInv'
    BY SMTT(20), <1>2 DEF Google!Activate
  <1>3. ASSUME NEW t \in Thread, NEW kid \in Google!Kid, Google!Sign(t, kid) PROVE GoogleInv'
    BY SMTT(20), <1>3 DEF Google!Sign, Google!Enters, Google!roles
  <1>4. ASSUME NEW t \in Thread, NEW kid \in Google!Kid, NEW a \in BOOLEAN,
               Google!Supersede(t, kid, a)
        PROVE  GoogleInv'
    BY <1>4 DEF Google!Supersede
  <1>5. ASSUME NEW t \in Thread, Google!Register(t) PROVE GoogleInv'
    <2> DEFINE v == gJob[t].version
    <2>1. /\ v \in Version /\ VersionThumb[v] \in Google!Kid /\ gLock = t
          /\ gLock' = Google!Free /\ gJob' = [gJob EXCEPT ![t] = Google!Idle]
          /\ active' = active /\ retained' = retained /\ starts' = starts
      BY Zenon, <1>5 DEF Google!Register, Google!Leaves
    <2>2. /\ gJob' \in [Thread -> GoogleCalls] /\ gLock' \in Thread \cup {Google!Free}
          /\ \A u \in Thread : gJob'[u].op = "idle"
      BY SMTT(20), <2>1
    <2>3. CASE UNCHANGED <<versions, pending>>  BY Zenon, <2>1, <2>2, <2>3
    <2>4. CASE /\ Google!MayRegister(v)
               /\ versions' = [kid \in DOMAIN versions \cup {VersionThumb[v]} |->
                                IF kid \in DOMAIN versions THEN versions[kid] ELSE v]
               /\ pending' = pending \cup {VersionThumb[v]}
      <3>1. VersionThumb[v] \notin DOMAIN versions  BY Zenon, <2>4 DEF Google!MayRegister
      <3> HIDE DEF v
      <3>2. /\ DOMAIN versions' = DOMAIN versions \cup {VersionThumb[v]}
            /\ versions' \in [DOMAIN versions' -> Version]
            /\ \A kid \in DOMAIN versions' : VersionThumb[versions'[kid]] = kid
        BY Zenon, <2>1, <2>4, <3>1
      <3>3. Google!TypeOK'  BY SMTT(20), <2>1, <2>2, <2>4, <3>1, <3>2
      <3>4. ({active'} \ {noKey}) \cup retained' \cup pending' \subseteq DOMAIN versions'
        BY Zenon, <2>1, <2>4, <3>2
      <3>5. Google!NoRetiredSignature'  BY Zenon, <2>2
      <3> QED  BY Zenon, <2>1, <2>2, <3>2, <3>3, <3>4, <3>5
    <2> QED  BY Zenon, <1>5, <2>3, <2>4 DEF Google!Register
  <1>6. ASSUME NEW t \in Thread, Google!Signed(t) PROVE GoogleInv'
    BY Zenon, <1>6 DEF Google!Signed, Google!Leaves, Google!roles
  <1>7. CASE Google!Start  BY SMTT(20), <1>7 DEF Google!Start
  <1>8. CASE UNCHANGED Google!vars  BY Zenon, <1>8 DEF Google!vars
  <1> HIDE DEF GoogleInv, GoogleCalls, Google!Kid, Google!Idle, Google!TypeOK,
               Google!NoRetiredSignature
  <1> QED  BY Zenon, <1>1, <1>2, <1>3, <1>4, <1>5, <1>6, <1>7, <1>8 DEF Google!Next


\* A process starts as the contract does.
LEMMA InitGoogleRing == Google!Init => Google!KR!Init
  BY Zenon, CloudAssumption
     DEF Google!GoogleAssumption, Google!Kid, Google!Init, Google!KR!Init, Google!KR!Ring

\* Every step is a step of the contract or changes no role.
LEMMA NextGoogleRing ==
    ASSUME GoogleInv, [Google!Next]_(Google!vars)
    PROVE  [Google!KR!Next]_(Google!KR!ringVars)
  <1> USE CloudAssumption DEF Google!GoogleAssumption, Google!KR!ringVars
  <1>1. ASSUME NEW t \in Thread, NEW v \in Version, Google!Create(t, v)
        PROVE  UNCHANGED <<active, retained, pending>>
    BY Zenon, <1>1 DEF Google!Create, Google!roles
  <1>2. ASSUME NEW t \in Thread, NEW kid \in Google!Kid, Google!Activate(t, kid)
        PROVE  Google!KR!Activate(kid)
    BY Zenon, <1>2 DEF Google!Activate, Google!KR!Activate
  <1>3. ASSUME NEW t \in Thread, NEW kid \in Google!Kid, Google!Sign(t, kid)
        PROVE  UNCHANGED <<active, retained, pending>>
    BY Zenon, <1>3 DEF Google!Sign, Google!roles
  <1>4. ASSUME NEW t \in Thread, NEW kid \in Google!Kid, NEW a \in BOOLEAN,
               Google!Supersede(t, kid, a)
        PROVE  Google!KR!Supersede(kid) \/ Google!KR!SupersedeActive(kid)
    BY <1>4 DEF Google!Supersede, Google!KR!Supersede, Google!KR!SupersedeActive
  <1>5. ASSUME NEW t \in Thread, Google!Register(t)
        PROVE  \/ UNCHANGED <<active, retained, pending>>
               \/ \E kid \in Google!Kid : Google!KR!Generate(kid)
    <2> SUFFICES ASSUME Google!MayRegister(gJob[t].version),
                        pending' = pending \cup {VersionThumb[gJob[t].version]}
                 PROVE  Google!KR!Generate(VersionThumb[gJob[t].version])
                        /\ VersionThumb[gJob[t].version] \in Google!Kid
      BY Zenon, <1>5 DEF Google!Register
    <2> DEFINE kid == VersionThumb[gJob[t].version]
    <2>1. kid \in Google!Kid /\ active' = active /\ retained' = retained
      BY Zenon, <1>5 DEF Google!Register, GoogleInv, Google!Kid
    <2>2. kid \notin ({active} \ {noKey}) \cup retained \cup pending
      BY Zenon DEF Google!MayRegister, GoogleInv
    <2>3. pending' = pending \cup {kid}  BY Zenon
    <2> SUFFICES Google!KR!Generate(kid)  BY Zenon, <2>1
    <2> HIDE DEF kid
    <2> QED  BY <2>1, <2>2, <2>3 DEF Google!KR!Generate, Google!KR!Held
  <1>6. ASSUME NEW t \in Thread, Google!Signed(t)
        PROVE  UNCHANGED <<active, retained, pending>>
    BY Zenon, <1>6 DEF Google!Signed, Google!roles
  <1>7. CASE Google!Start  BY Zenon, <1>7 DEF Google!Start, Google!KR!Restart, Google!KR!Next
  <1>8. CASE UNCHANGED Google!vars  BY Zenon, <1>8 DEF Google!vars
  <1> QED  BY Zenon, <1>1, <1>2, <1>3, <1>4, <1>5, <1>6, <1>7, <1>8 DEF Google!Next, Google!KR!Next

\* A thumbprint keeps its version as long as the process lives.
LEMMA VersionsStay ==
    ASSUME GoogleInv, [Google!Next]_(Google!vars), starts' = starts,
           NEW kid \in DOMAIN versions
    PROVE  kid \in DOMAIN versions' /\ versions'[kid] = versions[kid]
  <1>1. ASSUME Google!Start PROVE FALSE
    BY <1>1 DEF Google!Start, GoogleInv
  <1>2. ASSUME NEW t \in Thread, Google!Register(t)
        PROVE  kid \in DOMAIN versions' /\ versions'[kid] = versions[kid]
    BY Zenon, <1>2 DEF Google!Register
  <1> QED  BY Zenon, <1>1, <1>2
           DEF Google!Next, Google!vars, Google!Create, Google!Activate, Google!Supersede,
               Google!Sign, Google!Signed

-----------------------------------------------------------------------------
(* AWS KMS *)

AwsOps == {"idle", "unsaved", "load", "generate_key", "schedule", "drop"}
AwsTypes ==
    /\ schedule \in {"delete", "keep"}
    /\ kms \in [KmsKey -> {"absent", "enabled", "deleting"}]
    /\ alias \in [Alias -> KmsKey]
    /\ state \in Aws!Roles /\ saved \in Aws!Roles
    /\ jwks \in [DOMAIN jwks -> Aws!Kid] /\ DOMAIN jwks \subseteq Aws!Ref
    /\ bound \in [DOMAIN bound -> KmsKey] /\ DOMAIN bound \subseteq Aws!Kid
    /\ admin \in [op : AwsOps, kid : Aws!Kid \cup {noKey}, key : KmsKey \cup {noKey}]
    /\ signer \in [at : {"idle", "begun", "sent"}, kid : Aws!Kid \cup {noKey},
                   key : KmsKey \cup {noKey}]

\* The cache holds KMS key k under its own id, and its thumbprint leads back to it.
Cached(k) ==
    /\ k \in KmsKey /\ k \in DOMAIN jwks /\ jwks[k] = KmsThumb[k]
    /\ KmsThumb[k] \in DOMAIN bound /\ bound[KmsThumb[k]] = k

\* A thumbprint is bound to a key that has it; a role that was loaded is cached.
Caches ==
    /\ \A i \in DOMAIN bound : KmsThumb[bound[i]] = i
    /\ \A r \in Aws!Refs(state) : admin.op # "load" \/ r \in DOMAIN jwks => Cached(r)

\* What the two threads know of the keys they are at.
AwsCalls ==
    /\ admin.op \in {"idle", "unsaved", "load"} => admin.kid = noKey /\ admin.key = noKey
    /\ admin.op = "generate_key" =>
         admin.key \in KmsKey \ Aws!Refs(state) /\ kms[admin.key] # "absent"
    /\ admin.op \in {"schedule", "drop"} =>
         /\ admin.key \in state.retained \cup ({state.active} \cap forced)
         /\ admin.key # noKey /\ admin.kid = KmsThumb[admin.key]
    /\ admin.op = "load" => signer.at = "idle"
    /\ signer.at = "sent" => signer.key \in KmsKey /\ KmsThumb[signer.key] = signer.kid
    /\ Aws!SignedByKid

RoleOf(s, r) == IF r = s.active THEN "active" ELSE IF r \in s.retained THEN "retained" ELSE "pending"

\* In roles s every KMS key is named once and exists, and none is being deleted
\* that may sign, but the active one when the caller superseded it.
Distinct(s) ==
    /\ Aws!OneRole(s)
    /\ \A r, q \in Aws!Refs(s) : Aws!Canonical(r) = Aws!Canonical(q) => r = q
    /\ \A r \in Aws!Refs(s) :
         /\ kms[Aws!Canonical(r)] # "absent"
         /\ kms[Aws!Canonical(r)] = "deleting" =>
              RoleOf(s, r) # "pending" /\ (RoleOf(s, r) = "active" => Aws!Canonical(r) \in forced)

\* A KMS key that is both in the roles and in what was saved has the same role,
\* unless a change has still to be saved.
Agree ==
    admin.op # "unsaved" =>
        \A r \in Aws!Refs(state), q \in Aws!Refs(saved) :
            Aws!Canonical(r) = Aws!Canonical(q) => RoleOf(state, r) = RoleOf(saved, q)

\* Aliases lead to keys that need not be accounted for otherwise.
AwsKnown == Enabled \cup named \cup gone
Accounts ==
    /\ \A a \in Alias : alias[a] \in AwsKnown
    /\ Aws!KeysAccounted
    /\ admin.op = "load" => Aws!Refs(state) \subseteq Aws!Refs(saved) \cup (KmsKey \cap AwsKnown)

\* What the caller saved names KMS keys, and its thumbprints are those of the time.
SavedAsKnown ==
    savedKids # noKey => Aws!Refs(saved) \subseteq KmsKey /\ savedKids = Aws!Kids(saved)

AwsInv ==
    /\ AwsTypes /\ Caches /\ AwsCalls
    /\ Distinct(state) /\ Distinct(saved) /\ Agree
    /\ Accounts /\ SavedAsKnown

\* What is assumed of KMS, without the configurations.
LEMMA AwsConstants ==
    ASSUME Aws!AwsAssumption
    PROVE  /\ noKey \notin KmsKey \cup Alias \cup Aws!Kid /\ KmsKey \cap Alias = {}
           /\ Enabled \subseteq KmsKey /\ FirstAlias \in [Alias -> Enabled]
           /\ \A k \in KmsKey : KmsThumb[k] \in Aws!Kid
  BY Zenon DEF Aws!AwsAssumption, Aws!Ref, Aws!Kid

\* A reference stands for a KMS key, and the id of a KMS key for itself.
LEMMA AwsCanonicalFacts ==
    ASSUME Aws!AwsAssumption, alias \in [Alias -> KmsKey]
    PROVE  /\ \A r \in Aws!Ref : Aws!Canonical(r) \in KmsKey
           /\ \A k \in KmsKey : Aws!Canonical(k) = k
  BY Zenon, AwsConstants DEF Aws!Canonical, Aws!Target, Aws!Ref

\* The references of roles are references.
LEMMA AwsRefsFacts ==
    ASSUME Aws!AwsAssumption, NEW s \in Aws!Roles
    PROVE  Aws!Refs(s) \subseteq Aws!Ref /\ noKey \notin Aws!Refs(s)
  BY Zenon, AwsConstants DEF Aws!Roles, Aws!Refs, Aws!Ref

\* Replacing a reference by its KMS key keeps the roles.
LEMMA AwsResolvedFacts ==
    ASSUME Aws!AwsAssumption, NEW s \in Aws!Roles, Aws!OneRole(s), NEW r \in Aws!Refs(s), NEW k \in KmsKey,
           k \in Aws!Refs(s) => k = r
    PROVE  /\ Aws!Resolved(s, r, k) \in Aws!Roles /\ Aws!OneRole(Aws!Resolved(s, r, k))
           /\ Aws!Refs(Aws!Resolved(s, r, k)) = (Aws!Refs(s) \ {r}) \cup {k}
           /\ RoleOf(Aws!Resolved(s, r, k), k) = RoleOf(s, r)
           /\ \A x \in Aws!Refs(s) \ {r} : RoleOf(Aws!Resolved(s, r, k), x) = RoleOf(s, x)
  <1> USE AwsConstants DEF Aws!Roles, Aws!Refs, Aws!Ref, Aws!OneRole, RoleOf
  <1> DEFINE t == Aws!Resolved(s, r, k)
  <1>1. /\ t.active = IF s.active = r THEN k ELSE s.active
        /\ \A x : x \in t.retained <=> (x = k /\ r \in s.retained) \/ (x # r /\ x \in s.retained)
        /\ \A x : x \in t.pending <=> (x = k /\ r \in s.pending) \/ (x # r /\ x \in s.pending)
    BY DEF Aws!Resolved
  <1>2. t \in Aws!Roles  BY Zenon, <1>1 DEF Aws!Resolved
  <1> HIDE DEF t
  <1>3. Aws!OneRole(t)  BY <1>1
  <1>4. Aws!Refs(t) = (Aws!Refs(s) \ {r}) \cup {k}  BY Zenon, <1>1
  <1>5. RoleOf(t, k) = RoleOf(s, r)  BY Zenon, <1>1
  <1>6. \A x \in Aws!Refs(s) \ {r} : RoleOf(t, x) = RoleOf(s, x)  BY Zenon, <1>1
  <1> QED  BY Zenon, <1>2, <1>3, <1>4, <1>5, <1>6 DEF t

\* The configuration the caller starts with is sound.
LEMMA InitAwsInv ==
    ASSUME Aws!AwsAssumption, Aws!Init
    PROVE  AwsInv
  <1> USE AwsConstants
  <1>1. /\ saved \in Aws!Roles /\ Aws!OneRole(saved) /\ state = saved /\ alias = FirstAlias
        /\ \A r, q \in Aws!Refs(saved) :
             /\ Aws!Canonical(r) \in Enabled
             /\ KmsThumb[Aws!Canonical(r)] = KmsThumb[Aws!Canonical(q)] => r = q
    BY Zenon DEF Aws!Init, Aws!AwsAssumption, Aws!Canonical
  <1>2. /\ admin.op = "load" /\ admin.kid = noKey /\ admin.key = noKey /\ signer.at = "idle"
        /\ DOMAIN jwks = {} /\ DOMAIN bound = {} /\ given = {}
        /\ \A k \in Enabled : kms[k] = "enabled"
    BY DEF Aws!Init, Aws!Loading, Aws!Call, Aws!Quiet
  <1>3. AwsTypes
    BY <1>1, <1>2 DEF Aws!Init, AwsTypes, Aws!Loading, Aws!Call, Aws!Quiet, AwsOps
  <1>4. Caches  BY Zenon, <1>2 DEF Caches
  <1>5. AwsCalls  BY Zenon, <1>2 DEF AwsCalls, Aws!SignedByKid
  <1>6. Distinct(saved)  BY Zenon, <1>1, <1>2 DEF Distinct
  <1>7. Agree  BY Zenon, <1>1, <1>6 DEF Agree, Distinct
  <1>8. Accounts  BY Zenon, <1>1, <1>2 DEF Accounts, AwsKnown, Aws!KeysAccounted, Aws!Init
  <1>9. SavedAsKnown  BY Zenon DEF SavedAsKnown, Aws!Init
  <1> QED  BY Zenon, <1>1, <1>3, <1>4, <1>5, <1>6, <1>7, <1>8, <1>9 DEF AwsInv

\* What load and generate_key put into the cache keeps what is cached.
LEMMA AwsBindFacts ==
    ASSUME Aws!AwsAssumption, AwsTypes, Caches, NEW r \in Aws!Ref, NEW k \in KmsKey, r \in KmsKey => r = k,
           Aws!MayBind(k), Aws!Bind(r, k)
    PROVE  /\ jwks' \in [DOMAIN jwks' -> Aws!Kid] /\ DOMAIN jwks' = DOMAIN jwks \cup {r, k}
           /\ bound' \in [DOMAIN bound' -> KmsKey] /\ DOMAIN bound' \subseteq Aws!Kid
           /\ \A i \in DOMAIN bound' : KmsThumb[bound'[i]] = i
           /\ Cached(k)'
           /\ \A x : Cached(x) => Cached(x)'
  <1> USE AwsConstants DEF AwsTypes, Caches, Aws!MayBind, Aws!Bind
  <1>1. jwks' \in [DOMAIN jwks' -> Aws!Kid] /\ DOMAIN jwks' = DOMAIN jwks \cup {r, k}
    BY Zenon
  <1>2. /\ bound' \in [DOMAIN bound' -> KmsKey] /\ DOMAIN bound' \subseteq Aws!Kid
        /\ \A i \in DOMAIN bound' : KmsThumb[bound'[i]] = i
    BY Zenon
  <1>3. Cached(k)'  BY Zenon DEF Cached
  <1>4. ASSUME NEW x, Cached(x) PROVE Cached(x)'
    BY Zenon, <1>4 DEF Cached, Aws!Ref
  <1> QED  BY Zenon, <1>1, <1>2, <1>3, <1>4

\* load resolves one reference and caches its key.
LEMMA AwsLoadOneStep ==
    ASSUME Aws!AwsAssumption, AwsInv, NEW r \in Aws!Refs(state), NEW k \in KmsKey, k = Aws!Canonical(r),
           Aws!LoadOne(r)
    PROVE  AwsInv'
  <1> USE AwsConstants, AwsCanonicalFacts, AwsRefsFacts
  <1>1. /\ AwsTypes /\ Caches /\ Distinct(state) /\ Aws!OneRole(state)
        /\ alias \in [Alias -> KmsKey] /\ state \in Aws!Roles
    BY Zenon DEF AwsInv, AwsTypes, Distinct
  <1>2. k \in KmsKey /\ Aws!Canonical(k) = k /\ (r \in KmsKey => r = k) /\ r \in Aws!Ref
    BY Zenon, <1>1
  <1>3. /\ Aws!MayBind(k) /\ Aws!Bind(r, k) /\ state' = Aws!Resolved(state, r, k)
        /\ UNCHANGED <<schedule, kms, alias, saved, admin, signer, savedKids, given, named,
                       gone, forced>>
        /\ admin.op = "load" /\ r \notin DOMAIN jwks
    BY Zenon DEF Aws!LoadOne, Aws!ghosts, Aws!settled
  <1>4. k \in Aws!Refs(state) => k = r  BY Zenon, <1>1, <1>2 DEF Distinct
  <1>5. \A x \in Aws!Ref : Aws!Canonical(x)' = Aws!Canonical(x)
    BY Zenon, <1>3 DEF Aws!Canonical, Aws!Target
  <1>6. /\ state' \in Aws!Roles /\ Aws!OneRole(state')
        /\ Aws!Refs(state') = (Aws!Refs(state) \ {r}) \cup {k}
        /\ RoleOf(state', k) = RoleOf(state, r)
        /\ \A x \in Aws!Refs(state) \ {r} : RoleOf(state', x) = RoleOf(state, x)
    BY <1>1, <1>2, <1>3, <1>4, AwsResolvedFacts
  <1>7. /\ jwks' \in [DOMAIN jwks' -> Aws!Kid] /\ DOMAIN jwks' = DOMAIN jwks \cup {r, k}
        /\ bound' \in [DOMAIN bound' -> KmsKey] /\ DOMAIN bound' \subseteq Aws!Kid
        /\ \A i \in DOMAIN bound' : KmsThumb[bound'[i]] = i
        /\ Cached(k)'
        /\ \A x : Cached(x) => Cached(x)'
    BY ONLY Zenon, Aws!AwsAssumption, <1>1, <1>2, <1>3, AwsBindFacts
  <1>8. AwsTypes'  BY <1>1, <1>2, <1>3, <1>6, <1>7 DEF AwsTypes, Aws!Ref
  <1>9. Caches'  BY ONLY <1>1, <1>3, <1>6, <1>7 DEF Caches
  <1>10. AwsCalls'  BY Zenon, <1>3 DEF AwsInv, AwsCalls, Aws!SignedByKid
  <1>11. Distinct(state)'
    BY <1>1, <1>2, <1>3, <1>5, <1>6 DEF Distinct
  <1>12. Distinct(saved)'
    BY <1>3, <1>5 DEF AwsInv, AwsTypes, Distinct
  <1>13. Agree'
    BY <1>1, <1>2, <1>3, <1>5, <1>6 DEF AwsInv, AwsTypes, Agree
  <1>14. Accounts'
    <2>1. k \in AwsKnown \/ k = r
      BY Zenon, <1>1 DEF AwsInv, Accounts, Aws!Canonical, Aws!Target
    <2>2. r \in KmsKey => k = r  BY Zenon, <1>2
    <2>3. Accounts  BY Zenon DEF AwsInv
    <2> QED  BY ONLY <1>2, <1>3, <1>6, <2>1, <2>2, <2>3 DEF Accounts, AwsKnown, Aws!KeysAccounted
  <1>15. SavedAsKnown'
    BY <1>1, <1>3 DEF AwsInv, SavedAsKnown, Aws!Kids, Aws!KidOf, Aws!Canonical
  <1> QED  BY Zenon, <1>8, <1>9, <1>10, <1>11, <1>12, <1>13, <1>14, <1>15 DEF AwsInv

\* A load that fails and a process that starts again go back to what was saved.
LEMMA BackToSaved ==
    ASSUME Aws!AwsAssumption, AwsInv, state' = saved, jwks' = <<>>, bound' = <<>>, admin' = Aws!Loading,
           signer' \in {signer, Aws!Quiet}, signer'.at = "idle",
           UNCHANGED <<schedule, kms, alias, saved, savedKids, given, named, forced>>,
           gone \subseteq gone',
           \A k \in KmsKey \ Enabled :
               k \in Aws!Refs(state) \cup {admin.key} => k \in Aws!Refs(saved) \cup named \cup gone'
    PROVE  AwsInv'
  <1> USE AwsConstants
  <1>1. DOMAIN jwks' = {} /\ DOMAIN bound' = {} /\ admin'.op = "load" /\ admin'.kid = noKey
        /\ admin'.key = noKey
    BY DEF Aws!Loading, Aws!Call
  <1>2. AwsTypes'
    BY <1>1 DEF AwsInv, AwsTypes, Aws!Loading, Aws!Call, Aws!Quiet, AwsOps
  <1>3. Caches'  BY Zenon, <1>1 DEF Caches
  <1>4. AwsCalls'  BY Zenon, <1>1 DEF AwsInv, AwsCalls, Aws!SignedByKid
  <1>5. \A x : Aws!Canonical(x)' = Aws!Canonical(x)  BY Zenon DEF Aws!Canonical
  <1>6. Distinct(saved)' /\ Distinct(state)'  BY Zenon, <1>5 DEF AwsInv, Distinct
  <1>7. Agree'  BY Zenon, <1>6 DEF Agree, Distinct
  <1>8. Accounts'  BY Zenon, <1>1 DEF AwsInv, Accounts, AwsKnown, Aws!KeysAccounted
  <1>9. SavedAsKnown'
    BY Zenon, <1>5 DEF AwsInv, SavedAsKnown, Aws!Kids, Aws!KidOf
  <1> QED  BY Zenon, <1>2, <1>3, <1>4, <1>6, <1>7, <1>8, <1>9 DEF AwsInv

\* The end of load, a failed load that is tried again, and a restart.
LEMMA AwsLoadStep ==
    ASSUME Aws!AwsAssumption, AwsInv, Aws!Loaded \/ Aws!LoadFails \/ Aws!Restart
    PROVE  AwsInv'
  <1> USE AwsConstants
  <1>1. CASE Aws!Restart
    BY Zenon, <1>1, BackToSaved DEF Aws!Restart, Aws!Quiet
  <1>2. CASE Aws!LoadFails
    <2>1. /\ state' = saved /\ jwks' = <<>> /\ bound' = <<>> /\ admin' = Aws!Loading
          /\ UNCHANGED <<schedule, kms, alias, saved, signer, savedKids, given, named, gone,
                         forced>>
          /\ admin.op = "load"
      BY Zenon, <1>2 DEF Aws!LoadFails, Aws!ghosts, Aws!settled
    <2>2. signer'.at = "idle" /\ admin.key \notin KmsKey
      BY Zenon, <2>1 DEF AwsInv, AwsCalls
    <2>3. \A k \in KmsKey \ Enabled :
              k \in Aws!Refs(state) => k \in Aws!Refs(saved) \cup named \cup gone
      BY Zenon, <2>1 DEF AwsInv, Accounts, AwsKnown
    <2> QED  BY Zenon, <2>1, <2>2, <2>3, BackToSaved
  <1>3. CASE Aws!Loaded
    <2>1. /\ admin.op = "load" /\ Aws!Refs(state) \subseteq DOMAIN jwks /\ admin' = Aws!Idle
          /\ UNCHANGED <<schedule, kms, alias, state, jwks, bound, saved, signer, savedKids,
                         given, named, gone, forced>>
          /\ admin'.op = "idle" /\ admin'.kid = noKey /\ admin'.key = noKey
      BY Zenon, <1>3 DEF Aws!Loaded, Aws!ghosts, Aws!settled, Aws!Idle, Aws!Call
    <2>2. AwsTypes'  BY Zenon, <2>1 DEF AwsInv, AwsTypes, Aws!Idle, Aws!Call, AwsOps
    <2>3. Caches'  BY Zenon, <2>1 DEF AwsInv, Caches, Cached
    <2>4. AwsCalls'  BY Zenon, <2>1 DEF AwsInv, AwsCalls, Aws!SignedByKid
    <2>5. \A x : Aws!Canonical(x)' = Aws!Canonical(x)  BY Zenon, <2>1 DEF Aws!Canonical
    <2>6. Distinct(saved)' /\ Distinct(state)'  BY Zenon, <2>1, <2>5 DEF AwsInv, Distinct
    <2>7. Agree'  BY Zenon, <2>1, <2>5 DEF AwsInv, Agree
    <2>8. Accounts'
      BY Zenon, <2>1 DEF AwsInv, AwsCalls, Accounts, AwsKnown, Aws!KeysAccounted
    <2>9. SavedAsKnown'  BY <2>1, <2>5 DEF AwsInv, SavedAsKnown, Aws!Kids, Aws!KidOf
    <2> QED  BY Zenon, <2>2, <2>3, <2>4, <2>6, <2>7, <2>8, <2>9 DEF AwsInv
  <1> QED  BY Zenon, <1>1, <1>2, <1>3

\* The caller saves the roles, which name canonical ids by then.
LEMMA AwsSaveStep ==
    ASSUME Aws!AwsAssumption, AwsInv, Aws!Save
    PROVE  AwsInv'
  <1> USE AwsConstants
  <1>1. /\ admin.op \in {"idle", "unsaved"} /\ admin' = Aws!Idle /\ saved' = state
        /\ savedKids' = Aws!Kids(state)
        /\ UNCHANGED <<schedule, kms, alias, state, jwks, bound, signer, given, named, gone,
                       forced>>
        /\ admin'.op = "idle" /\ admin'.kid = noKey /\ admin'.key = noKey
    BY DEF Aws!Save, Aws!settled, Aws!Idle, Aws!Unsaved, Aws!Call
  <1>2. AwsTypes'  BY Zenon, <1>1 DEF AwsInv, AwsTypes, Aws!Idle, Aws!Call, AwsOps
  <1>3. Caches'  BY Zenon, <1>1 DEF AwsInv, Caches, Cached
  <1>4. AwsCalls'  BY Zenon, <1>1 DEF AwsInv, AwsCalls, Aws!SignedByKid
  <1>5. \A x : Aws!Canonical(x)' = Aws!Canonical(x)  BY Zenon, <1>1 DEF Aws!Canonical
  <1>6. Distinct(state)'  BY Zenon, <1>1, <1>5 DEF AwsInv, Distinct
  <1>7. Distinct(saved)'  BY Zenon, <1>1, <1>6 DEF Distinct
  <1>8. Agree'  BY Zenon, <1>1, <1>6 DEF Agree, Distinct
  <1>9. Accounts'
    BY Zenon, <1>1 DEF AwsInv, AwsCalls, Accounts, AwsKnown, Aws!KeysAccounted
  <1>10. SavedAsKnown'
    <2>1. Aws!Refs(state) \subseteq KmsKey  BY Zenon, <1>1 DEF AwsInv, Caches, Cached
    <2> QED  BY Zenon, <1>1, <1>5, <2>1 DEF SavedAsKnown, Aws!Kids, Aws!KidOf
  <1> QED  BY Zenon, <1>2, <1>3, <1>4, <1>6, <1>7, <1>8, <1>9, <1>10 DEF AwsInv

\* Signing and creating a key leave the roles, the cache and the aliases alone.
LEMMA AwsSignStep ==
    ASSUME Aws!AwsAssumption, AwsInv,
           \/ \E kid \in Aws!Kid : Aws!SignBegin(kid)
           \/ Aws!SignSend \/ Aws!SignAnswered \/ Aws!SignRaises
    PROVE  AwsInv'
  <1> USE AwsConstants
  <1>1. UNCHANGED <<schedule, kms, alias, saved, state, jwks, bound, admin, savedKids, named,
                    gone, forced>>
    BY Zenon DEF Aws!SignBegin, Aws!SignSend, Aws!SignAnswered, Aws!SignRaises, Aws!work,
       Aws!ghosts,
           Aws!settled
  <1>2. AwsTypes' /\ AwsCalls'
    <2>1. CASE \E kid \in Aws!Kid : Aws!SignBegin(kid)
      BY Zenon, <1>1, <2>1 DEF Aws!SignBegin, Aws!Quiet, AwsInv, AwsTypes, AwsCalls,
         Aws!SignedByKid,
                        Aws!ghosts
    <2>2. CASE Aws!SignSend
      <3>1. PICK k \in Aws!Refs(state) : jwks[k] = signer.kid
        BY Zenon, <2>2 DEF Aws!SignSend, Aws!Refs
      <3>2. admin.op # "load"  BY Zenon, <2>2 DEF Aws!SignSend, AwsInv, AwsCalls
      <3>3. Cached(k)  BY Zenon, <3>2 DEF AwsInv, Caches
      <3>4. signer' = [signer EXCEPT !.at = "sent", !.key = k] /\ given' = given
        BY Zenon, <2>2, <3>1, <3>3 DEF Aws!SignSend, Aws!SigningKey, Cached, Aws!ghosts
      <3> QED  BY Zenon, <1>1, <3>1, <3>2, <3>3, <3>4
               DEF AwsInv, AwsTypes, AwsCalls, Aws!SignedByKid, Cached
    <2>3. CASE Aws!SignAnswered
      BY <1>1, <2>3 DEF Aws!SignAnswered, Aws!Quiet, AwsInv, AwsTypes, AwsCalls,
                        Aws!SignedByKid
    <2>4. CASE Aws!SignRaises
      BY Zenon, <1>1, <2>4 DEF Aws!SignRaises, Aws!Quiet, AwsInv, AwsTypes, AwsCalls,
         Aws!SignedByKid,
                        Aws!ghosts
    <2> QED  BY Zenon, <2>1, <2>2, <2>3, <2>4
  <1>3. Caches'  BY Zenon, <1>1 DEF AwsInv, Caches, Cached
  <1>4. \A x : Aws!Canonical(x)' = Aws!Canonical(x)  BY Zenon, <1>1 DEF Aws!Canonical
  <1>5. Distinct(saved)' /\ Distinct(state)' /\ Agree'
    BY Zenon, <1>1, <1>4 DEF AwsInv, Distinct, Agree
  <1>6. Accounts'  BY Zenon, <1>1 DEF AwsInv, Accounts, AwsKnown, Aws!KeysAccounted
  <1>7. SavedAsKnown'  BY Zenon, <1>1, <1>4 DEF AwsInv, SavedAsKnown, Aws!Kids, Aws!KidOf
  <1> QED  BY Zenon, <1>2, <1>3, <1>5, <1>6, <1>7 DEF AwsInv

\* CreateKey, whose answer may be lost.
LEMMA AwsCreateStep ==
    ASSUME Aws!AwsAssumption, AwsInv, NEW k \in KmsKey, Aws!Create(k)
    PROVE  AwsInv'
  <1> USE AwsConstants, AwsCanonicalFacts, AwsRefsFacts
  <1>1. /\ admin.op = "idle" /\ kms[k] = "absent" /\ kms' = [kms EXCEPT ![k] = "enabled"]
        /\ UNCHANGED <<schedule, alias, saved, state, jwks, bound, signer, savedKids, given,
                       named, forced>>
        /\ \/ admin' = [op |-> "generate_key", kid |-> noKey, key |-> k] /\ gone' = gone
           \/ admin' = [op |-> "idle", kid |-> noKey, key |-> noKey] /\ gone' = gone \cup {k}
    BY Zenon DEF Aws!Create, Aws!settled, Aws!Idle, Aws!Call
  <1>2. \/ admin'.op = "generate_key" /\ admin'.key = k /\ gone' = gone
        \/ admin'.op = "idle" /\ admin'.kid = noKey /\ admin'.key = noKey /\ gone' = gone \cup {k}
    BY <1>1
  <1>3. \A x : Aws!Canonical(x)' = Aws!Canonical(x)  BY Zenon, <1>1 DEF Aws!Canonical
  <1>4. k \notin Aws!Refs(state)  BY Zenon, <1>1 DEF AwsInv, AwsTypes, Distinct
  <1>5. AwsTypes'  BY <1>1 DEF AwsInv, AwsTypes, AwsOps
  <1>6. Caches'  BY Zenon, <1>1, <1>2 DEF AwsInv, Caches, Cached
  <1>7. AwsCalls'  BY <1>1, <1>2, <1>4 DEF AwsInv, AwsTypes, AwsCalls, Aws!SignedByKid
  <1>8. Distinct(saved)' /\ Distinct(state)'
    BY Zenon, <1>1, <1>3 DEF AwsInv, AwsTypes, Distinct
  <1>9. Agree'  BY Zenon, <1>1, <1>3 DEF AwsInv, Agree
  <1>10. Accounts'
    BY <1>1, <1>2 DEF AwsInv, AwsTypes, AwsCalls, Accounts, AwsKnown, Aws!KeysAccounted
  <1>11. SavedAsKnown'  BY <1>1, <1>3 DEF AwsInv, SavedAsKnown, Aws!Kids, Aws!KidOf
  <1> QED  BY Zenon, <1>5, <1>6, <1>7, <1>8, <1>9, <1>10, <1>11 DEF AwsInv

\* The new key is in no role, and its public key in no other key's name.
LEMMA AwsReadStep ==
    ASSUME Aws!AwsAssumption, AwsInv, NEW k \in KmsKey, k = admin.key, Aws!ReadCreated
    PROVE  AwsInv'
  <1> USE AwsConstants, AwsCanonicalFacts, AwsRefsFacts
  <1>1. /\ admin.op = "generate_key" /\ k \notin Aws!Refs(state) /\ kms[k] # "absent"
        /\ UNCHANGED <<schedule, kms, alias, saved, signer, savedKids, given, gone, forced>>
        /\ state \in Aws!Roles /\ AwsTypes /\ Caches
    BY Zenon DEF Aws!ReadCreated, Aws!settled, AwsInv, AwsCalls, AwsTypes
  <1>2. \A x : Aws!Canonical(x)' = Aws!Canonical(x)  BY Zenon, <1>1 DEF Aws!Canonical
  <1>3. Distinct(saved)'  BY Zenon, <1>1, <1>2 DEF AwsInv, Distinct
  <1>4. SavedAsKnown'  BY <1>1, <1>2 DEF AwsInv, SavedAsKnown, Aws!Kids, Aws!KidOf
  <1>5. CASE /\ Aws!MayBind(k) /\ Aws!Bind(k, k) /\ admin' = Aws!Unsaved
             /\ state' = [state EXCEPT !.pending = @ \cup {k}] /\ UNCHANGED named
    <2>1. /\ jwks' \in [DOMAIN jwks' -> Aws!Kid] /\ DOMAIN jwks' = DOMAIN jwks \cup {k}
          /\ bound' \in [DOMAIN bound' -> KmsKey] /\ DOMAIN bound' \subseteq Aws!Kid
          /\ \A i \in DOMAIN bound' : KmsThumb[bound'[i]] = i
          /\ Cached(k)'
          /\ \A x : Cached(x) => Cached(x)'
      <3>1. k \in Aws!Ref  BY Zenon DEF Aws!Ref
      <3>2. DOMAIN jwks \cup {k, k} = DOMAIN jwks \cup {k}  BY Zenon
      <3> QED  BY ONLY Aws!AwsAssumption, <1>1, <1>5, <3>1, <3>2, AwsBindFacts
    <2>2. /\ admin'.op = "unsaved" /\ admin'.kid = noKey /\ admin'.key = noKey
          /\ admin' = [op |-> "unsaved", kid |-> noKey, key |-> noKey]
      BY Zenon, <1>5 DEF Aws!Unsaved, Aws!Call
    <2>3. /\ state' \in Aws!Roles /\ Aws!Refs(state') = Aws!Refs(state) \cup {k}
          /\ Aws!OneRole(state') /\ RoleOf(state', k) = "pending"
          /\ \A x \in Aws!Refs(state) : RoleOf(state', x) = RoleOf(state, x)
      BY <1>1, <1>5 DEF AwsInv, Distinct, Aws!Roles, Aws!Ref, Aws!Refs, Aws!OneRole, RoleOf
    <2>4. AwsTypes'  BY Zenon, <1>1, <2>1, <2>2, <2>3 DEF AwsTypes, AwsOps, Aws!Ref
    <2>5. Caches'  BY ONLY <1>1, <2>1, <2>2, <2>3 DEF Caches
    <2>6. AwsCalls'  BY Zenon, <1>1, <2>2 DEF AwsInv, AwsCalls, Aws!SignedByKid
    <2>7. Distinct(state)'
      <3>1. Aws!Refs(state) \subseteq KmsKey  BY Zenon, <1>1 DEF Caches, Cached
      <3>2. kms[k] = "enabled"  BY Zenon, <1>5 DEF Aws!MayBind
      <3> QED  BY <1>1, <1>2, <2>3, <3>1, <3>2 DEF AwsInv, AwsTypes, Distinct
    <2>8. Agree'  BY Zenon, <2>2 DEF Agree
    <2>9. Accounts'
      BY Zenon, <1>1, <1>5, <2>2, <2>3 DEF AwsInv, Accounts, AwsKnown, Aws!KeysAccounted
    <2> QED  BY Zenon, <1>3, <1>4, <2>4, <2>5, <2>6, <2>7, <2>8, <2>9 DEF AwsInv
  <1>6. CASE named' = named \cup {k} /\ admin' = Aws!Idle /\ UNCHANGED <<state, jwks, bound>>
    <2>1. /\ admin'.op = "idle" /\ admin'.kid = noKey /\ admin'.key = noKey
          /\ admin' = [op |-> "idle", kid |-> noKey, key |-> noKey]
      BY Zenon, <1>6 DEF Aws!Idle, Aws!Call
    <2>2. AwsTypes'  BY Zenon, <1>1, <1>6, <2>1 DEF AwsTypes, AwsOps
    <2>3. Caches'  BY Zenon, <1>1, <1>6, <2>1 DEF Caches, Cached
    <2>4. AwsCalls'  BY Zenon, <1>1, <1>6, <2>1 DEF AwsInv, AwsCalls, Aws!SignedByKid
    <2>5. Distinct(state)'  BY Zenon, <1>1, <1>2, <1>6 DEF AwsInv, Distinct
    <2>6. Agree'  BY Zenon, <1>1, <1>2, <1>6, <2>1 DEF AwsInv, Agree
    <2>7. Accounts'
      BY Zenon, <1>1, <1>6, <2>1 DEF AwsInv, Accounts, AwsKnown, Aws!KeysAccounted
    <2> QED  BY Zenon, <1>3, <1>4, <2>2, <2>3, <2>4, <2>5, <2>6, <2>7 DEF AwsInv
  <1> QED  BY Zenon, <1>5, <1>6 DEF Aws!ReadCreated

\* activate: a pending key becomes the active one.
LEMMA AwsActivateStep ==
    ASSUME Aws!AwsAssumption, AwsInv, NEW k \in KmsKey, Aws!Activate(k)
    PROVE  AwsInv'
  <1> USE AwsConstants, AwsCanonicalFacts, AwsRefsFacts
  <1>1. /\ admin.op = "idle" /\ k \in state.pending /\ k \in Aws!Refs(state)
        /\ UNCHANGED <<schedule, kms, alias, jwks, bound, saved, signer, savedKids, given,
                       named, gone, forced>>
        /\ admin'.op = "unsaved" /\ admin'.kid = noKey /\ admin'.key = noKey
        /\ admin' = [op |-> "unsaved", kid |-> noKey, key |-> noKey]
        /\ state \in Aws!Roles
    BY Zenon DEF Aws!Activate, Aws!settled, Aws!ghosts, Aws!Idle, Aws!Unsaved, Aws!Call,
       Aws!Refs, AwsInv,
           AwsTypes
  <1>2. Cached(k)  BY Zenon, <1>1 DEF AwsInv, Caches
  <1>3. state' = [active |-> k, retained |-> state.retained \cup ({state.active} \ {noKey}),
                  pending |-> state.pending \ {k}]
    BY Zenon, <1>2 DEF Aws!Activate, Cached
  <1>4. \A x : Aws!Canonical(x)' = Aws!Canonical(x)  BY Zenon, <1>1 DEF Aws!Canonical
  <1>5. /\ state' \in Aws!Roles /\ Aws!Refs(state') = Aws!Refs(state)
        /\ Aws!OneRole(state')
        /\ \A x \in Aws!Refs(state) :
             RoleOf(state', x) = IF x = k THEN "active"
                                 ELSE IF x = state.active THEN "retained" ELSE RoleOf(state, x)
    BY SMTT(20), <1>1, <1>3 DEF AwsInv, Distinct, Aws!Roles, Aws!Ref, Aws!Refs, Aws!OneRole, RoleOf
  <1>6. RoleOf(state, k) = "pending"
    BY Zenon, <1>1 DEF AwsInv, Distinct, Aws!OneRole, RoleOf
  <1>7. AwsTypes'  BY Zenon, <1>1, <1>5 DEF AwsInv, AwsTypes, AwsOps
  <1>8. Caches'  BY Zenon, <1>1, <1>5 DEF AwsInv, Caches, Cached
  <1>9. AwsCalls'  BY Zenon, <1>1 DEF AwsInv, AwsCalls, Aws!SignedByKid
  <1>10. Distinct(state)'  BY SMTT(20), <1>1, <1>4, <1>5, <1>6 DEF AwsInv, Distinct
  <1>11. Distinct(saved)'  BY Zenon, <1>1, <1>4 DEF AwsInv, Distinct
  <1>12. Agree'  BY Zenon, <1>1 DEF Agree
  <1>13. Accounts'
    BY Zenon, <1>1, <1>5 DEF AwsInv, AwsCalls, Accounts, AwsKnown, Aws!KeysAccounted
  <1>14. SavedAsKnown'
    <2>1. \A x : Aws!KidOf(x)' = Aws!KidOf(x)  BY ONLY Zenon, <1>4 DEF Aws!KidOf
    <2>2. saved' = saved /\ savedKids' = savedKids  BY Zenon, <1>1
    <2>3. Aws!Kids(saved)' = Aws!Kids(saved)  BY ONLY Zenon, <2>1, <2>2 DEF Aws!Kids
    <2>4. Aws!Refs(saved)' = Aws!Refs(saved)  BY ONLY Zenon, <2>2 DEF Aws!Refs
    <2>5. SavedAsKnown  BY ONLY Zenon, AwsInv DEF AwsInv
    <2> QED  BY ONLY Zenon, <2>2, <2>3, <2>4, <2>5 DEF SavedAsKnown
  <1> QED  BY Zenon, <1>7, <1>8, <1>9, <1>10, <1>11, <1>12, <1>13, <1>14 DEF AwsInv

\* supersede checks the role of the key, then calls KMS.
LEMMA AwsSupersedeStep ==
    ASSUME Aws!AwsAssumption, AwsInv, NEW k \in KmsKey, NEW a \in BOOLEAN, Aws!Supersede(k, a)
    PROVE  AwsInv'
  <1> USE AwsConstants
  <1>1. /\ admin.op = "idle"
        /\ k \in state.retained \cup ({state.active} \cap forced')
        /\ admin' = [op |-> IF schedule = "delete" THEN "schedule" ELSE "drop",
                     kid |-> jwks[k], key |-> k]
        /\ forced \subseteq forced'
        /\ UNCHANGED <<schedule, kms, alias, state, jwks, bound, saved, signer, savedKids, given,
                       named, gone>>
    BY Zenon DEF Aws!Supersede, Aws!MaySupersede, Aws!settled, Aws!Idle, Aws!Call
  <1>2. Cached(k) /\ KmsThumb[k] \in Aws!Kid
    BY Zenon, <1>1 DEF AwsInv, Caches, Aws!Refs
  <1>3. /\ admin'.op \in {"schedule", "drop"} /\ admin'.key = k /\ admin'.kid = KmsThumb[k]
        /\ admin' \in [op : AwsOps, kid : Aws!Kid \cup {noKey}, key : KmsKey \cup {noKey}]
    BY Zenon, <1>1, <1>2 DEF Cached, AwsOps
  <1>4. \A x : Aws!Canonical(x)' = Aws!Canonical(x)  BY Zenon, <1>1 DEF Aws!Canonical
  <1>5. AwsTypes'  BY Zenon, <1>1, <1>3 DEF AwsInv, AwsTypes
  <1>6. Caches'  BY Zenon, <1>1, <1>3 DEF AwsInv, Caches, Cached
  <1>7. AwsCalls'  BY Zenon, <1>1, <1>3 DEF AwsInv, AwsCalls, Aws!SignedByKid
  <1>8. Distinct(state)' /\ Distinct(saved)'  BY Zenon, <1>1, <1>4 DEF AwsInv, Distinct
  <1>9. Agree'  BY Zenon, <1>1, <1>3, <1>4 DEF AwsInv, Agree
  <1>10. Accounts'
    <2>1. admin.key = noKey  BY Zenon, <1>1 DEF AwsInv, AwsCalls
    <2>2. admin'.op # "load"  BY ONLY Zenon, <1>3
    <2>3. \A x \in Alias : alias'[x] \in AwsKnown'  BY Zenon, <1>1 DEF AwsInv, Accounts, AwsKnown
    <2>4. Aws!KeysAccounted'
      <3> SUFFICES ASSUME NEW x \in KmsKey \ Enabled, kms'[x] # "absent"
                   PROVE  x \in Aws!Refs(state)' \cup named' \cup gone'
        BY Zenon DEF Aws!KeysAccounted
      <3>1. x \in Aws!Refs(state) \cup named \cup gone \cup {noKey}
        BY Zenon, <1>1, <2>1 DEF AwsInv, Accounts, Aws!KeysAccounted
      <3>2. x # noKey  BY Zenon
      <3>3. Aws!Refs(state)' = Aws!Refs(state)  BY ONLY Zenon, <1>1 DEF Aws!Refs
      <3> QED  BY ONLY Zenon, <1>1, <3>1, <3>2, <3>3
    <2> QED  BY ONLY Zenon, <2>2, <2>3, <2>4 DEF Accounts
  <1>11. SavedAsKnown'
    <2>1. \A x : Aws!KidOf(x)' = Aws!KidOf(x)  BY ONLY Zenon, <1>4 DEF Aws!KidOf
    <2>2. saved' = saved /\ savedKids' = savedKids  BY ONLY Zenon, <1>1
    <2>3. Aws!Kids(saved)' = Aws!Kids(saved)  BY ONLY Zenon, <2>1, <2>2 DEF Aws!Kids
    <2>4. Aws!Refs(saved)' = Aws!Refs(saved)  BY ONLY Zenon, <2>2 DEF Aws!Refs
    <2>5. SavedAsKnown  BY ONLY Zenon, AwsInv DEF AwsInv
    <2> QED  BY ONLY Zenon, <2>2, <2>3, <2>4, <2>5 DEF SavedAsKnown
  <1> QED  BY Zenon, <1>5, <1>6, <1>7, <1>8, <1>9, <1>10, <1>11 DEF AwsInv

\* The key whose deletion is scheduled has the same role in what was saved, so
\* that a restart does not find it in a role that signs.
LEMMA AwsScheduleStep ==
    ASSUME Aws!AwsAssumption, AwsInv, NEW k \in KmsKey, k = admin.key, Aws!ScheduleDeletion
    PROVE  AwsInv'
  <1> USE AwsConstants, AwsCanonicalFacts, AwsRefsFacts
  <1>1. /\ admin.op = "schedule" /\ admin.kid = KmsThumb[k]
        /\ k \in state.retained \cup ({state.active} \cap forced) /\ k \in Aws!Refs(state)
        /\ UNCHANGED <<schedule, alias, state, jwks, bound, saved, signer, savedKids, given,
                       named, gone, forced>>
    BY Zenon DEF Aws!ScheduleDeletion, Aws!settled, Aws!ghosts, AwsInv, AwsCalls, Aws!Refs
  <1>2. Cached(k)  BY Zenon, <1>1 DEF AwsInv, Caches
  <1>3. /\ \/ kms' = kms
           \/ kms[k] = "enabled" /\ kms' = [kms EXCEPT ![k] = "deleting"]
        /\ \/ admin'.op = "drop" /\ admin'.key = k /\ admin'.kid = admin.kid
           \/ admin'.op = "idle" /\ admin'.key = noKey /\ admin'.kid = noKey
        /\ admin' \in [op : AwsOps, kid : Aws!Kid \cup {noKey}, key : KmsKey \cup {noKey}]
    <2>1. /\ \/ kms' = kms
             \/ kms[k] = "enabled" /\ kms' = [kms EXCEPT ![k] = "deleting"]
          /\ admin' \in {[admin EXCEPT !.op = "drop"], Aws!Idle}
      BY Zenon, <1>1, <1>2 DEF Aws!ScheduleDeletion, Cached
    <2>2. admin \in [op : AwsOps, kid : Aws!Kid \cup {noKey}, key : KmsKey \cup {noKey}]
      BY Zenon DEF AwsInv, AwsTypes
    <2>3. CASE admin' = [admin EXCEPT !.op = "drop"]  BY Zenon, <2>1, <2>2, <2>3 DEF AwsOps
    <2>4. CASE admin' = Aws!Idle  BY Zenon, <2>1, <2>4 DEF Aws!Idle, Aws!Call, AwsOps
    <2> QED  BY Zenon, <2>1, <2>3, <2>4
  <1>4. \A x : Aws!Canonical(x)' = Aws!Canonical(x)  BY Zenon, <1>1 DEF Aws!Canonical
  <1>5. /\ RoleOf(state, k) # "pending" /\ (RoleOf(state, k) = "active" => k \in forced)
        /\ Aws!Canonical(k) = k
        /\ \A q \in Aws!Refs(saved) : Aws!Canonical(q) = k => RoleOf(saved, q) = RoleOf(state, k)
    <2>1. RoleOf(state, k) # "pending" /\ (RoleOf(state, k) = "active" => k \in forced)
      BY Zenon, <1>1 DEF AwsInv, Distinct, Aws!OneRole, RoleOf
    <2>2. Aws!Canonical(k) = k  BY Zenon DEF AwsInv, AwsTypes
    <2>3. Agree  BY Zenon DEF AwsInv
    <2> QED  BY Zenon, <1>1, <2>1, <2>2, <2>3 DEF Agree
  <1>6. AwsTypes'  BY <1>1, <1>3 DEF AwsInv, AwsTypes
  <1>7. Caches'  BY Zenon, <1>1, <1>3 DEF AwsInv, Caches, Cached
  <1>8. AwsCalls'  BY Zenon, <1>1, <1>3 DEF AwsInv, AwsCalls, Aws!SignedByKid
  <1>9. Distinct(state)'
    BY <1>1, <1>3, <1>4, <1>5 DEF AwsInv, AwsTypes, Distinct
  <1>10. Distinct(saved)'
    BY SMTT(20), <1>1, <1>3, <1>4, <1>5 DEF AwsInv, AwsTypes, Distinct
  <1>11. Agree'  BY SMTT(20), <1>1, <1>3, <1>4 DEF AwsInv, Agree
  <1>12. Accounts'
    BY <1>1, <1>3 DEF AwsInv, AwsTypes, Accounts, AwsKnown, Aws!KeysAccounted
  <1>13. SavedAsKnown'  BY <1>1, <1>4 DEF AwsInv, SavedAsKnown, Aws!Kids, Aws!KidOf
  <1> QED  BY Zenon, <1>6, <1>7, <1>8, <1>9, <1>10, <1>11, <1>12, <1>13 DEF AwsInv

\* The superseded key was in one role, and its thumbprint was bound to it alone.
LEMMA AwsDropStep ==
    ASSUME Aws!AwsAssumption, AwsInv, NEW k \in KmsKey, k = admin.key, Aws!Drop
    PROVE  AwsInv'
  <1> USE AwsConstants
  <1>1. /\ admin.op = "drop" /\ admin.kid = KmsThumb[k]
        /\ k \in state.retained \cup ({state.active} \cap forced) /\ k \in Aws!Refs(state)
        /\ UNCHANGED <<schedule, kms, alias, saved, signer, savedKids, given, named, forced>>
        /\ gone' = gone \cup {k} /\ state \in Aws!Roles
        /\ admin' = [op |-> "unsaved", kid |-> noKey, key |-> noKey]
        /\ state' = IF state.active = k THEN [state EXCEPT !.active = noKey]
                    ELSE [state EXCEPT !.retained = @ \ {k}]
    BY Zenon DEF Aws!Drop, Aws!settled, Aws!Unsaved, Aws!Call, AwsInv, AwsCalls, AwsTypes, Aws!Refs
  <1>2. admin'.op = "unsaved" /\ admin'.kid = noKey /\ admin'.key = noKey  BY Zenon, <1>1
  <1>3. Cached(k)  BY Zenon, <1>1 DEF AwsInv, Caches
  <1>4. /\ jwks' = [r \in DOMAIN jwks \ {k} |-> jwks[r]]
        /\ bound' = [i \in DOMAIN bound \ {KmsThumb[k]} |-> bound[i]]
    BY Zenon, <1>1, <1>3 DEF Aws!Drop, Cached
  <1>5. \A x : Aws!Canonical(x)' = Aws!Canonical(x)  BY Zenon, <1>1 DEF Aws!Canonical
  <1>6. /\ state' \in Aws!Roles /\ Aws!Refs(state') = Aws!Refs(state) \ {k}
        /\ Aws!OneRole(state')
        /\ \A x \in Aws!Refs(state') : RoleOf(state', x) = RoleOf(state, x)
    BY <1>1 DEF AwsInv, Distinct, Aws!Roles, Aws!Ref, Aws!Refs, Aws!OneRole, RoleOf
  <1>7. AwsTypes'  BY Zenon, <1>1, <1>4, <1>6 DEF AwsInv, AwsTypes, AwsOps
  <1>8. Caches'
    <2>1. \A i \in DOMAIN bound' : KmsThumb[bound'[i]] = i
      BY Zenon, <1>4 DEF AwsInv, Caches
    <2>2. ASSUME NEW x \in Aws!Refs(state') PROVE Cached(x)'
      <3>1. Cached(x) /\ x # k  BY Zenon, <1>1, <1>6 DEF AwsInv, Caches
      <3>2. KmsThumb[x] # KmsThumb[k]  BY Zenon, <1>3, <3>1 DEF Cached
      <3> QED  BY Zenon, <1>4, <3>1, <3>2 DEF Cached
    <2> QED  BY Zenon, <2>1, <2>2 DEF Caches
  <1>9. AwsCalls'  BY Zenon, <1>1, <1>2 DEF AwsInv, AwsCalls, Aws!SignedByKid
  <1>10. Distinct(state)'  BY Zenon, <1>1, <1>5, <1>6 DEF AwsInv, Distinct
  <1>11. Distinct(saved)'  BY Zenon, <1>1, <1>5 DEF AwsInv, Distinct
  <1>12. Agree'  BY Zenon, <1>2 DEF Agree
  <1>13. Accounts'
    BY Zenon, <1>1, <1>2, <1>6 DEF AwsInv, Accounts, AwsKnown, Aws!KeysAccounted
  <1>14. SavedAsKnown'  BY <1>1, <1>5 DEF AwsInv, SavedAsKnown, Aws!Kids, Aws!KidOf
  <1> QED  BY Zenon, <1>7, <1>8, <1>9, <1>10, <1>11, <1>12, <1>13, <1>14 DEF AwsInv

\* An alias is pointed at a key that has no role, so the roles of KMS keys stay
\* distinct, and a reference still has the role it was saved with.
LEMMA AwsRepointStep ==
    ASSUME Aws!AwsAssumption, AwsInv, NEW a \in Alias, NEW k \in KmsKey, Aws!Repoint(a, k)
    PROVE  AwsInv'
  <1> USE AwsConstants, AwsCanonicalFacts, AwsRefsFacts
  <1>1. /\ kms[k] = "enabled" /\ k # admin.key /\ alias' = [alias EXCEPT ![a] = k]
        /\ \A r \in Aws!Refs(state) \cup Aws!Refs(saved) : Aws!Canonical(r) # k
        /\ UNCHANGED <<schedule, kms, saved, state, jwks, bound, admin, signer, savedKids,
                       given, named, gone, forced>>
        /\ state \in Aws!Roles /\ saved \in Aws!Roles /\ alias \in [Alias -> KmsKey]
    BY Zenon DEF Aws!Repoint, Aws!work, Aws!ghosts, AwsInv, AwsTypes
  <1>2. \A x \in Aws!Ref : Aws!Canonical(x)' = IF x = a THEN k ELSE Aws!Canonical(x)
    BY Zenon, <1>1 DEF Aws!Canonical, Aws!Target
  <1>3. AwsTypes'  BY Zenon, <1>1 DEF AwsInv, AwsTypes
  <1>4. Caches'  BY Zenon, <1>1 DEF AwsInv, Caches, Cached
  <1>5. AwsCalls'  BY Zenon, <1>1 DEF AwsInv, AwsCalls, Aws!SignedByKid
  <1>6. Distinct(state)'  BY SMTT(20), <1>1, <1>2 DEF AwsInv, Distinct
  <1>7. Distinct(saved)'  BY SMTT(20), <1>1, <1>2 DEF AwsInv, Distinct
  <1>8. Agree'  BY SMTT(20), <1>1, <1>2 DEF AwsInv, Agree
  <1>9. Accounts'
    <2>1. k \in AwsKnown
      <3>1. k \notin Aws!Refs(state)  BY Zenon, <1>1
      <3> QED  BY Zenon, <1>1, <3>1 DEF AwsInv, Accounts, Aws!KeysAccounted, AwsKnown
    <2> QED  BY Zenon, <1>1, <2>1 DEF AwsInv, Accounts, Aws!KeysAccounted, AwsKnown
  <1>10. SavedAsKnown'
    <2> SUFFICES ASSUME savedKids # noKey
                 PROVE  Aws!Refs(saved) \subseteq KmsKey /\ savedKids = Aws!Kids(saved)'
      BY Zenon, <1>1 DEF SavedAsKnown
    <2>1. Aws!Refs(saved) \subseteq KmsKey /\ savedKids = Aws!Kids(saved)
      BY Zenon DEF AwsInv, SavedAsKnown
    <2>2. \A x \in Aws!Refs(saved) : Aws!KidOf(x)' = Aws!KidOf(x)
      BY Zenon, <1>1, <1>2, <2>1 DEF Aws!KidOf, Aws!Ref
    <2>3. Aws!KidOf(noKey)' = Aws!KidOf(noKey)  BY Zenon DEF Aws!KidOf
    <2>4. Aws!KidOf(saved.active)' = Aws!KidOf(saved.active)
      BY Zenon, <1>1, <2>2, <2>3 DEF Aws!Refs
    <2>5. /\ {Aws!KidOf(x)' : x \in saved.retained} = {Aws!KidOf(x) : x \in saved.retained}
          /\ {Aws!KidOf(x)' : x \in saved.pending} = {Aws!KidOf(x) : x \in saved.pending}
      BY <2>2 DEF Aws!Refs
    <2>6. Aws!Kids(saved)' = Aws!Kids(saved)
      BY Zenon, <1>1, <2>4, <2>5 DEF Aws!Kids
    <2> QED  BY Zenon, <2>1, <2>6
  <1> QED  BY Zenon, <1>3, <1>4, <1>5, <1>6, <1>7, <1>8, <1>9, <1>10 DEF AwsInv

\* Every step of the AWS provider keeps the invariant.
LEMMA NextAwsInv ==
    ASSUME Aws!AwsAssumption, AwsInv, [Aws!Next]_(Aws!vars)
    PROVE  AwsInv'
  <1>1. ASSUME NEW r \in Aws!Refs(state), Aws!LoadOne(r) PROVE AwsInv'
    <2>1. Aws!Canonical(r) \in KmsKey
      BY Zenon, AwsCanonicalFacts, AwsRefsFacts DEF AwsInv, AwsTypes
    <2>2. PICK k \in KmsKey : k = Aws!Canonical(r)  BY Zenon, <2>1
    <2> QED  BY Zenon, <1>1, <2>2, AwsLoadOneStep
  <1>2. CASE Aws!ReadCreated \/ Aws!ScheduleDeletion \/ Aws!Drop
    <2>1. admin.key \in KmsKey
      BY Zenon, <1>2, AwsConstants
         DEF Aws!ReadCreated, Aws!ScheduleDeletion, Aws!Drop, AwsInv, AwsCalls, AwsTypes
    <2>2. PICK k \in KmsKey : k = admin.key  BY Zenon, <2>1
    <2>3. CASE Aws!ReadCreated  BY Zenon, <2>2, <2>3, AwsReadStep
    <2>4. CASE Aws!ScheduleDeletion  BY Zenon, <2>2, <2>4, AwsScheduleStep
    <2>5. CASE Aws!Drop  BY Zenon, <2>2, <2>5, AwsDropStep
    <2> QED  BY Zenon, <1>2, <2>3, <2>4, <2>5
  <1>3. CASE UNCHANGED Aws!vars
    <2>1. UNCHANGED <<schedule, kms, alias, saved, state, jwks, bound, admin, signer, savedKids,
                      given, named, gone, forced>>
      BY Zenon, <1>3 DEF Aws!vars, Aws!work, Aws!ghosts, Aws!settled
    <2>2. \A x : Aws!Canonical(x)' = Aws!Canonical(x)  BY Zenon, <2>1 DEF Aws!Canonical
    <2>3. Distinct(saved)' /\ Distinct(state)' /\ Agree'
      BY Zenon, <2>1, <2>2 DEF AwsInv, Distinct, Agree
    <2>4. AwsTypes' /\ Caches' /\ AwsCalls'
      BY <2>1 DEF AwsInv, AwsTypes, Caches, Cached, AwsCalls, Aws!SignedByKid
    <2>5. Accounts'  BY Zenon, <2>1 DEF AwsInv, Accounts, AwsKnown, Aws!KeysAccounted
    <2>6. SavedAsKnown'  BY Zenon, <2>1, <2>2 DEF AwsInv, SavedAsKnown, Aws!Kids, Aws!KidOf
    <2> QED  BY Zenon, <2>3, <2>4, <2>5, <2>6 DEF AwsInv
  <1> QED  BY Zenon, <1>1, <1>2, <1>3, AwsLoadStep, AwsSaveStep, AwsSignStep, AwsCreateStep,
              AwsActivateStep, AwsSupersedeStep, AwsRepointStep DEF Aws!Next

\* What the runs check of the AWS provider follows.
LEMMA AwsInvSuffices ==
    ASSUME Aws!AwsAssumption, AwsInv
    PROVE  /\ Aws!TypeOK /\ Aws!RestartKeepsKeys /\ Aws!KeysAccounted
           /\ Aws!DeletesOnlyRetired /\ Aws!RolesAreBound /\ Aws!SignedByKid
  <1> USE AwsConstants, AwsCanonicalFacts, AwsRefsFacts
  <1>1. Aws!TypeOK  BY Zenon DEF AwsInv, AwsTypes, Aws!TypeOK, Aws!Ref
  <1>2. Aws!RestartKeepsKeys  BY Zenon DEF AwsInv, SavedAsKnown, Aws!RestartKeepsKeys
  <1>3. Aws!DeletesOnlyRetired
    <2> SUFFICES ASSUME NEW k \in KmsKey, kms[k] = "deleting", k \in Aws!Refs(state)
                 PROVE  k \notin state.pending /\ (k = state.active => k \in forced)
      BY Zenon DEF Aws!DeletesOnlyRetired, Aws!Refs
    <2>1. Aws!Canonical(k) = k  BY Zenon DEF AwsInv, AwsTypes
    <2>2. RoleOf(state, k) # "pending" /\ (RoleOf(state, k) = "active" => k \in forced)
      BY SMTT(20), <2>1 DEF AwsInv, Distinct
    <2> QED  BY Zenon, <2>2 DEF AwsInv, Distinct, Aws!OneRole, RoleOf
  <1>4. Aws!RolesAreBound  BY Zenon DEF AwsInv, Caches, Cached, Aws!RolesAreBound
  <1>5. Aws!KeysAccounted /\ Aws!SignedByKid  BY Zenon DEF AwsInv, Accounts, AwsCalls
  <1> QED  BY Zenon, <1>1, <1>2, <1>3, <1>4, <1>5

\* The thumbprints of roles that name KMS keys only.
LEMMA PlainKids ==
    ASSUME Aws!AwsAssumption, NEW s \in Aws!Roles, Aws!Refs(s) \subseteq KmsKey, alias \in [Alias -> KmsKey]
    PROVE  /\ Aws!Kids(s) = [active |-> IF s.active = noKey THEN noKey ELSE KmsThumb[s.active],
                             retained |-> {KmsThumb[k] : k \in s.retained},
                             pending |-> {KmsThumb[k] : k \in s.pending}]
           /\ Aws!Kids(s) \in Aws!KR!Ring
  <1>1. \A k \in KmsKey : Aws!KidOf(k) = KmsThumb[k] /\ KmsThumb[k] \in Aws!Kid
    BY Zenon, AwsConstants, AwsCanonicalFacts DEF Aws!KidOf
  <1>2. Aws!KidOf(noKey) = noKey  BY Zenon DEF Aws!KidOf
  <1>3. /\ s.active # noKey => s.active \in KmsKey
        /\ s.retained \subseteq KmsKey /\ s.pending \subseteq KmsKey
    BY Zenon DEF Aws!Refs
  <1>4. Aws!KidOf(s.active) = IF s.active = noKey THEN noKey ELSE KmsThumb[s.active]
    BY Zenon, <1>1, <1>2, <1>3
  <1>5. /\ {Aws!KidOf(k) : k \in s.retained} = {KmsThumb[k] : k \in s.retained}
        /\ {Aws!KidOf(k) : k \in s.pending} = {KmsThumb[k] : k \in s.pending}
    BY Zenon, <1>1, <1>3
  <1>6. Aws!Kids(s) = [active |-> IF s.active = noKey THEN noKey ELSE KmsThumb[s.active],
                       retained |-> {KmsThumb[k] : k \in s.retained},
                       pending |-> {KmsThumb[k] : k \in s.pending}]
    BY Zenon, <1>4, <1>5 DEF Aws!Kids
  <1>7. Aws!Kids(s) \in Aws!KR!Ring
    BY <1>1, <1>3, <1>6 DEF Aws!KR!Ring
  <1> QED  BY Zenon, <1>6, <1>7

\* The thumbprints of roles that name no alias.
AwsRing(s) == [active |-> IF s.active = noKey THEN noKey ELSE KmsThumb[s.active],
            retained |-> {KmsThumb[k] : k \in s.retained},
            pending |-> {KmsThumb[k] : k \in s.pending}]

\* One role of the contract's record is replaced.
LEMMA RingReplaced ==
    ASSUME NEW s, NEW x
    PROVE  /\ [AwsRing(s) EXCEPT !.active = x] =
                 [active |-> x, retained |-> AwsRing(s).retained, pending |-> AwsRing(s).pending]
           /\ [AwsRing(s) EXCEPT !.retained = x] =
                 [active |-> AwsRing(s).active, retained |-> x, pending |-> AwsRing(s).pending]
           /\ [AwsRing(s) EXCEPT !.pending = x] =
                 [active |-> AwsRing(s).active, retained |-> AwsRing(s).retained, pending |-> x]
  <1>1. PICK a, r, p : AwsRing(s) = [active |-> a, retained |-> r, pending |-> p]  BY Zenon DEF AwsRing
  <1> QED  BY <1>1

\* The thumbprints of a configuration without aliases are a ring of keys.
LEMMA InitAwsRing ==
    ASSUME Aws!AwsAssumption, Aws!Init, Aws!Plain
    PROVE  Aws!KR!Init
  <1>1. /\ saved \in Aws!Roles /\ Aws!OneRole(saved) /\ state = saved /\ alias = FirstAlias
        /\ \A r, q \in Aws!Refs(saved) :
             KmsThumb[Aws!Canonical(r)] = KmsThumb[Aws!Canonical(q)] => r = q
    BY Zenon DEF Aws!Init, Aws!AwsAssumption, Aws!Canonical
  <1>2. alias \in [Alias -> KmsKey]  BY Zenon, <1>1, AwsConstants
  <1>3. Aws!Kids(saved) = AwsRing(saved) /\ Aws!Kids(saved) \in Aws!KR!Ring
    BY Zenon, <1>1, <1>2, PlainKids DEF Aws!Plain, AwsRing
  <1>4. \A r, q \in Aws!Refs(saved) : KmsThumb[r] = KmsThumb[q] => r = q
    BY Zenon, <1>1, <1>2, AwsCanonicalFacts DEF Aws!Plain
  <1>5. \A k \in Aws!Refs(saved) : KmsThumb[k] # noKey  BY Zenon, AwsConstants DEF Aws!Plain
  <1>6. /\ saved.retained \subseteq Aws!Refs(saved) /\ saved.pending \subseteq Aws!Refs(saved)
        /\ saved.active # noKey => saved.active \in Aws!Refs(saved)
        /\ saved.active \notin saved.retained \cup saved.pending
        /\ saved.retained \cap saved.pending = {}
    BY Zenon, <1>1 DEF Aws!OneRole, Aws!Refs
  <1>7. AwsRing(saved).active \notin AwsRing(saved).retained \cup AwsRing(saved).pending
    BY ONLY <1>4, <1>5, <1>6 DEF AwsRing
  <1>8. AwsRing(saved).retained \cap AwsRing(saved).pending = {}
    BY ONLY <1>4, <1>6 DEF AwsRing
  <1> QED  BY Zenon, <1>1, <1>3, <1>7, <1>8 DEF Aws!KR!Init

\* Where the roles are saved under canonical ids, every step is one of the
\* contract or changes no role: a replica is refused, a key leaves one role.
LEMMA NextAwsRing ==
    ASSUME Aws!AwsAssumption, AwsInv, Aws!Next, Aws!Plain
    PROVE  Aws!KR!Next \/ UNCHANGED <<Aws!Kids(state), Aws!Kids(saved)>>
  <1> USE AwsConstants
  <1>1. /\ state \in Aws!Roles /\ saved \in Aws!Roles /\ alias \in [Alias -> KmsKey]
        /\ Aws!Refs(saved) \subseteq KmsKey
    BY Zenon DEF AwsInv, AwsTypes, Aws!Plain
  <1>2. Aws!Refs(state) \subseteq KmsKey
    BY Zenon, <1>1 DEF AwsInv, Caches, Cached, Accounts
  <1>3. AwsInv'  BY Zenon, NextAwsInv
  <1>4. state' \in Aws!Roles /\ saved' \in Aws!Roles /\ alias' \in [Alias -> KmsKey]
    BY Zenon, <1>3 DEF AwsInv, AwsTypes
  <1>5. Aws!Kids(state) = AwsRing(state) /\ Aws!Kids(saved) = AwsRing(saved)
    BY Zenon, <1>1, <1>2, PlainKids DEF AwsRing
  <1>6. \A x \in KmsKey : Aws!Canonical(x)' = x
    BY Zenon, <1>4 DEF Aws!Canonical, Aws!Target
  <1>7. ASSUME Aws!Refs(state') \subseteq KmsKey PROVE Aws!Kids(state)' = AwsRing(state')
    <2>1. \A x \in KmsKey : Aws!KidOf(x)' = KmsThumb[x]  BY Zenon, <1>6 DEF Aws!KidOf
    <2>2. Aws!KidOf(noKey)' = noKey  BY Zenon DEF Aws!KidOf
    <2>3. /\ state'.active # noKey => state'.active \in KmsKey
          /\ state'.retained \subseteq KmsKey /\ state'.pending \subseteq KmsKey
      BY Zenon, <1>7 DEF Aws!Refs
    <2>4. Aws!KidOf(state.active)' =
              IF state'.active = noKey THEN noKey ELSE KmsThumb[state'.active]
      BY Zenon, <2>1, <2>2, <2>3
    <2>5. /\ {Aws!KidOf(k)' : k \in state'.retained} = {KmsThumb[k] : k \in state'.retained}
          /\ {Aws!KidOf(k)' : k \in state'.pending} = {KmsThumb[k] : k \in state'.pending}
      BY Zenon, <2>1, <2>3
    <2> QED  BY Zenon, <2>4, <2>5 DEF Aws!Kids, AwsRing
  <1>8. ASSUME Aws!Refs(saved') \subseteq KmsKey PROVE Aws!Kids(saved)' = AwsRing(saved')
    <2>1. \A x \in KmsKey : Aws!KidOf(x)' = KmsThumb[x]  BY Zenon, <1>6 DEF Aws!KidOf
    <2>2. Aws!KidOf(noKey)' = noKey  BY Zenon DEF Aws!KidOf
    <2>3. /\ saved'.active # noKey => saved'.active \in KmsKey
          /\ saved'.retained \subseteq KmsKey /\ saved'.pending \subseteq KmsKey
      BY Zenon, <1>8 DEF Aws!Refs
    <2>4. Aws!KidOf(saved.active)' =
              IF saved'.active = noKey THEN noKey ELSE KmsThumb[saved'.active]
      BY Zenon, <2>1, <2>2, <2>3
    <2>5. /\ {Aws!KidOf(k)' : k \in saved'.retained} = {KmsThumb[k] : k \in saved'.retained}
          /\ {Aws!KidOf(k)' : k \in saved'.pending} = {KmsThumb[k] : k \in saved'.pending}
      BY Zenon, <2>1, <2>3
    <2> QED  BY Zenon, <2>4, <2>5 DEF Aws!Kids, AwsRing
  <1>9. \A r, q \in Aws!Refs(state) :
          admin.op # "load" /\ KmsThumb[r] = KmsThumb[q] => r = q
    BY Zenon DEF AwsInv, Caches, Cached
  <1>10. \A k \in KmsKey : KmsThumb[k] \in Aws!Kid /\ KmsThumb[k] # noKey /\ k # noKey
    BY Zenon
  <1>11. state' = state => Aws!Kids(state)' = Aws!Kids(state)
    BY Zenon, <1>2, <1>5, <1>7
  <1>12. saved' = saved => Aws!Kids(saved)' = Aws!Kids(saved)
    BY Zenon, <1>1, <1>5, <1>8
  <1>13. CASE UNCHANGED <<state, saved>>  BY Zenon, <1>11, <1>12, <1>13
  <1>14. ASSUME NEW r \in Aws!Refs(state), Aws!LoadOne(r)
         PROVE  UNCHANGED <<state, saved>>
    <2>1. Aws!Canonical(r) = r  BY Zenon, <1>1, <1>2, AwsCanonicalFacts
    <2>2. Aws!Resolved(state, r, r) = state
      BY <1>1 DEF Aws!Resolved, Aws!Roles
    <2> QED  BY Zenon, <1>14, <2>1, <2>2 DEF Aws!LoadOne
  <1>15. ASSUME state' = saved, saved' = saved PROVE Aws!KR!Next
    BY Zenon, <1>1, <1>5, <1>7, <1>12, <1>15 DEF Aws!KR!Next, Aws!KR!Restart
  <1>16. CASE Aws!Save
    <2>1. saved' = state /\ state' = state  BY Zenon, <1>16 DEF Aws!Save
    <2>2. Aws!Kids(saved)' = Aws!Kids(state)  BY Zenon, <2>1, <1>2, <1>5, <1>8
    <2> QED  BY Zenon, <2>1, <2>2, <1>11 DEF Aws!KR!Next, Aws!KR!Save
  <1>17. CASE Aws!ReadCreated
    <2>1. PICK k \in KmsKey : k = admin.key  BY Zenon, <1>17 DEF AwsInv, AwsCalls, Aws!ReadCreated
    <2>2. k \notin Aws!Refs(state) /\ saved' = saved /\ admin.op = "generate_key"
      BY Zenon, <1>17, <2>1 DEF AwsInv, AwsCalls, Aws!ReadCreated
    <2>3. CASE state' = state  BY Zenon, <2>2, <2>3, <1>13
    <2>4. CASE state' # state
      <3>1. Aws!MayBind(k) /\ state' = [state EXCEPT !.pending = @ \cup {k}]
        BY Zenon, <1>17, <2>1, <2>4 DEF Aws!ReadCreated
      <3>2. \A r \in Aws!Refs(state) : KmsThumb[r] # KmsThumb[k]
        BY SMTT(20), <2>2, <3>1 DEF AwsInv, Caches, Cached, Aws!MayBind
      <3>3. KmsThumb[k] \notin Aws!KR!Held(AwsRing(state))
        BY Zenon, <3>2, <1>10, <1>1 DEF Aws!KR!Held, AwsRing, Aws!Refs
      <3>4. /\ state'.active = state.active /\ state'.retained = state.retained
            /\ state'.pending = state.pending \cup {k}
        BY Zenon, <3>1, <1>1 DEF Aws!Roles
      <3>5. Aws!Refs(state') \subseteq KmsKey  BY Zenon, <3>4, <1>2 DEF Aws!Refs
      <3>6. AwsRing(state') = [AwsRing(state) EXCEPT !.pending = @ \cup {KmsThumb[k]}]
        <4>1. {KmsThumb[x] : x \in state'.pending} = AwsRing(state).pending \cup {KmsThumb[k]}
          BY Zenon, <3>4 DEF AwsRing
        <4>2. AwsRing(state') = [active |-> AwsRing(state).active, retained |-> AwsRing(state).retained,
                              pending |-> AwsRing(state).pending \cup {KmsThumb[k]}]
          BY ONLY Zenon, <3>4, <4>1 DEF AwsRing
        <4> QED  BY ONLY Zenon, <4>2, RingReplaced
      <3> QED  BY Zenon, <3>3, <3>5, <3>6, <2>2, <1>5, <1>7, <1>10, <1>12 DEF Aws!KR!Next,
                  Aws!KR!Generate
    <2> QED  BY Zenon, <2>3, <2>4
  <1>18. ASSUME NEW k \in KmsKey, Aws!Activate(k) PROVE Aws!KR!Next
    <2>1. k \in state.pending /\ saved' = saved /\ admin.op # "load"
      BY Zenon, <1>18 DEF Aws!Activate, Aws!Idle, Aws!Call
    <2>2. bound[jwks[k]] = k
      BY Zenon, <2>1 DEF AwsInv, Caches, Cached, Aws!Refs
    <2>3. /\ state'.active = k /\ state'.retained = state.retained \cup ({state.active} \ {noKey})
          /\ state'.pending = state.pending \ {k}
      BY Zenon, <1>18, <2>2 DEF Aws!Activate
    <2>4. Aws!Refs(state') \subseteq KmsKey  BY Zenon, <2>3, <1>2 DEF Aws!Refs
    <2>5. {KmsThumb[x] : x \in state'.pending} = {KmsThumb[x] : x \in state.pending} \ {KmsThumb[k]}
      BY <2>1, <2>3, <1>9 DEF Aws!Refs
    <2>6. {KmsThumb[x] : x \in state'.retained} =
              {KmsThumb[x] : x \in state.retained} \cup ({AwsRing(state).active} \ {noKey})
      BY SMTT(20), <2>3, <1>2, <1>10 DEF AwsRing, Aws!Refs
    <2>7. AwsRing(state') = [active |-> KmsThumb[k],
                          retained |-> AwsRing(state).retained \cup ({AwsRing(state).active} \ {noKey}),
                          pending |-> AwsRing(state).pending \ {KmsThumb[k]}]
      BY Zenon, <2>3, <2>5, <2>6, <1>10 DEF AwsRing
    <2>8. KmsThumb[k] \in AwsRing(state).pending  BY Zenon, <2>1 DEF AwsRing
    <2>9. Aws!KR!Activate(KmsThumb[k])
      BY Zenon, <2>1, <2>4, <2>7, <2>8, <1>5, <1>7, <1>12 DEF Aws!KR!Activate
    <2> QED  BY Zenon, <2>9, <1>10 DEF Aws!KR!Next
  <1>19. CASE Aws!Drop
    <2>1. admin.op = "drop" /\ saved' = saved  BY Zenon, <1>19 DEF Aws!Drop
    <2>2. PICK k \in KmsKey : k = admin.key
      BY Zenon, <2>1, <1>2 DEF AwsInv, AwsCalls, Aws!Refs
    <2>3. k \in state.retained \cup {state.active}  BY Zenon, <2>1, <2>2 DEF AwsInv, AwsCalls
    <2>4. CASE k = state.active
      <3>1. /\ state'.active = noKey /\ state'.retained = state.retained
            /\ state'.pending = state.pending
        BY Zenon, <1>19, <2>2, <2>4, <1>1 DEF Aws!Drop, Aws!Roles
      <3>2. Aws!Refs(state') \subseteq KmsKey  BY Zenon, <3>1, <1>2 DEF Aws!Refs
      <3>3. AwsRing(state') = [AwsRing(state) EXCEPT !.active = noKey]
        <4>1. AwsRing(state') = [active |-> noKey, retained |-> AwsRing(state).retained,
                              pending |-> AwsRing(state).pending]
          BY ONLY SMTT(20), <3>1 DEF AwsRing
        <4> QED  BY ONLY Zenon, <4>1, RingReplaced
      <3>4. AwsRing(state).active = KmsThumb[k]  BY Zenon, <2>4, <1>10 DEF AwsRing
      <3>5. Aws!KR!SupersedeActive(KmsThumb[k])
        BY Zenon, <2>1, <3>2, <3>3, <3>4, <1>5, <1>7, <1>12 DEF Aws!KR!SupersedeActive
      <3> QED  BY Zenon, <3>5, <1>10 DEF Aws!KR!Next
    <2>5. CASE k # state.active
      <3>1. /\ state'.active = state.active /\ state'.retained = state.retained \ {k}
            /\ state'.pending = state.pending
        BY Zenon, <1>19, <2>2, <2>5, <1>1 DEF Aws!Drop, Aws!Roles
      <3>2. Aws!Refs(state') \subseteq KmsKey  BY Zenon, <3>1, <1>2 DEF Aws!Refs
      <3>3. {KmsThumb[x] : x \in state'.retained} =
                {KmsThumb[x] : x \in state.retained} \ {KmsThumb[k]}
        BY <2>1, <2>3, <2>5, <3>1, <1>9 DEF Aws!Refs
      <3>4. AwsRing(state') = [AwsRing(state) EXCEPT !.retained = @ \ {KmsThumb[k]}]
        <4>1. AwsRing(state').retained = AwsRing(state).retained \ {KmsThumb[k]}
          BY ONLY SMTT(20), <3>3 DEF AwsRing
        <4>2. AwsRing(state') = [active |-> AwsRing(state).active,
                              retained |-> AwsRing(state).retained \ {KmsThumb[k]},
                              pending |-> AwsRing(state).pending]
          BY ONLY Zenon, <3>1, <4>1 DEF AwsRing
        <4> QED  BY ONLY Zenon, <4>2, RingReplaced
      <3>5. KmsThumb[k] \in AwsRing(state).retained  BY Zenon, <2>3, <2>5 DEF AwsRing
      <3>6. Aws!KR!Supersede(KmsThumb[k])
        BY Zenon, <2>1, <3>2, <3>4, <3>5, <1>5, <1>7, <1>12 DEF Aws!KR!Supersede
      <3> QED  BY Zenon, <3>6, <1>10 DEF Aws!KR!Next
    <2> QED  BY Zenon, <2>4, <2>5
  <1>20. CASE UNCHANGED Aws!work /\ UNCHANGED saved
    BY Zenon, <1>13, <1>20 DEF Aws!work
  <1>21. CASE Aws!Loaded \/ Aws!ScheduleDeletion
    BY Zenon, <1>13, <1>21 DEF Aws!Loaded, Aws!ScheduleDeletion
  <1>22. CASE Aws!LoadFails \/ Aws!Restart
    BY Zenon, <1>15, <1>22 DEF Aws!LoadFails, Aws!Restart
  <1>23. CASE \E k \in KmsKey : Aws!Create(k) \/ \E a \in BOOLEAN : Aws!Supersede(k, a)
    BY Zenon, <1>13, <1>23 DEF Aws!Create, Aws!Supersede
  <1>24. CASE \/ \E kid \in Aws!Kid : Aws!SignBegin(kid)
              \/ Aws!SignSend \/ Aws!SignAnswered \/ Aws!SignRaises
              \/ \E a \in Alias, k \in KmsKey : Aws!Repoint(a, k)
    BY Zenon, <1>20, <1>24
       DEF Aws!SignBegin, Aws!SignSend, Aws!SignAnswered, Aws!SignRaises, Aws!Repoint
  <1> QED
    BY Zenon, <1>13, <1>14, <1>16, <1>17, <1>18, <1>19, <1>21, <1>22, <1>23, <1>24 DEF Aws!Next

-----------------------------------------------------------------------------
(* Theorems of the cloud providers *)

CloudInv == AwsInv /\ GoogleInv

allVars == <<part, fileVars, awsVars, googleVars>>

\* Each provider takes a step of its own, or none.
LEMMA PartSteps == [MCNext]_allVars => [Aws!Next]_(Aws!vars) /\ [Google!Next]_(Google!vars)
  <1>1. UNCHANGED awsVars => UNCHANGED Aws!vars
    BY Zenon DEF awsVars, Aws!vars, Aws!settled, Aws!work, Aws!ghosts
  <1>2. UNCHANGED googleVars => UNCHANGED Google!vars
    BY Zenon DEF googleVars, Google!vars
  <1> QED  BY Zenon, <1>1, <1>2 DEF MCNext, allVars

\* The inductive invariants of the two providers hold together.
LEMMA CloudInvariant == MCSpec => []CloudInv
  <1>1. MCInit => CloudInv  BY Zenon, CloudAssumption, InitAwsInv, InitGoogleInv DEF MCInit,
                    CloudInv
  <1>2. CloudInv /\ [MCNext]_allVars => CloudInv'
    BY Zenon, CloudAssumption, PartSteps, NextAwsInv, NextGoogleInv DEF CloudInv
  <1> QED  BY <1>1, <1>2, PTL DEF MCSpec, allVars

\* A cloud provider loses no key: for any KMS keys, aliases and configurations, a
\* restart finds the saved keys in their roles, every created key is accounted
\* for, no key that may sign is deleted unasked, and every role resolves to the
\* one KMS key it was loaded with.
THEOREM CloudKeysStay == MCSpec => []CloudKeysKept
  <1>1. CloudInv => CloudKeysKept
    BY Zenon, CloudAssumption, AwsInvSuffices DEF CloudInv, CloudKeysKept, GoogleInv
  <1> QED  BY <1>1, CloudInvariant, PTL

\* A signature is made by the key whose thumbprint was asked for, and never by a
\* key that has lost its right to sign.
THEOREM CloudSignsLive == MCSpec => []CloudSignsWithLiveKey
  <1>1. CloudInv => CloudSignsWithLiveKey
    BY Zenon, CloudAssumption, AwsInvSuffices DEF CloudInv, CloudSignsWithLiveKey, GoogleInv
  <1> QED  BY <1>1, CloudInvariant, PTL

\* Both cloud providers implement the contract of key providers.
THEOREM CloudIsKeyRing == MCSpec => CloudRefinesKeyRing
  <1>1. MCInit => /\ Google!KR!Init
                  /\ Aws!Plain => Aws!KR!Init
    BY Zenon, InitGoogleRing, CloudAssumption, InitAwsRing DEF MCInit
  <1>2. CloudInv /\ [MCNext]_allVars => [Google!KR!Next]_(Google!KR!ringVars)
    BY Zenon, PartSteps, NextGoogleRing DEF CloudInv
  <1>3. CloudInv /\ [MCNext]_allVars =>
            [Aws!Plain => Aws!KR!Next]_<<Aws!Kids(state), Aws!Kids(saved)>>
    <2> SUFFICES ASSUME CloudInv, [MCNext]_allVars
                 PROVE  (Aws!Plain => Aws!KR!Next) \/ UNCHANGED <<Aws!Kids(state), Aws!Kids(saved)>>
      BY Zenon
    <2>1. CASE Aws!Next  BY Zenon, <2>1, CloudAssumption, NextAwsRing DEF CloudInv
    <2>2. CASE UNCHANGED Aws!vars
      <3>1. UNCHANGED <<state, saved, alias>>  BY Zenon, <2>2 DEF Aws!vars, Aws!work
      <3>2. \A x : Aws!KidOf(x)' = Aws!KidOf(x)
        BY Zenon, <3>1 DEF Aws!KidOf, Aws!Canonical
      <3> QED  BY Zenon, <3>1, <3>2, Zenon DEF Aws!Kids
    <2> QED  BY Zenon, <2>1, <2>2, PartSteps
  <1>4. CloudInv /\ [MCNext]_allVars =>
            [starts' = starts => \A kid \in DOMAIN versions :
                kid \in DOMAIN versions' /\ versions'[kid] = versions[kid]]_(Google!vars)
    BY Zenon, PartSteps, VersionsStay DEF CloudInv
  <1> QED
    BY <1>1, <1>2, <1>3, <1>4, CloudInvariant, PTL
       DEF MCSpec, allVars, CloudRefinesKeyRing, Google!RefinesKeyRing, Google!KR!Spec,
           Google!VersionsKeep, Aws!RefinesKeyRing

===============================================================================
