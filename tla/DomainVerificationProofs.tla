----------------------- MODULE DomainVerificationProofs -----------------------
(***************************************************************************)
(* The sharing of verification work, for any number of callers, futures,   *)
(* workers, calls, faults and versions of the published identity; and the  *)
(* gate before the forced refreshes of Web Bot Auth, for any number of     *)
(* threads and domains, any cooldown and any length of the run.            *)
(***************************************************************************)
EXTENDS DomainVerification, RefreshCooldown, FiniteSetTheorems, TLAPS

\* What a job can be doing, by kind, and what it then holds.
LocalOK(r) ==
    /\ r.kind = "free" => r = FreeJob
    /\ r.kind = "V" => r.pc \in {"queued", "read", "status", "put", "finish", "set"}
    /\ r.kind = "R" => r.pc \in {"prior", "queued", "begin", "await", "read", "status", "put",
                                 "finish", "set"}
    /\ r.kind = "S" => r.pc \in {"queued", "look", "claim", "fetch", "store", "inline", "joined",
                                 "private", "finish", "set"}
    /\ r.kind = "I" => r.pc \in {"begin", "await", "read", "status", "put", "finish", "set"}
    /\ r.on # None => r.pc \in {"prior", "await", "joined", "inline"}
    /\ r.pc \in {"status", "put", "fetch", "store"} => r.got \in Evidence
    /\ r.pc \in {"fetch", "store"} => r.got # None
    /\ r.pc = "store" => r.out \in Evidence /\ r.out.ver = r.got.ver

\* A refresh reads only when no lookup is registered.
Serial(r, sl) ==
    r.kind = "R" => /\ r.pc \in {"read", "status", "put"} => sl["V"] = None
                    /\ r.pc = "await" => sl["V"] \in {None, r.on}

\* The jobs and the tables agree: a registered future is not yet completed, a
\* job that may write the cache is registered until it has done so, and a job
\* waits only for a future that is still to be completed.
JobsOK(jb, sl) ==
    /\ jb \in [Job -> JobRecord] /\ sl \in [Kinds -> Job \cup {None}]
    /\ \A j \in Job : LocalOK(jb[j]) /\ Serial(jb[j], sl)
    /\ \A k \in Kinds : sl[k] # None => jb[sl[k]].kind = k /\ jb[sl[k]].pc # "set"
    /\ \A j \in Job : jb[j].kind \in Kinds /\ jb[j].pc # "set" => sl[jb[j].kind] = j
    /\ \A j \in Job : jb[j].on # None => jb[jb[j].on].kind \in {"V", "R", "I"}

CallersOK(cl, jb) ==
    /\ cl \in [Caller -> CallRecord]
    /\ \A c \in Caller : cl[c].pc = "wait" =>
            cl[c].on \in Job /\ jb[cl[c].on].kind \in Kinds \cup {"I"}

\* Evidence on its way to the cache, and the outcome of a refresh on its way to
\* its callers.
Acquired(r) == r.kind \in {"V", "R"} /\ r.pc \in {"status", "put"}
Refreshed(r) == r.kind = "R" /\ r.pc \in {"finish", "set"} /\ Is(r.out)

\* Versions only grow along the way: from completed refreshes, through the
\* cache, to evidence on its way and the published identity.
Ordered(jb, ca, fl, w) ==
    /\ fl <= w
    /\ ca # None => fl <= ca.ver /\ ca.ver <= w
    /\ \A i \in Job : Acquired(jb[i]) =>
            /\ fl <= jb[i].got.ver /\ jb[i].got.ver <= w
            /\ ca # None => ca.ver <= jb[i].got.ver
    /\ \A i \in Job : Refreshed(jb[i]) =>
            /\ jb[i].out.ver <= w
            /\ ca # None => jb[i].out.ver <= ca.ver
            /\ \A h \in Job : Acquired(jb[h]) => jb[i].out.ver <= jb[h].got.ver

\* What a step may do without disturbing the order of versions: bring in no
\* evidence, and empty the cache or give its evidence a new stamp.
NoNews(jb, jb2) ==
    \A i \in Job :
        /\ Acquired(jb2[i]) => Acquired(jb[i]) /\ jb2[i].got.ver = jb[i].got.ver
        /\ Refreshed(jb2[i]) => Refreshed(jb[i]) /\ jb2[i].out = jb[i].out

NoNewer(ca, ca2) == ca2 = ca \/ ca2 = None \/ (ca # None /\ ca2.ver = ca.ver)

\* What a step may do without leaving a waiting caller behind.
SameKinds(jb, jb2) == \A j \in Job : jb[j].kind # "free" => jb2[j].kind = jb[j].kind

Rest ==
    /\ world \in [ver : 0..MaxVersion, ttl : Ttls, state : {"ACTIVE", "REVOKED"}]
    /\ cache \in Evidence \cup {None}
    /\ stamp \in Nat
    /\ calls \in 0..MaxCalls
    /\ faults \in 0..MaxFaults
    /\ closing \in {"open", "closing", "closed"}
    /\ floor \in 0..MaxVersion
    /\ evicted \in 0..MaxVersion

IInv ==
    /\ Rest
    /\ JobsOK(job, slot)
    /\ CallersOK(caller, job)
    /\ Ordered(job, cache, floor, world.ver)
    /\ ClosedIsQuiet

-----------------------------------------------------------------------------
(* Jobs and tables *)

\* A free job is in nobody's way.
LEMMA FreeFacts ==
    /\ FreeJob \in JobRecord /\ LocalOK(FreeJob)
    /\ FreeJob.kind = "free" /\ FreeJob.on = None /\ FreeJob.pc = "free"
    /\ \A sl : Serial(FreeJob, sl)
  BY Zenon DEF FreeJob, JobRecord, LocalOK, Serial, Outcome

\* The future a caller registers is a free one.
LEMMA ChosenFree ==
    ASSUME HasFree
    PROVE  Free \in Job /\ job[Free].kind = "free" /\ Free # None
  BY Zenon, ConstantsAssumption DEF HasFree, Free

\* A job goes on without completing.
LEMMA MoveJob ==
    ASSUME NEW jb, NEW sl, JobsOK(jb, sl), NEW j \in Job, NEW r \in JobRecord,
           jb[j].kind # "free", jb[j].pc # "set", r.kind = jb[j].kind, r.pc # "set",
           LocalOK(r), Serial(r, sl), r.on # None => jb[r.on].kind \in {"V", "R", "I"}
    PROVE  JobsOK([jb EXCEPT ![j] = r], sl)
  <1> DEFINE new == [jb EXCEPT ![j] = r]
  <1>1. new \in [Job -> JobRecord]  BY Zenon DEF JobsOK
  <1>2. \A i \in Job : new[i].kind = jb[i].kind /\ (new[i].pc = "set" <=> jb[i].pc = "set")
    BY Zenon DEF JobsOK
  <1>3. ASSUME NEW i \in Job PROVE LocalOK(new[i]) /\ Serial(new[i], sl)
    BY Zenon DEF JobsOK
  <1>4. ASSUME NEW i \in Job, new[i].on # None PROVE new[new[i].on].kind \in {"V", "R", "I"}
    <2>1. new[i].on \in Job  BY Zenon, <1>1, <1>4 DEF JobRecord
    <2>2. jb[new[i].on].kind \in {"V", "R", "I"}  BY Zenon, <1>4 DEF JobsOK
    <2> QED  BY Zenon, <1>2, <2>1, <2>2
  <1>5. \A k \in Kinds : sl[k] # None => new[sl[k]].kind = k /\ new[sl[k]].pc # "set"
    BY Zenon, <1>2 DEF JobsOK
  <1>6. \A i \in Job : new[i].kind \in Kinds /\ new[i].pc # "set" => sl[new[i].kind] = i
    BY <1>2 DEF JobsOK
  <1> HIDE DEF new
  <1>7. JobsOK(new, sl)  BY Zenon, <1>1, <1>3, <1>4, <1>5, <1>6 DEF JobsOK
  <1> QED  BY Zenon, <1>7 DEF new

\* A job is started: registered in its table, or private and in none.
Registers(sl, sl2, f, r) ==
    \/ r.kind = "I" /\ sl2 = sl
    \/ /\ r.kind \in Kinds /\ sl[r.kind] = None /\ sl2 = [sl EXCEPT ![r.kind] = f]
       /\ r.kind = "V" => sl["R"] = None

\* A future that is registered for new work keeps the jobs in order.
LEMMA AddJob ==
    ASSUME NEW jb, NEW sl, NEW sl2, JobsOK(jb, sl), NEW f \in Job, NEW r \in JobRecord,
           jb[f].kind = "free", r.kind \in Kinds \cup {"I"}, r.pc # "set", LocalOK(r),
           r.on # None => jb[r.on].kind \in {"V", "R", "I"},
           Registers(sl, sl2, f, r), Serial(r, sl2)
    PROVE  JobsOK([jb EXCEPT ![f] = r], sl2)
  <1> DEFINE new == [jb EXCEPT ![f] = r]
  <1> USE ConstantsAssumption DEF Registers
  <1>1. new \in [Job -> JobRecord] /\ sl2 \in [Kinds -> Job \cup {None}]
    BY DEF JobsOK
  <1>2. \A i \in Job : i # f => new[i] = jb[i]  BY Zenon DEF JobsOK
  <1>3. new[f] = r  BY Zenon DEF JobsOK
  <1>4. "free" \notin Kinds \cup {"V", "R", "I"} /\ "I" \notin Kinds /\ "V" \in Kinds /\ "R" \in Kinds
    BY Zenon DEF Kinds
  <1>5. \A k \in Kinds : sl[k] # f  BY <1>4 DEF JobsOK
  <1>6. ASSUME NEW i \in Job PROVE LocalOK(new[i]) /\ Serial(new[i], sl2)
    <2>1. CASE i = f  BY Zenon, <1>3, <2>1
    <2>2. CASE i # f
      <3>1. LocalOK(jb[i]) /\ Serial(jb[i], sl)  BY Zenon DEF JobsOK
      <3>2. r.kind = "V" => ~(jb[i].kind = "R" /\ jb[i].pc # "set")
        BY <1>4 DEF JobsOK
      <3>3. r.kind # "V" => sl2["V"] = sl["V"]  BY <1>4 DEF JobsOK
      <3>4. Serial(jb[i], sl2)  BY Zenon, <3>1, <3>2, <3>3 DEF Serial
      <3> QED  BY Zenon, <1>2, <2>2, <3>1, <3>4
    <2> QED  BY Zenon, <2>1, <2>2
  <1>7. ASSUME NEW k \in Kinds, sl2[k] # None PROVE new[sl2[k]].kind = k /\ new[sl2[k]].pc # "set"
    <2>1. CASE sl2[k] = sl[k]
      BY <1>2, <1>5, <1>7, <2>1 DEF JobsOK
    <2>2. CASE r.kind \in Kinds /\ k = r.kind /\ sl2[k] = f  BY Zenon, <1>3, <2>2
    <2> QED  BY Zenon, <1>4, <2>1, <2>2 DEF JobsOK
  <1>8. ASSUME NEW i \in Job, new[i].kind \in Kinds, new[i].pc # "set"
        PROVE  sl2[new[i].kind] = i
    <2>1. CASE i = f  BY <1>3, <1>4, <1>8, <2>1 DEF JobsOK
    <2>2. CASE i # f
      <3>1. new[i] = jb[i] /\ sl[jb[i].kind] = i  BY <1>2, <1>8, <2>2 DEF JobsOK
      <3>2. r.kind \in Kinds => jb[i].kind # r.kind  BY <1>4, <3>1
      <3> QED  BY <1>8, <3>1, <3>2 DEF JobsOK
    <2> QED  BY Zenon, <2>1, <2>2
  <1>9. ASSUME NEW i \in Job, new[i].on # None PROVE new[new[i].on].kind \in {"V", "R", "I"}
    <2>1. new[i].on \in Job  BY Zenon, <1>1, <1>9 DEF JobRecord
    <2>2. jb[new[i].on].kind \in {"V", "R", "I"}  BY Zenon, <1>2, <1>3, <1>9 DEF JobsOK
    <2>3. new[i].on # f  BY Zenon, <1>4, <2>2
    <2> QED  BY Zenon, <1>2, <2>1, <2>2, <2>3
  <1> HIDE DEF new
  <1>10. JobsOK(new, sl2)  BY Zenon, <1>1, <1>6, <1>7, <1>8, <1>9 DEF JobsOK
  <1> QED  BY Zenon, <1>10 DEF new

\* A job leaves its table before its future is set.
LEMMA FinishJob ==
    ASSUME NEW jb, NEW sl, JobsOK(jb, sl), NEW j \in Job, NEW r \in JobRecord,
           jb[j].kind # "free", r.kind = jb[j].kind, r.pc = "set", r.on = None, LocalOK(r)
    PROVE  JobsOK([jb EXCEPT ![j] = r], [k \in Kinds |-> IF sl[k] = j THEN None ELSE sl[k]])
  <1> DEFINE new == [jb EXCEPT ![j] = r]
             sl2 == [k \in Kinds |-> IF sl[k] = j THEN None ELSE sl[k]]
  <1>1. new \in [Job -> JobRecord] /\ sl2 \in [Kinds -> Job \cup {None}]
    BY Zenon DEF JobsOK
  <1>2. \A i \in Job : i # j => new[i] = jb[i]  BY Zenon DEF JobsOK
  <1>3. new[j] = r  BY Zenon DEF JobsOK
  <1>4. \A k \in Kinds : sl2[k] = IF sl[k] = j THEN None ELSE sl[k]  BY Zenon
  <1>5. "V" \in Kinds  BY Zenon DEF Kinds
  <1> HIDE DEF new, sl2
  <1>6. ASSUME NEW i \in Job PROVE LocalOK(new[i]) /\ Serial(new[i], sl2)
    <2>1. CASE i = j  BY Zenon, <1>3, <2>1 DEF Serial
    <2>2. CASE i # j
      <3>1. LocalOK(jb[i]) /\ Serial(jb[i], sl)  BY Zenon DEF JobsOK
      <3>2. Serial(jb[i], sl2)  BY Zenon, <1>4, <1>5, <3>1 DEF Serial
      <3> QED  BY Zenon, <1>2, <2>2, <3>1, <3>2
    <2> QED  BY Zenon, <2>1, <2>2
  <1>7. \A k \in Kinds : sl2[k] # None => new[sl2[k]].kind = k /\ new[sl2[k]].pc # "set"
    BY <1>2, <1>4 DEF JobsOK
  <1>8. ASSUME NEW i \in Job, new[i].kind \in Kinds, new[i].pc # "set"
        PROVE  sl2[new[i].kind] = i
    BY <1>2, <1>3, <1>4, <1>8 DEF JobsOK
  <1>9. ASSUME NEW i \in Job, new[i].on # None PROVE new[new[i].on].kind \in {"V", "R", "I"}
    <2>1. i # j /\ new[i] = jb[i]  BY Zenon, <1>2, <1>3, <1>9
    <2>2. jb[i].on \in Job /\ jb[jb[i].on].kind \in {"V", "R", "I"}
      BY <1>9, <2>1 DEF JobsOK, JobRecord
    <2> QED  BY Zenon, <1>2, <1>3, <2>1, <2>2
  <1>10. JobsOK(new, sl2)  BY Zenon, <1>1, <1>6, <1>7, <1>8, <1>9 DEF JobsOK
  <1> QED  BY Zenon, <1>10 DEF new, sl2

\* A job that waited for a future goes on with its outcome.
LEMMA ResumedFacts ==
    ASSUME NEW r \in JobRecord, NEW o \in Outcome, LocalOK(r), r.on # None
    PROVE  /\ Resumed(r, o) \in JobRecord /\ LocalOK(Resumed(r, o))
           /\ Resumed(r, o).kind = r.kind /\ Resumed(r, o).on = None
           /\ Resumed(r, o).pc \notin {"set", "status", "put", "await"}
           /\ Resumed(r, o).kind = "R" => Resumed(r, o).pc # "finish"
           /\ Resumed(r, o).kind = "R" /\ Resumed(r, o).pc = "read" => r.pc = "await"
           /\ r.kind # "free"
  <1> DEFINE n == [r EXCEPT !.on = None]
  <1>1. n \in JobRecord /\ n.kind = r.kind /\ n.on = None /\ n.style = r.style /\ n.own = r.own
        /\ n.base = r.base /\ n.got = r.got /\ n.out = r.out
    BY Zenon DEF JobRecord
  <1>2. r.pc \in {"prior", "await", "joined", "inline"} /\ r.kind # "free"
    BY DEF LocalOK, FreeJob
  <1> HIDE DEF n
  <1>3. \/ Resumed(r, o) = [n EXCEPT !.pc = "queued"] /\ r.pc \in {"prior", "joined", "inline"}
        \/ Resumed(r, o) = [n EXCEPT !.pc = "read"] /\ r.pc = "await"
        \/ Resumed(r, o) = [n EXCEPT !.pc = "private"] /\ r.pc \in {"joined", "inline"}
        \/ Resumed(r, o) = [n EXCEPT !.pc = "finish", !.out = o] /\ r.pc \in {"joined", "inline"}
    <2>1. CASE r.pc = "prior"  BY Zenon, <2>1 DEF Resumed, n
    <2>2. CASE r.pc = "await"  BY Zenon, <2>2 DEF Resumed, n
    <2>3. CASE r.pc \in {"joined", "inline"} /\ Is(o) /\ o.ttl = "zero" /\ r.style = "sync"
      BY Zenon, <2>3 DEF Resumed, n
    <2>4. CASE r.pc \in {"joined", "inline"} /\ Is(o) /\ o.ttl = "zero" /\ r.style = "async"
                /\ r.own = "shared"
      BY Zenon, <2>4 DEF Resumed, n
    <2>5. CASE /\ r.pc \in {"joined", "inline"}
               /\ ~(Is(o) /\ o.ttl = "zero" /\ r.style = "sync")
               /\ ~(Is(o) /\ o.ttl = "zero" /\ r.style = "async" /\ r.own = "shared")
      BY Zenon, <2>5 DEF Resumed, n
    <2> QED  BY Zenon, <1>2, <2>1, <2>2, <2>3, <2>4, <2>5
  <1>4. CASE Resumed(r, o) = [n EXCEPT !.pc = "queued"] /\ r.pc \in {"prior", "joined", "inline"}
    BY <1>1, <1>2, <1>4 DEF JobRecord, LocalOK
  <1>5. CASE Resumed(r, o) = [n EXCEPT !.pc = "read"] /\ r.pc = "await"
    BY <1>1, <1>2, <1>5 DEF JobRecord, LocalOK
  <1>6. CASE Resumed(r, o) = [n EXCEPT !.pc = "private"] /\ r.pc \in {"joined", "inline"}
    BY <1>1, <1>2, <1>6 DEF JobRecord, LocalOK
  <1>7. CASE Resumed(r, o) = [n EXCEPT !.pc = "finish", !.out = o] /\ r.pc \in {"joined", "inline"}
    <2> DEFINE q == [n EXCEPT !.pc = "finish", !.out = o]
    <2>1. r.kind = "S"  BY Zenon, <1>2, <1>7 DEF LocalOK, JobRecord, Kinds
    <2>2. q \in JobRecord /\ q.kind = r.kind /\ q.on = None /\ q.pc = "finish"
      BY ZenonT(60), <1>1 DEF JobRecord
    <2> HIDE DEF q
    <2>3. LocalOK(q)  BY Zenon, <2>1, <2>2 DEF LocalOK
    <2> QED  BY Zenon, <1>2, <1>7, <2>1, <2>2, <2>3 DEF q
  <1> QED  BY Zenon, <1>3, <1>4, <1>5, <1>6, <1>7

\* A future is set: its job is free, and the jobs that waited for it go on.
AfterSet(jb, j, o) ==
    [k \in Job |-> CASE k = j -> FreeJob
                     [] k # j /\ jb[k].on = j -> Resumed(jb[k], o)
                     [] OTHER -> jb[k]]

\* A future that is completed keeps the jobs in order.
LEMMA SetJob ==
    ASSUME NEW jb, NEW sl, NEW jb2, JobsOK(jb, sl), NEW j \in Job, NEW o \in Outcome,
           jb[j].pc = "set", jb2 = AfterSet(jb, j, o)
    PROVE  /\ JobsOK(jb2, sl)
           /\ jb2[j] = FreeJob
           /\ \A i \in Job : i # j => jb2[i].kind = jb[i].kind
           /\ NoNews(jb, jb2)
  <1> USE ConstantsAssumption
  <1>1. jb2[j] = FreeJob  BY Zenon DEF AfterSet
  <1>2. ASSUME NEW i \in Job, i # j, jb[i].on # j PROVE jb2[i] = jb[i]
    BY Zenon, <1>2 DEF AfterSet
  <1>3. ASSUME NEW i \in Job, i # j, jb[i].on = j
        PROVE  /\ jb2[i] \in JobRecord /\ LocalOK(jb2[i])
               /\ jb2[i].kind = jb[i].kind /\ jb2[i].on = None
               /\ jb2[i].pc \notin {"set", "status", "put", "await"}
               /\ jb2[i].kind = "R" => jb2[i].pc # "finish"
               /\ jb2[i].kind = "R" /\ jb2[i].pc = "read" => jb[i].pc = "await"
               /\ jb[i].kind # "free"
    <2>1. jb2[i] = Resumed(jb[i], o)  BY Zenon, <1>3 DEF AfterSet
    <2>2. jb[i] \in JobRecord /\ LocalOK(jb[i]) /\ jb[i].on # None  BY Zenon, <1>3 DEF JobsOK
    <2> QED  BY <2>1, <2>2, ResumedFacts
  <1>4. DOMAIN jb2 = Job /\ jb2 = [k \in Job |-> jb2[k]]  BY Zenon DEF AfterSet
  <1>5. \A i \in Job : jb[i] \in JobRecord /\ LocalOK(jb[i]) /\ Serial(jb[i], sl)  BY Zenon DEF JobsOK
  <1>6. \A k \in Kinds : sl[k] # j  BY DEF JobsOK
  <1>7. "V" \in Kinds /\ "free" \notin Kinds  BY Zenon DEF Kinds
  <1>8. ASSUME NEW i \in Job PROVE jb2[i] \in JobRecord /\ LocalOK(jb2[i]) /\ Serial(jb2[i], sl)
    <2>1. CASE i = j  BY Zenon, <1>1, <2>1, FreeFacts
    <2>2. CASE i # j /\ jb[i].on # j  BY Zenon, <1>2, <1>5, <2>2
    <2>3. CASE i # j /\ jb[i].on = j
      <3>1. Serial(jb2[i], sl)  BY Zenon, <1>3, <1>5, <1>6, <1>7, <2>3 DEF Serial
      <3> QED  BY Zenon, <1>3, <2>3, <3>1
    <2> QED  BY Zenon, <2>1, <2>2, <2>3
  <1>9. jb2 \in [Job -> JobRecord] /\ sl \in [Kinds -> Job \cup {None}]
    <2> HIDE DEF JobsOK
    <2>1. \A i \in Job : jb2[i] \in JobRecord  BY Zenon, <1>8
    <2> QED  BY <1>4, <2>1 DEF JobsOK
  <1>10. ASSUME NEW k \in Kinds, sl[k] # None PROVE jb2[sl[k]].kind = k /\ jb2[sl[k]].pc # "set"
    <2>1. sl[k] \in Job /\ sl[k] # j /\ jb[sl[k]].kind = k /\ jb[sl[k]].pc # "set"
      BY <1>6, <1>10 DEF JobsOK
    <2> QED  BY Zenon, <1>2, <1>3, <2>1
  <1>11. ASSUME NEW i \in Job, jb2[i].kind \in Kinds, jb2[i].pc # "set"
         PROVE  sl[jb2[i].kind] = i
    <2>1. i # j  BY Zenon, <1>1, <1>7, <1>11, FreeFacts
    <2>2. CASE jb[i].on # j  BY <1>2, <1>11, <2>1, <2>2 DEF JobsOK
    <2>3. CASE jb[i].on = j
      <3>1. jb[i].pc # "set"  BY Zenon, <1>5, <2>3 DEF LocalOK
      <3> QED  BY <1>3, <1>11, <2>1, <2>3, <3>1 DEF JobsOK
    <2> QED  BY Zenon, <2>2, <2>3
  <1>12. ASSUME NEW i \in Job, jb2[i].on # None PROVE jb2[jb2[i].on].kind \in {"V", "R", "I"}
    <2>1. i # j /\ jb[i].on # j /\ jb2[i] = jb[i]  BY Zenon, <1>1, <1>2, <1>3, <1>12, FreeFacts
    <2>2. jb[i].on \in Job /\ jb[jb[i].on].kind \in {"V", "R", "I"}
      BY <1>5, <1>12, <2>1 DEF JobsOK, JobRecord
    <2>3. jb2[jb[i].on].kind = jb[jb[i].on].kind  BY Zenon, <1>2, <1>3, <2>1, <2>2
    <2> QED  BY Zenon, <2>1, <2>2, <2>3
  <1>13. JobsOK(jb2, sl)  BY Zenon, <1>8, <1>9, <1>10, <1>11, <1>12 DEF JobsOK
  <1>14. ASSUME NEW i \in Job, i # j, jb[i].on = j PROVE ~Acquired(jb2[i]) /\ ~Refreshed(jb2[i])
    <2>1. jb2[i].pc \notin {"set", "status", "put"} /\ (jb2[i].kind = "R" => jb2[i].pc # "finish")
      BY Zenon, <1>3, <1>14
    <2> QED  BY Zenon, <2>1 DEF Acquired, Refreshed
  <1>15. ~Acquired(jb2[j]) /\ ~Refreshed(jb2[j])
    BY Zenon, <1>1, FreeFacts DEF Acquired, Refreshed
  <1>16. NoNews(jb, jb2)  BY Zenon, <1>2, <1>14, <1>15 DEF NoNews
  <1> QED  BY Zenon, <1>1, <1>2, <1>3, <1>13, <1>16

-----------------------------------------------------------------------------
(* Callers *)

\* A caller's future stays alive while jobs keep their kinds.
LEMMA CallersStay ==
    ASSUME NEW cl, NEW jb, NEW jb2, CallersOK(cl, jb), SameKinds(jb, jb2)
    PROVE  CallersOK(cl, jb2)
  BY Zenon DEF CallersOK, SameKinds, Kinds

\* One call goes on.
LEMMA CallerMoves ==
    ASSUME NEW cl, NEW jb, CallersOK(cl, jb), NEW c \in Caller, NEW r \in CallRecord,
           r.pc = "wait" => r.on \in Job /\ jb[r.on].kind \in Kinds \cup {"I"}
    PROVE  CallersOK([cl EXCEPT ![c] = r], jb)
  BY Zenon DEF CallersOK

-----------------------------------------------------------------------------
(* Versions *)

\* What the ordering speaks of are versions.
LEMMA VersionFacts ==
    ASSUME NEW jb, NEW sl, JobsOK(jb, sl), NEW i \in Job
    PROVE  /\ Acquired(jb[i]) => jb[i].got \in Evidence /\ jb[i].got.ver \in Nat
           /\ Refreshed(jb[i]) => jb[i].out \in Evidence /\ jb[i].out.ver \in Nat
  <1>1. jb[i] \in JobRecord /\ LocalOK(jb[i])  BY Zenon DEF JobsOK
  <1>2. \A e \in Evidence : e.ver \in Nat  BY ConstantsAssumption DEF Evidence
  <1>3. Acquired(jb[i]) => jb[i].got \in Evidence  BY Zenon, <1>1 DEF Acquired, LocalOK
  <1>4. jb[i].out \in Outcome  BY Zenon, <1>1 DEF JobRecord
  <1>5. Refreshed(jb[i]) => jb[i].out \in Evidence  BY Zenon, <1>4 DEF Refreshed, Is, Outcome
  <1> QED  BY Zenon, <1>2, <1>3, <1>5

\* Steps that bring in no evidence keep the order.
LEMMA OrderStays ==
    ASSUME NEW jb, NEW jb2, NEW ca, NEW ca2, NEW fl, NEW w, Ordered(jb, ca, fl, w),
           NoNews(jb, jb2), NoNewer(ca, ca2)
    PROVE  Ordered(jb2, ca2, fl, w)
  <1> HIDE DEF Acquired, Refreshed
  <1> USE DEF NoNews, NoNewer
  <1>1. ASSUME NEW i \in Job, Acquired(jb2[i])
        PROVE  fl <= jb2[i].got.ver /\ jb2[i].got.ver <= w
               /\ (ca2 # None => ca2.ver <= jb2[i].got.ver)
    BY Zenon, <1>1 DEF Ordered
  <1>2. ASSUME NEW i \in Job, Refreshed(jb2[i])
        PROVE  /\ jb2[i].out.ver <= w
               /\ ca2 # None => jb2[i].out.ver <= ca2.ver
               /\ \A h \in Job : Acquired(jb2[h]) => jb2[i].out.ver <= jb2[h].got.ver
    BY Zenon, <1>2 DEF Ordered
  <1>3. fl <= w /\ (ca2 # None => fl <= ca2.ver /\ ca2.ver <= w)
    BY Zenon DEF Ordered
  <1> QED  BY Zenon, <1>1, <1>2, <1>3 DEF Ordered

\* Evidence that is read now is of the published version.
LEMMA OrderRead ==
    ASSUME NEW jb, NEW jb2, NEW ca, NEW fl, NEW w, Ordered(jb, ca, fl, w), NEW j \in Job,
           w \in Nat, jb2[j].got.ver = w, ~Refreshed(jb2[j]),
           \A i \in Job : i # j => jb2[i] = jb[i]
    PROVE  Ordered(jb2, ca, fl, w)
  <1> HIDE DEF Acquired, Refreshed
  <1>1. ASSUME NEW i \in Job, Acquired(jb2[i])
        PROVE  fl <= jb2[i].got.ver /\ jb2[i].got.ver <= w
               /\ (ca # None => ca.ver <= jb2[i].got.ver)
    BY <1>1 DEF Ordered
  <1>2. ASSUME NEW i \in Job, Refreshed(jb2[i])
        PROVE  /\ jb2[i].out.ver <= w
               /\ ca # None => jb2[i].out.ver <= ca.ver
               /\ \A h \in Job : Acquired(jb2[h]) => jb2[i].out.ver <= jb2[h].got.ver
    BY Zenon, <1>2 DEF Ordered
  <1> QED  BY Zenon, <1>1, <1>2 DEF Ordered

\* The only evidence on its way is put in the cache.
LEMMA OrderPut ==
    ASSUME NEW jb, NEW jb2, NEW ca, NEW ca2, NEW fl, NEW w, Ordered(jb, ca, fl, w), NEW j \in Job,
           Acquired(jb[j]), jb[j].got.ver \in Nat,
           ca2 = None \/ ca2.ver = jb[j].got.ver,
           Refreshed(jb2[j]) => jb2[j].out = jb[j].got,
           \A i \in Job : i # j => jb2[i] = jb[i],
           \A i \in Job : ~Acquired(jb2[i])
    PROVE  Ordered(jb2, ca2, fl, w)
  <1> HIDE DEF Acquired, Refreshed
  <1>1. fl <= jb[j].got.ver /\ jb[j].got.ver <= w  BY Zenon DEF Ordered
  <1>2. ASSUME NEW i \in Job, Refreshed(jb2[i])
        PROVE  jb2[i].out.ver <= w /\ (ca2 # None => jb2[i].out.ver <= ca2.ver)
    <2>1. CASE i = j  BY <1>1, <1>2, <2>1
    <2>2. CASE i # j  BY Zenon, <1>2, <2>2 DEF Ordered
    <2> QED  BY Zenon, <2>1, <2>2
  <1>3. fl <= w  BY Zenon DEF Ordered
  <1> QED  BY Zenon, <1>1, <1>2, <1>3 DEF Ordered

\* The outcome of a refresh becomes the newest one returned.
LEMMA OrderSet ==
    ASSUME NEW jb, NEW jb2, NEW ca, NEW fl, NEW fl2, NEW w, Ordered(jb, ca, fl, w), NEW j \in Job,
           \/ fl2 = fl
           \/ Refreshed(jb[j]) /\ fl2 = jb[j].out.ver,
           NoNews(jb, jb2)
    PROVE  Ordered(jb2, ca, fl2, w)
  <1> HIDE DEF Acquired, Refreshed
  <1>1. Ordered(jb2, ca, fl, w)  BY Zenon, OrderStays DEF NoNewer
  <1>2. CASE fl2 = fl  BY Zenon, <1>1, <1>2
  <1>3. CASE Refreshed(jb[j]) /\ fl2 = jb[j].out.ver
    <2>1. /\ fl2 <= w /\ (ca # None => fl2 <= ca.ver)
          /\ \A h \in Job : Acquired(jb[h]) => fl2 <= jb[h].got.ver
      BY Zenon, <1>3 DEF Ordered
    <2> QED  BY Zenon, <1>1, <2>1 DEF Ordered, NoNews
  <1> QED  BY Zenon, <1>2, <1>3

-----------------------------------------------------------------------------
(* Steps of one job *)

\* Only one job that may write the cache reads the network.
LEMMA OneReader ==
    ASSUME NEW jb, NEW sl, JobsOK(jb, sl), NEW i \in Job, NEW h \in Job,
           jb[i].kind \in {"V", "R"}, jb[i].pc \in {"read", "status", "put"},
           jb[h].kind \in {"V", "R"}, jb[h].pc \in {"read", "status", "put"}
    PROVE  i = h
  <1>1. sl[jb[i].kind] = i /\ sl[jb[h].kind] = h  BY Zenon DEF JobsOK, Kinds
  <1>2. Serial(jb[i], sl) /\ Serial(jb[h], sl) /\ i # None /\ h # None
    BY Zenon, ConstantsAssumption DEF JobsOK
  <1> QED  BY Zenon, <1>1, <1>2 DEF Serial

\* A step of one job that is not its last keeps the invariant.
LEMMA JobGoesOn ==
    ASSUME IInv, NEW j \in Job, NEW r \in JobRecord,
           job' = [job EXCEPT ![j] = r], UNCHANGED <<slot, caller, closing>>,
           job[j].kind # "free", job[j].pc # "set", r.kind = job[j].kind, r.pc # "set",
           LocalOK(r), Serial(r, slot), r.on # None => job[r.on].kind \in {"V", "R", "I"},
           Rest', Ordered(job', cache', floor', world'.ver)
    PROVE  IInv'
  <1>1. JobsOK(job', slot')  BY Zenon, MoveJob DEF IInv
  <1>2. CallersOK(caller', job')
    <2>1. SameKinds(job, job')  BY Zenon DEF IInv, JobsOK, SameKinds
    <2>2. CallersOK(caller, job) /\ caller' = caller  BY Zenon DEF IInv
    <2> QED  BY Zenon, <2>1, <2>2, CallersStay
  <1>3. closing' # "closed"  BY Zenon DEF IInv, ClosedIsQuiet
  <1>4. ClosedIsQuiet'  BY Zenon, <1>3 DEF ClosedIsQuiet
  <1> QED  BY Zenon, <1>1, <1>2, <1>4 DEF IInv

\* The facts of a job every step below starts from.
LEMMA JobFacts ==
    ASSUME IInv, NEW j \in Job
    PROVE  /\ job[j] \in JobRecord /\ LocalOK(job[j]) /\ Serial(job[j], slot)
           /\ job[j].pc # "free" => job[j].kind # "free"
           /\ job[j].on # None => job[job[j].on].kind \in {"V", "R", "I"}
           /\ \A k \in Kinds : slot[k] # None => slot[k] \in Job /\ job[slot[k]].kind = k
           /\ Rest /\ JobsOK(job, slot) /\ Ordered(job, cache, floor, world.ver)
           /\ \A r : [job EXCEPT ![j] = r][j] = r
           /\ \A r, i : i # j => [job EXCEPT ![j] = r][i] = job[i]
  <1>1. Rest /\ JobsOK(job, slot) /\ Ordered(job, cache, floor, world.ver)  BY Zenon DEF IInv
  <1>2. /\ job \in [Job -> JobRecord] /\ LocalOK(job[j]) /\ Serial(job[j], slot)
        /\ job[j].on # None => job[job[j].on].kind \in {"V", "R", "I"}
    BY Zenon, <1>1 DEF JobsOK
  <1>3. \A k \in Kinds : slot[k] # None => slot[k] \in Job /\ job[slot[k]].kind = k
    BY <1>1 DEF JobsOK
  <1>4. job[j].pc # "free" => job[j].kind # "free"
    <2>1. job[j].kind = "free" => job[j] = FreeJob  BY Zenon, <1>2 DEF LocalOK
    <2> QED  BY Zenon, <2>1, FreeFacts
  <1> QED  BY <1>1, <1>2, <1>3, <1>4

\* A job that brings in no evidence and leaves the cache alone.
LEMMA JobPlainStep ==
    ASSUME IInv, NEW j \in Job, NEW r \in JobRecord,
           job' = [job EXCEPT ![j] = r], UNCHANGED <<slot, caller, closing, floor, world>>,
           job[j].pc \notin {"free", "set"}, r.kind = job[j].kind, r.pc # "set",
           LocalOK(r), Serial(r, slot), r.on # None => job[r.on].kind \in {"V", "R", "I"},
           Rest', NoNewer(cache, cache'),
           Acquired(r) => Acquired(job[j]) /\ r.got.ver = job[j].got.ver, ~Refreshed(r)
    PROVE  IInv'
  <1>1. /\ job[j].kind # "free" /\ Ordered(job, cache, floor, world.ver)
        /\ \A i \in Job : job'[i] = IF i = j THEN r ELSE job[i]
    BY Zenon, JobFacts DEF IInv, JobsOK
  <1>2. Ordered(job', cache', floor', world'.ver)
    <2>1. NoNews(job, job')  BY Zenon, <1>1 DEF NoNews
    <2>2. Ordered(job', cache', floor, world.ver)  BY Zenon, <1>1, <2>1, OrderStays
    <2> QED  BY Zenon, <2>2
  <1> QED  BY Zenon, <1>1, <1>2, JobGoesOn

\* A job takes a worker.
LEMMA DequeueStep == ASSUME IInv, NEW j \in Job, Dequeue(j) PROVE IInv'
  <1> DEFINE r == [job[j] EXCEPT !.pc = Entry(job[j].kind)]
  <1>1. /\ job[j] \in JobRecord /\ LocalOK(job[j]) /\ job[j].pc = "queued" /\ job[j].kind # "free"
        /\ Rest
    BY Zenon, JobFacts DEF Dequeue, AtPc
  <1>2. job[j].kind \in {"V", "S", "R"} /\ job[j].on = None
    BY Zenon, <1>1 DEF LocalOK, JobRecord, Kinds
  <1>3. Entry(job[j].kind) \in {"read", "look", "begin"}
        /\ (job[j].kind = "V" => Entry(job[j].kind) = "read")
        /\ (job[j].kind = "S" => Entry(job[j].kind) = "look")
        /\ (job[j].kind = "R" => Entry(job[j].kind) = "begin")
    BY Zenon, <1>2 DEF Entry
  <1>4. r \in JobRecord /\ r.kind = job[j].kind /\ r.on = None /\ r.pc = Entry(job[j].kind)
    BY Zenon, <1>1, <1>2, <1>3 DEF JobRecord
  <1>5. job' = [job EXCEPT ![j] = r] /\ UNCHANGED <<slot, caller, closing, floor, world, cache>> /\ Rest'
    BY Zenon, <1>1 DEF Dequeue, Own, Rest
  <1> HIDE DEF r
  <1>6. LocalOK(r) /\ Serial(r, slot) /\ ~Acquired(r) /\ ~Refreshed(r)
    BY Zenon, <1>2, <1>3, <1>4 DEF LocalOK, Serial, Acquired, Refreshed
  <1> QED  BY Zenon, <1>1, <1>3, <1>4, <1>5, <1>6, JobPlainStep DEF NoNewer

\* A refresh looks for the lookup in progress.
LEMMA BeginStep == ASSUME IInv, NEW j \in Job, Begin(j) PROVE IInv'
  <1> DEFINE r == [job[j] EXCEPT !.on = slot["V"],
                                 !.pc = IF slot["V"] # None THEN "await" ELSE "read"]
  <1>1. /\ job[j] \in JobRecord /\ LocalOK(job[j]) /\ job[j].pc = "begin" /\ job[j].kind # "free"
        /\ Rest /\ slot["V"] \in Job \cup {None}
        /\ slot["V"] # None => job[slot["V"]].kind = "V"
    BY Zenon, JobFacts DEF Begin, AtPc, Kinds
  <1>2. job[j].kind \in {"R", "I"}  BY Zenon, <1>1 DEF LocalOK, JobRecord, Kinds
  <1>3. /\ r \in JobRecord /\ r.kind = job[j].kind /\ r.on = slot["V"]
        /\ r.pc = IF slot["V"] # None THEN "await" ELSE "read"
    BY Zenon, <1>1 DEF JobRecord
  <1>4. job' = [job EXCEPT ![j] = r] /\ UNCHANGED <<slot, caller, closing, floor, world, cache>> /\ Rest'
    BY Zenon, <1>1 DEF Begin, Own, Rest
  <1> HIDE DEF r
  <1>5. LocalOK(r) /\ Serial(r, slot) /\ ~Acquired(r) /\ ~Refreshed(r)
    BY Zenon, <1>2, <1>3 DEF LocalOK, Serial, Acquired, Refreshed
  <1> QED  BY Zenon, <1>1, <1>3, <1>4, <1>5, JobPlainStep DEF NoNewer

\* The record is read: the evidence is of the version published now.
LEMMA ReadStep == ASSUME IInv, NEW j \in Job, Read(j) PROVE IInv'
  <1> DEFINE e == [ver |-> world.ver, ttl |-> world.ttl, stamp |-> 0]
             r == [job[j] EXCEPT !.pc = "status", !.got = e]
  <1>1. /\ job[j] \in JobRecord /\ LocalOK(job[j]) /\ Serial(job[j], slot)
        /\ job[j].pc = "read" /\ job[j].kind # "free"
        /\ Rest /\ Ordered(job, cache, floor, world.ver)
    BY Zenon, JobFacts DEF Read, AtPc
  <1>2. job[j].kind \in {"V", "R", "I"} /\ job[j].on = None
    BY Zenon, <1>1 DEF LocalOK, JobRecord, Kinds
  <1>3. e \in Evidence /\ e.ver = world.ver /\ world.ver \in Nat
    <2>1. world.ver \in 0..MaxVersion /\ world.ttl \in {"zero", "positive"}
      BY Zenon, <1>1, ConstantsAssumption DEF Rest
    <2>2. e \in Evidence  BY Zenon, <2>1 DEF Evidence
    <2> QED  BY <2>1, <2>2, ConstantsAssumption
  <1>4. job' = [job EXCEPT ![j] = r] /\ UNCHANGED <<slot, caller, closing, floor, world, cache>> /\ Rest'
    BY Zenon, <1>1 DEF Read, Own, Rest
  <1> HIDE DEF e
  <1>5. r \in JobRecord /\ r.kind = job[j].kind /\ r.on = None /\ r.pc = "status" /\ r.got = e
    BY Zenon, <1>1, <1>2, <1>3 DEF JobRecord
  <1> HIDE DEF r
  <1>6. LocalOK(r) /\ Serial(r, slot) /\ ~Refreshed(r)
    BY Zenon, <1>1, <1>2, <1>3, <1>5 DEF LocalOK, Serial, Refreshed
  <1>7. Ordered(job', cache', floor', world'.ver)
    <2>1. job'[j] = r /\ \A i \in Job : i # j => job'[i] = job[i]
      BY <1>4, JobFacts
    <2>2. Ordered(job', cache, floor, world.ver)
      BY Zenon, <1>1, <1>3, <1>5, <1>6, <2>1, OrderRead
    <2> QED  BY Zenon, <1>4, <2>2
  <1> QED  BY Zenon, <1>1, <1>4, <1>5, <1>6, <1>7, JobGoesOn

\* The status is fetched.
LEMMA StatusStep == ASSUME IInv, NEW j \in Job, Status(j) PROVE IInv'
  <1>1. /\ job[j] \in JobRecord /\ LocalOK(job[j]) /\ Serial(job[j], slot)
        /\ job[j].pc = "status" /\ job[j].kind # "free" /\ Rest
    BY Zenon, JobFacts DEF Status, AtPc
  <1>2. job[j].kind \in {"V", "R", "I"} /\ job[j].on = None /\ job[j].got \in Evidence
    BY Zenon, <1>1 DEF LocalOK, JobRecord, Kinds
  <1>3. Stamped(job[j].got) \in Evidence /\ Stamped(job[j].got).ver = job[j].got.ver
    BY <1>1, <1>2 DEF Stamped, Evidence, Rest
  <1>4. UNCHANGED <<slot, caller, closing, floor, world, cache>> /\ Rest'
    BY <1>1 DEF Status, Rest
  <1>5. \/ job' = [job EXCEPT ![j] = [job[j] EXCEPT !.pc = "put", !.got = Stamped(job[j].got)]]
        \/ job' = [job EXCEPT ![j] = [job[j] EXCEPT !.pc = "finish", !.got = None, !.out = NotActive]]
        \/ job' = [job EXCEPT ![j] = [job[j] EXCEPT !.pc = "put"]]
    BY Zenon DEF Status, Own
  <1>6. ASSUME NEW r \in JobRecord, job' = [job EXCEPT ![j] = r], r.kind = job[j].kind, r.on = None,
               \/ r.pc = "put" /\ r.got \in Evidence /\ r.got.ver = job[j].got.ver
               \/ r.pc = "finish" /\ r.out = NotActive
        PROVE  IInv'
    <2>1. LocalOK(r) /\ Serial(r, slot) /\ ~Refreshed(r)
      BY Zenon, <1>1, <1>2, <1>6 DEF LocalOK, Serial, Refreshed, Is
    <2>2. Acquired(r) => Acquired(job[j]) /\ r.got.ver = job[j].got.ver
      BY Zenon, <1>1, <1>6 DEF Acquired
    <2> QED  BY Zenon, <1>1, <1>4, <1>6, <2>1, <2>2, JobPlainStep DEF NoNewer
  <1>7. CASE job' = [job EXCEPT ![j] = [job[j] EXCEPT !.pc = "put", !.got = Stamped(job[j].got)]]
    <2> DEFINE r == [job[j] EXCEPT !.pc = "put", !.got = Stamped(job[j].got)]
    <2>1. r \in JobRecord /\ r.kind = job[j].kind /\ r.on = None /\ r.pc = "put"
          /\ r.got = Stamped(job[j].got)
      BY Zenon, <1>1, <1>2, <1>3 DEF JobRecord
    <2> QED  BY Zenon, <1>3, <1>6, <1>7, <2>1
  <1>8. CASE job' = [job EXCEPT ![j] = [job[j] EXCEPT !.pc = "finish", !.got = None, !.out = NotActive]]
    <2> DEFINE r == [job[j] EXCEPT !.pc = "finish", !.got = None, !.out = NotActive]
    <2>1. r \in JobRecord /\ r.kind = job[j].kind /\ r.on = None /\ r.pc = "finish"
          /\ r.out = NotActive
      BY ZenonT(60), <1>1, <1>2 DEF JobRecord, Outcome
    <2> QED  BY Zenon, <1>6, <1>8, <2>1
  <1>9. CASE job' = [job EXCEPT ![j] = [job[j] EXCEPT !.pc = "put"]]
    <2> DEFINE r == [job[j] EXCEPT !.pc = "put"]
    <2>1. r \in JobRecord /\ r.kind = job[j].kind /\ r.on = None /\ r.pc = "put"
          /\ r.got = job[j].got
      BY Zenon, <1>1, <1>2 DEF JobRecord
    <2> QED  BY Zenon, <1>2, <1>6, <1>9, <2>1
  <1> QED  BY Zenon, <1>5, <1>7, <1>8, <1>9

\* The evidence is cached, unless it is private or has no TTL.
LEMMA PutStep == ASSUME IInv, NEW j \in Job, Put(j) PROVE IInv'
  <1> DEFINE e == job[j].got
             r == [job[j] EXCEPT !.pc = "finish", !.got = None, !.out = e]
  <1>1. /\ job[j] \in JobRecord /\ LocalOK(job[j]) /\ Serial(job[j], slot)
        /\ job[j].pc = "put" /\ job[j].kind # "free"
        /\ Rest /\ JobsOK(job, slot) /\ Ordered(job, cache, floor, world.ver)
    BY Zenon, JobFacts DEF Put, AtPc
  <1>2. job[j].kind \in {"V", "R", "I"} /\ job[j].on = None /\ e \in Evidence
    BY Zenon, <1>1 DEF LocalOK, JobRecord, Kinds
  <1>3. /\ job' = [job EXCEPT ![j] = r] /\ UNCHANGED <<slot, caller, closing, floor, world>>
        /\ job[j].kind = "I" => cache' = cache
        /\ job[j].kind # "I" => cache' = e \/ cache' = None
    BY Zenon DEF Put, Own
  <1>4. Rest'
    <2>1. cache' \in Evidence \cup {None}  BY Zenon, <1>1, <1>2, <1>3 DEF Rest
    <2> QED  BY Zenon, <1>1, <2>1 DEF Rest, Put
  <1>5. r \in JobRecord /\ r.kind = job[j].kind /\ r.on = None /\ r.pc = "finish" /\ r.out = e
    BY ZenonT(60), <1>1, <1>2 DEF JobRecord, Outcome
  <1> HIDE DEF r
  <1>6. LocalOK(r) /\ Serial(r, slot) /\ ~Acquired(r)
    BY Zenon, <1>2, <1>5 DEF LocalOK, Serial, Acquired
  <1>7. CASE job[j].kind = "I"
    <2>1. ~Refreshed(r)  BY Zenon, <1>5, <1>7 DEF Refreshed
    <2> QED  BY Zenon, <1>1, <1>3, <1>4, <1>5, <1>6, <1>7, <2>1, JobPlainStep DEF NoNewer
  <1>8. CASE job[j].kind # "I"
    <2>1. job'[j] = r /\ \A i \in Job : i # j => job'[i] = job[i]
      BY SMTT(30), <1>3, JobFacts
    <2>2. Acquired(job[j]) /\ e.ver \in Nat
      BY Zenon, <1>1, <1>2, <1>8, VersionFacts DEF Acquired
    <2>3. ASSUME NEW i \in Job PROVE ~Acquired(job'[i])
      <3>1. CASE i = j  BY Zenon, <1>6, <2>1, <3>1
      <3>2. CASE i # j
        <4>1. ~Acquired(job[i])
          BY Zenon, <1>1, <2>2, <3>2, OneReader DEF Acquired
        <4> QED  BY Zenon, <2>1, <3>2, <4>1
      <3> QED  BY Zenon, <3>1, <3>2
    <2>4. cache' = None \/ cache'.ver = job[j].got.ver  BY Zenon, <1>3, <1>8
    <2>5. Refreshed(job'[j]) => job'[j].out = job[j].got  BY Zenon, <1>5, <2>1
    <2>6. Ordered(job', cache', floor, world.ver)
      BY Zenon, <1>1, <2>1, <2>2, <2>3, <2>4, <2>5, OrderPut
    <2>7. Ordered(job', cache', floor', world'.ver)  BY Zenon, <1>3, <2>6
    <2> QED  BY Zenon, <1>1, <1>3, <1>4, <1>5, <1>6, <2>7, JobGoesOn
  <1> QED  BY Zenon, <1>7, <1>8

\* A status refresh finds out what the cache holds.
LEMMA LookStatusStep == ASSUME IInv, NEW j \in Job, LookStatus(j) PROVE IInv'
  <1>1. /\ job[j] \in JobRecord /\ LocalOK(job[j]) /\ job[j].pc = "look" /\ job[j].kind # "free"
        /\ Rest
    BY Zenon, JobFacts DEF LookStatus, AtPc
  <1>2. job[j].kind = "S" /\ job[j].on = None
    BY Zenon, <1>1 DEF LocalOK, JobRecord, Kinds
  <1>3. UNCHANGED <<slot, caller, closing, floor, world, cache>> /\ Rest'
    BY Zenon, <1>1 DEF LookStatus, Rest
  <1>4. \/ job' = [job EXCEPT ![j] = [job[j] EXCEPT !.pc = "claim"]]
        \/ job' = [job EXCEPT ![j] = [job[j] EXCEPT !.pc = "finish", !.out = cache]]
        \/ cache # None /\ job' = [job EXCEPT ![j] = [job[j] EXCEPT !.pc = "fetch", !.got = cache]]
    BY Zenon DEF LookStatus, Own
  <1>5. cache \in Evidence \cup {None} /\ cache \in Outcome  BY Zenon, <1>1 DEF Rest, Outcome
  <1>6. ASSUME NEW r \in JobRecord, job' = [job EXCEPT ![j] = r], r.kind = "S", r.on = None,
               \/ r.pc \in {"claim", "finish"}
               \/ r.pc = "fetch" /\ r.got \in Evidence /\ r.got # None
        PROVE  IInv'
    <2>1. LocalOK(r) /\ Serial(r, slot) /\ ~Refreshed(r) /\ ~Acquired(r)
      BY Zenon, <1>6 DEF LocalOK, Serial, Refreshed, Acquired
    <2> QED  BY Zenon, <1>1, <1>2, <1>3, <1>6, <2>1, JobPlainStep DEF NoNewer
  <1>7. CASE job' = [job EXCEPT ![j] = [job[j] EXCEPT !.pc = "claim"]]
    <2> DEFINE r == [job[j] EXCEPT !.pc = "claim"]
    <2>1. r \in JobRecord /\ r.kind = "S" /\ r.on = None /\ r.pc = "claim"
      BY Zenon, <1>1, <1>2 DEF JobRecord
    <2> QED  BY Zenon, <1>6, <1>7, <2>1
  <1>8. CASE job' = [job EXCEPT ![j] = [job[j] EXCEPT !.pc = "finish", !.out = cache]]
    <2> DEFINE r == [job[j] EXCEPT !.pc = "finish", !.out = cache]
    <2>1. r \in JobRecord /\ r.kind = "S" /\ r.on = None /\ r.pc = "finish"
      BY Zenon, <1>1, <1>2, <1>5 DEF JobRecord
    <2> QED  BY Zenon, <1>6, <1>8, <2>1
  <1>9. CASE cache # None /\ job' = [job EXCEPT ![j] = [job[j] EXCEPT !.pc = "fetch", !.got = cache]]
    <2> DEFINE r == [job[j] EXCEPT !.pc = "fetch", !.got = cache]
    <2>1. r \in JobRecord /\ r.kind = "S" /\ r.on = None /\ r.pc = "fetch"
          /\ r.got \in Evidence /\ r.got # None
      BY Zenon, <1>1, <1>2, <1>5, <1>9 DEF JobRecord
    <2> QED  BY Zenon, <1>6, <1>9, <2>1
  <1> QED  BY Zenon, <1>4, <1>7, <1>8, <1>9

\* The status of cached evidence is fetched, and published only over that
\* evidence.
LEMMA FetchStep == ASSUME IInv, NEW j \in Job, FetchStatus(j) PROVE IInv'
  <1>1. /\ job[j] \in JobRecord /\ LocalOK(job[j]) /\ job[j].pc = "fetch" /\ job[j].kind # "free"
        /\ Rest
    BY Zenon, JobFacts DEF FetchStatus, AtPc
  <1>2. job[j].kind = "S" /\ job[j].on = None /\ job[j].got \in Evidence /\ job[j].got # None
    BY Zenon, <1>1 DEF LocalOK, JobRecord, Kinds
  <1>3. Stamped(job[j].got) \in Evidence /\ Stamped(job[j].got).ver = job[j].got.ver
    BY <1>1, <1>2 DEF Stamped, Evidence, Rest
  <1>4. UNCHANGED <<slot, caller, closing, floor, world>> /\ Rest' /\ NoNewer(cache, cache')
    BY <1>1 DEF FetchStatus, Rest, NoNewer
  <1>5. \/ job' = [job EXCEPT ![j] = [job[j] EXCEPT !.pc = "store", !.out = Stamped(job[j].got)]]
        \/ job' = [job EXCEPT ![j] = [job[j] EXCEPT !.pc = "finish", !.got = None, !.out = NotActive]]
    BY Zenon DEF FetchStatus, Own
  <1>6. ASSUME NEW r \in JobRecord, job' = [job EXCEPT ![j] = r], r.kind = "S", r.on = None,
               \/ r.pc = "finish"
               \/ /\ r.pc = "store" /\ r.got \in Evidence /\ r.got # None
                  /\ r.out \in Evidence /\ r.out.ver = r.got.ver
        PROVE  IInv'
    <2>1. LocalOK(r) /\ Serial(r, slot) /\ ~Refreshed(r) /\ ~Acquired(r)
      BY Zenon, <1>6 DEF LocalOK, Serial, Refreshed, Acquired
    <2> QED  BY Zenon, <1>1, <1>2, <1>4, <1>6, <2>1, JobPlainStep
  <1>7. CASE job' = [job EXCEPT ![j] = [job[j] EXCEPT !.pc = "store", !.out = Stamped(job[j].got)]]
    <2> DEFINE r == [job[j] EXCEPT !.pc = "store", !.out = Stamped(job[j].got)]
    <2>1. r \in JobRecord /\ r.kind = "S" /\ r.on = None /\ r.pc = "store"
          /\ r.got = job[j].got /\ r.out = Stamped(job[j].got)
      BY Zenon, <1>1, <1>2, <1>3 DEF JobRecord, Outcome
    <2> QED  BY Zenon, <1>2, <1>3, <1>6, <1>7, <2>1
  <1>8. CASE job' = [job EXCEPT ![j] = [job[j] EXCEPT !.pc = "finish", !.got = None, !.out = NotActive]]
    <2> DEFINE r == [job[j] EXCEPT !.pc = "finish", !.got = None, !.out = NotActive]
    <2>1. r \in JobRecord /\ r.kind = "S" /\ r.on = None /\ r.pc = "finish"
      BY ZenonT(60), <1>1, <1>2 DEF JobRecord, Outcome
    <2> QED  BY Zenon, <1>6, <1>8, <2>1
  <1> QED  BY Zenon, <1>5, <1>7, <1>8

\* A refreshed status replaces only the evidence it is about (_cache_refreshed_status).
LEMMA StoreStep == ASSUME IInv, NEW j \in Job, StoreStatus(j) PROVE IInv'
  <1> DEFINE o == CASE cache = None       -> Failed
                    [] cache = job[j].got -> job[j].out
                    [] OTHER              -> cache
             r == [job[j] EXCEPT !.pc = "finish", !.got = None, !.out = o]
  <1>1. /\ job[j] \in JobRecord /\ LocalOK(job[j]) /\ job[j].pc = "store" /\ job[j].kind # "free"
        /\ Rest
    BY Zenon, JobFacts DEF StoreStatus, AtPc
  <1>2. /\ job[j].kind = "S" /\ job[j].on = None /\ job[j].got \in Evidence /\ job[j].got # None
        /\ job[j].out \in Evidence /\ job[j].out.ver = job[j].got.ver
    BY Zenon, <1>1 DEF LocalOK, JobRecord, Kinds
  <1>3. /\ job' = [job EXCEPT ![j] = r] /\ UNCHANGED <<slot, caller, closing, floor, world>>
        /\ cache' = IF cache = job[j].got THEN job[j].out ELSE cache
    BY Zenon DEF StoreStatus, Own
  <1>4. cache \in Evidence \cup {None}  BY Zenon, <1>1 DEF Rest
  <1>5. o = Failed \/ o = job[j].out \/ o = cache
    <2>1. CASE cache = None  BY Zenon, <1>2, <2>1
    <2>2. CASE cache # None /\ cache = job[j].got  BY Zenon, <2>2
    <2>3. CASE cache # None /\ cache # job[j].got  BY Zenon, <2>3
    <2> QED  BY Zenon, <2>1, <2>2, <2>3
  <1> HIDE DEF o
  <1>6. o \in Outcome  BY Zenon, <1>2, <1>4, <1>5 DEF Outcome
  <1>7. Rest'
    <2>1. cache' \in Evidence \cup {None}  BY Zenon, <1>2, <1>3, <1>4
    <2> QED  BY Zenon, <1>1, <2>1 DEF Rest, StoreStatus
  <1>8. NoNewer(cache, cache')  BY Zenon, <1>2, <1>3 DEF NoNewer
  <1>9. r \in JobRecord /\ r.kind = "S" /\ r.on = None /\ r.pc = "finish"
    BY Zenon, <1>1, <1>2, <1>6 DEF JobRecord
  <1> HIDE DEF r
  <1>10. LocalOK(r) /\ Serial(r, slot) /\ ~Refreshed(r) /\ ~Acquired(r)
    BY Zenon, <1>9 DEF LocalOK, Serial, Refreshed, Acquired
  <1> QED  BY Zenon, <1>1, <1>2, <1>3, <1>7, <1>8, <1>9, <1>10, JobPlainStep

\* A failure reaches the future like any other outcome.
LEMMA FailStep == ASSUME IInv, NEW j \in Job, Fail(j) PROVE IInv'
  <1> DEFINE r == [job[j] EXCEPT !.pc = "finish", !.got = None, !.out = Failed, !.on = None]
  <1>1. /\ job[j] \in JobRecord /\ LocalOK(job[j]) /\ job[j].pc \notin {"free", "set", "queued", "prior", "claim", "inline", "private"}
        /\ job[j].kind # "free" /\ Rest
    BY Zenon, JobFacts DEF Fail, AtPc
  <1>2. /\ job' = [job EXCEPT ![j] = r] /\ UNCHANGED <<slot, caller, closing, floor, world>>
        /\ cache' = cache \/ cache' = None
    BY Zenon DEF Fail, Own
  <1>3. Rest'  BY <1>1, <1>2, ConstantsAssumption DEF Rest, Fail, Fault
  <1>4. /\ r \in JobRecord /\ r.kind = job[j].kind /\ r.on = None /\ r.pc = "finish"
        /\ r.out = Failed
    BY Zenon, <1>1 DEF JobRecord, Outcome
  <1> HIDE DEF r
  <1>5. LocalOK(r) /\ Serial(r, slot) /\ ~Refreshed(r) /\ ~Acquired(r)
    BY Zenon, <1>1, <1>4 DEF LocalOK, Serial, Refreshed, Acquired, Is, JobRecord, Kinds
  <1> QED  BY Zenon, <1>1, <1>2, <1>3, <1>4, <1>5, JobPlainStep DEF NoNewer

\* A status refresh leads a job of its own: a registered verification or a
\* private one.
LEMMA LeadJob ==
    ASSUME IInv, NEW j \in Job, NEW f \in Job, NEW q \in JobRecord, NEW v \in JobRecord,
           job[f].kind = "free", job[j].kind = "S", job[j].pc \in {"claim", "private"},
           q.kind = "S", q.pc \in {"inline", "joined"}, q.on = f,
           v.kind \in {"V", "I"}, v.pc = "read", v.on = None,
           \/ v.kind = "I" /\ slot' = slot
           \/ /\ v.kind = "V" /\ slot["V"] = None /\ slot["R"] = None
              /\ slot' = [slot EXCEPT !["V"] = f],
           job' = [job EXCEPT ![j] = q, ![f] = v],
           UNCHANGED <<world, cache, stamp, caller, calls, faults, closing, floor, evicted>>
    PROVE  IInv'
  <1> DEFINE one == [job EXCEPT ![f] = v]
  <1>1. /\ JobsOK(job, slot) /\ CallersOK(caller, job) /\ Rest
        /\ Ordered(job, cache, floor, world.ver)
    BY Zenon DEF IInv
  <1>2. j # f  BY Zenon
  <1>3. job \in [Job -> JobRecord]  BY Zenon, <1>1 DEF JobsOK
  <1>4. LocalOK(v) /\ Serial(v, slot') /\ ~Acquired(v) /\ ~Refreshed(v)
    BY Zenon DEF LocalOK, Serial, Acquired, Refreshed
  <1>5. JobsOK(one, slot')
    <2>1. Registers(slot, slot', f, v)  BY Zenon DEF Kinds, Registers
    <2>2. v.kind \in Kinds \cup {"I"} /\ v.pc # "set"  BY Zenon DEF Kinds
    <2> QED  BY Zenon, <1>1, <1>4, <2>1, <2>2, AddJob
  <1>6. /\ one[j] = job[j] /\ one[f] = v /\ job' = [one EXCEPT ![j] = q]
        /\ \A i \in Job : i # j /\ i # f => job'[i] = job[i]
        /\ job'[j] = q /\ job'[f] = v
    BY Zenon, <1>2, <1>3
  <1> HIDE DEF one
  <1>7. LocalOK(q) /\ Serial(q, slot') /\ ~Acquired(q) /\ ~Refreshed(q)
    BY Zenon DEF LocalOK, Serial, Acquired, Refreshed
  <1>8. JobsOK([one EXCEPT ![j] = q], slot')
    <2>1. /\ one[j].kind = "S" /\ one[j].pc # "set" /\ q.pc # "set"
          /\ one[q.on].kind \in {"V", "R", "I"}
      BY Zenon, <1>6
    <2> QED  BY Zenon, <1>5, <1>7, <2>1, MoveJob
  <1>9. SameKinds(job, job')  BY ZenonT(60), <1>2, <1>6 DEF SameKinds
  <1>10. NoNews(job, job')  BY ZenonT(60), <1>4, <1>6, <1>7 DEF NoNews
  <1>11. CallersOK(caller', job')  BY Zenon, <1>1, <1>9, CallersStay
  <1>12. Ordered(job', cache, floor, world.ver)  BY Zenon, <1>1, <1>10, OrderStays DEF NoNewer
  <1>13. closing # "closed"  BY Zenon DEF IInv, ClosedIsQuiet
  <1>14. ClosedIsQuiet' /\ Rest'  BY Zenon, <1>1, <1>13 DEF ClosedIsQuiet, Rest
  <1> QED  BY Zenon, <1>6, <1>8, <1>11, <1>12, <1>14 DEF IInv

\* A status refresh whose evidence is gone joins or leads a full verification.
LEMMA ClaimFullStep == ASSUME IInv, NEW j \in Job, ClaimFull(j) PROVE IInv'
  <1>1. /\ job[j] \in JobRecord /\ LocalOK(job[j]) /\ job[j].pc = "claim" /\ job[j].kind # "free"
        /\ Rest /\ slot["V"] \in Job \cup {None} /\ slot["R"] \in Job \cup {None}
        /\ slot["V"] # None => job[slot["V"]].kind = "V"
        /\ slot["R"] # None => job[slot["R"]].kind = "R"
    BY Zenon, JobFacts DEF ClaimFull, AtPc, Kinds
  <1>2. job[j].kind = "S"  BY Zenon, <1>1 DEF LocalOK, JobRecord, Kinds
  <1>3. CASE FullFuture # None
    <2> DEFINE r == [job[j] EXCEPT !.pc = "joined", !.on = FullFuture, !.own = "shared"]
    <2>1. FullFuture \in Job /\ job[FullFuture].kind \in {"V", "R"}
      BY Zenon, <1>1, <1>3 DEF FullFuture
    <2>2. /\ job' = [job EXCEPT ![j] = r] /\ Rest'
          /\ UNCHANGED <<slot, caller, closing, floor, world, cache>>
      BY Zenon, <1>1, <1>3 DEF ClaimFull, Own, Rest
    <2>3. r \in JobRecord /\ r.kind = "S" /\ r.on = FullFuture /\ r.pc = "joined"
      BY Zenon, <1>1, <1>2, <2>1 DEF JobRecord
    <2> HIDE DEF r
    <2>4. LocalOK(r) /\ Serial(r, slot) /\ ~Refreshed(r) /\ ~Acquired(r)
      BY Zenon, <2>3 DEF LocalOK, Serial, Refreshed, Acquired
    <2> QED  BY Zenon, <1>1, <1>2, <2>1, <2>2, <2>3, <2>4, JobPlainStep DEF NoNewer
  <1>4. CASE FullFuture = None
    <2> DEFINE sync == job[j].style = "sync"
               q == [job[j] EXCEPT !.pc = IF sync THEN "inline" ELSE "joined",
                                   !.on = Free, !.own = "led"]
               v == [FreeJob EXCEPT !.kind = "V", !.pc = "read",
                                    !.style = IF sync THEN "inline" ELSE "async"]
    <2>1. slot["V"] = None /\ slot["R"] = None  BY Zenon, <1>4 DEF FullFuture
    <2>2. Free \in Job /\ job[Free].kind = "free"
      BY Zenon, <1>4, ChosenFree DEF ClaimFull
    <2>3. /\ job' = [job EXCEPT ![j] = q, ![Free] = v] /\ slot' = [slot EXCEPT !["V"] = Free]
          /\ UNCHANGED <<world, cache, stamp, caller, calls, faults, closing, floor, evicted>>
      BY Zenon, <1>4 DEF ClaimFull
    <2>4. /\ q \in JobRecord /\ q.kind = "S" /\ q.pc \in {"inline", "joined"} /\ q.on = Free
      BY ZenonT(60), <1>1, <1>2, <2>2 DEF JobRecord
    <2>5. v \in JobRecord /\ v.kind = "V" /\ v.pc = "read" /\ v.on = None
      BY Zenon DEF JobRecord, FreeJob, Outcome, Kinds
    <2> HIDE DEF q, v
    <2> QED  BY Zenon, <1>1, <1>2, <2>1, <2>2, <2>3, <2>4, <2>5, LeadJob
  <1> QED  BY Zenon, <1>3, <1>4

\* An asynchronous status refresh that joined zero-TTL evidence verifies on its own.
LEMMA SeparateStep == ASSUME IInv, NEW j \in Job, Separate(j) PROVE IInv'
  <1> DEFINE q == [job[j] EXCEPT !.pc = "joined", !.on = Free, !.own = "led"]
             v == Private(FALSE)
  <1>1. job[j] \in JobRecord /\ LocalOK(job[j]) /\ job[j].pc = "private" /\ job[j].kind # "free"
    BY Zenon, JobFacts DEF Separate, AtPc
  <1>2. job[j].kind = "S"  BY Zenon, <1>1 DEF LocalOK, JobRecord, Kinds
  <1>3. Free \in Job /\ job[Free].kind = "free"  BY Zenon, ChosenFree DEF Separate
  <1>4. /\ job' = [job EXCEPT ![j] = q, ![Free] = v] /\ slot' = slot
        /\ UNCHANGED <<world, cache, stamp, caller, calls, faults, closing, floor, evicted>>
    BY Zenon DEF Separate
  <1>5. q \in JobRecord /\ q.kind = "S" /\ q.pc = "joined" /\ q.on = Free
    BY Zenon, <1>1, <1>2, <1>3 DEF JobRecord
  <1>6. v \in JobRecord /\ v.kind = "I" /\ v.pc = "read" /\ v.on = None
    BY Zenon DEF JobRecord, FreeJob, Outcome, Kinds, Private
  <1> HIDE DEF q, v
  <1> QED  BY Zenon, <1>1, <1>2, <1>3, <1>4, <1>5, <1>6, LeadJob

\* The job leaves its table.
LEMMA FinishStep == ASSUME IInv, NEW j \in Job, Finish(j) PROVE IInv'
  <1> DEFINE r == [FreeJob EXCEPT !.kind = job[j].kind, !.style = job[j].style,
                                  !.pc = "set", !.out = job[j].out]
             sl == [k \in Kinds |-> IF slot[k] = j THEN None ELSE slot[k]]
  <1>1. /\ job[j] \in JobRecord /\ LocalOK(job[j]) /\ job[j].pc = "finish" /\ job[j].kind # "free"
        /\ Rest /\ JobsOK(job, slot) /\ Ordered(job, cache, floor, world.ver)
        /\ CallersOK(caller, job)
    BY Zenon, JobFacts DEF Finish, AtPc, IInv
  <1>2. /\ job' = [job EXCEPT ![j] = r] /\ slot' = sl
        /\ UNCHANGED <<caller, closing, floor, world>>
        /\ cache' = cache \/ cache' = None
    BY Zenon DEF Finish, Own
  <1>3. Rest'  BY Zenon, <1>1, <1>2 DEF Rest, Finish
  <1>4. /\ r \in JobRecord /\ r.kind = job[j].kind /\ r.on = None /\ r.pc = "set"
        /\ r.out = job[j].out
    BY Zenon, <1>1 DEF JobRecord, FreeJob, Outcome, Kinds
  <1> HIDE DEF r
  <1>5. job'[j] = r /\ \A i \in Job : i # j => job'[i] = job[i]
    BY Zenon, <1>1, <1>2 DEF JobsOK
  <1>6. LocalOK(r) /\ ~Acquired(r) /\ (Refreshed(r) => Refreshed(job[j]))
    BY Zenon, <1>1, <1>4 DEF LocalOK, Acquired, Refreshed, JobRecord, Kinds
  <1>7. JobsOK(job', slot')  BY Zenon, <1>1, <1>2, <1>4, <1>6, FinishJob
  <1>8. SameKinds(job, job') /\ NoNews(job, job') /\ NoNewer(cache, cache')
    BY Zenon, <1>2, <1>4, <1>5, <1>6 DEF SameKinds, NoNews, NoNewer
  <1>9. CallersOK(caller', job')  BY Zenon, <1>1, <1>2, <1>8, CallersStay
  <1>10. Ordered(job', cache', floor, world.ver)  BY Zenon, <1>1, <1>8, OrderStays
  <1>11. closing # "closed"  BY Zenon, <1>1 DEF IInv, ClosedIsQuiet
  <1>12. ClosedIsQuiet'  BY Zenon, <1>2, <1>11 DEF ClosedIsQuiet
  <1> QED  BY Zenon, <1>2, <1>3, <1>7, <1>9, <1>10, <1>12 DEF IInv

\* The future is set, and everyone who waited for it goes on.
LEMMA SetStep == ASSUME IInv, NEW j \in Job, SetOutcome(j) PROVE IInv'
  <1> DEFINE o == job[j].out
  <1>1. /\ job[j] \in JobRecord /\ LocalOK(job[j]) /\ job[j].pc = "set" /\ job[j].kind # "free"
        /\ Rest /\ JobsOK(job, slot) /\ Ordered(job, cache, floor, world.ver)
        /\ CallersOK(caller, job) /\ job[j].out \in Outcome
    BY Zenon, JobFacts DEF SetOutcome, AtPc, IInv, JobRecord
  <1>2. /\ job' = AfterSet(job, j, o)
        /\ UNCHANGED <<world, cache, stamp, slot, calls, faults, closing, evicted>>
        /\ caller' = [c \in Caller |->
                IF caller[c].pc = "wait" /\ caller[c].on = j
                THEN [caller[c] EXCEPT !.pc = "woken", !.on = None, !.res = o]
                ELSE caller[c]]
    BY Zenon DEF SetOutcome, AfterSet
  <1>3. /\ JobsOK(job', slot) /\ NoNews(job, job')
        /\ \A i \in Job : i # j => job'[i].kind = job[i].kind
    <2> HIDE DEF o
    <2>1. o \in Outcome  BY Zenon, <1>1 DEF o
    <2>2. job' = AfterSet(job, j, o)  BY Zenon, <1>2
    <2> QED  BY SMTT(30), <1>1, <2>1, <2>2, SetJob
  <1>6. CallersOK(caller', job')
    <2>1. caller \in [Caller -> CallRecord]  BY Zenon, <1>1 DEF CallersOK
    <2>2. ASSUME NEW c \in Caller
          PROVE  /\ caller'[c] \in CallRecord
                 /\ caller'[c].pc = "wait" =>
                       caller'[c].on \in Job /\ job'[caller'[c].on].kind \in Kinds \cup {"I"}
      <3>1. CASE caller[c].pc = "wait" /\ caller[c].on = j
        <4>1. caller'[c] = [caller[c] EXCEPT !.pc = "woken", !.on = None, !.res = o]
          BY Zenon, <1>2, <3>1
        <4>2. caller[c] \in CallRecord  BY Zenon, <2>1
        <4> QED  BY Zenon, <1>1, <4>1, <4>2 DEF CallRecord
      <3>2. CASE ~(caller[c].pc = "wait" /\ caller[c].on = j)
        <4>1. caller'[c] = caller[c]  BY Zenon, <1>2, <3>2
        <4> QED  BY Zenon, <1>1, <1>3, <2>1, <3>2, <4>1 DEF CallersOK
      <3> QED  BY Zenon, <3>1, <3>2
    <2>3. caller' \in [Caller -> CallRecord]
      <3>1. caller' = [c \in Caller |-> caller'[c]]  BY Zenon, <1>2
      <3>2. \A c \in Caller : caller'[c] \in CallRecord  BY Zenon, <2>2
      <3> QED  BY Zenon, <3>1, <3>2
    <2> QED  BY Zenon, <2>2, <2>3 DEF CallersOK
  <1>7. \/ floor' = floor
        \/ Refreshed(job[j]) /\ floor' = o.ver
    BY Zenon, <1>1 DEF SetOutcome, Refreshed
  <1>8. Ordered(job', cache, floor', world.ver)
    BY Zenon, <1>1, <1>3, <1>7, OrderSet
  <1>9. floor' \in 0..MaxVersion
    <2>1. CASE floor' = floor  BY Zenon, <1>1, <2>1 DEF Rest
    <2>2. CASE Refreshed(job[j]) /\ floor' = o.ver
      <3>1. o \in Evidence  BY Zenon, <1>1, <2>2, VersionFacts
      <3> QED  BY Zenon, <2>2, <3>1 DEF Evidence
    <2> QED  BY Zenon, <1>7, <2>1, <2>2
  <1>10. Rest'  BY Zenon, <1>1, <1>2, <1>9 DEF Rest
  <1>11. closing # "closed"  BY Zenon, <1>1 DEF IInv, ClosedIsQuiet
  <1>12. ClosedIsQuiet'  BY Zenon, <1>2, <1>11 DEF ClosedIsQuiet
  <1> QED  BY Zenon, <1>2, <1>3, <1>6, <1>8, <1>10, <1>12 DEF IInv

-----------------------------------------------------------------------------
(* Steps of one call *)

\* A call goes on, and at most empties the cache.
LEMMA CallGoesOn ==
    ASSUME IInv, NEW c \in Caller, NEW r \in CallRecord,
           caller' = [caller EXCEPT ![c] = r], UNCHANGED <<slot, job, closing, floor, world>>,
           Rest', NoNewer(cache, cache'), closing = "open" \/ caller[c].pc # "idle",
           r.pc = "wait" => r.on \in Job /\ job[r.on].kind \in Kinds \cup {"I"}
    PROVE  IInv'
  <1>1. /\ JobsOK(job, slot) /\ CallersOK(caller, job)
        /\ Ordered(job, cache, floor, world.ver)
    BY Zenon DEF IInv
  <1>2. CallersOK(caller', job)  BY Zenon, <1>1, CallerMoves
  <1>3. NoNews(job, job)  BY Zenon DEF NoNews
  <1>4. Ordered(job, cache', floor, world.ver)  BY Zenon, <1>1, <1>3, OrderStays
  <1>5. closing # "closed"  BY Zenon DEF IInv, ClosedIsQuiet
  <1>6. ClosedIsQuiet'  BY Zenon, <1>5 DEF ClosedIsQuiet
  <1> QED  BY Zenon, <1>1, <1>2, <1>4, <1>6 DEF IInv

\* A call starts a job and waits for it.
LEMMA CallLeads ==
    ASSUME IInv, NEW c \in Caller, NEW f \in Job, NEW r \in CallRecord, NEW v \in JobRecord,
           job[f].kind = "free", v.kind \in Kinds \cup {"I"}, LocalOK(v), Serial(v, slot'),
           v.pc \notin {"set", "status", "put", "finish"},
           v.on # None => job[v.on].kind \in {"V", "R", "I"},
           Registers(slot, slot', f, v), r.on = f, caller[c].pc # "idle",
           job' = [job EXCEPT ![f] = v], caller' = [caller EXCEPT ![c] = r],
           UNCHANGED <<world, cache, stamp, calls, faults, closing, floor, evicted>>
    PROVE  IInv'
  <1>1. /\ JobsOK(job, slot) /\ CallersOK(caller, job) /\ Rest
        /\ Ordered(job, cache, floor, world.ver)
    BY Zenon DEF IInv
  <1>2. job'[f] = v /\ \A i \in Job : i # f => job'[i] = job[i]
    BY Zenon, <1>1 DEF JobsOK
  <1>3. JobsOK(job', slot')  BY Zenon, <1>1, AddJob
  <1>4. ~Acquired(v) /\ ~Refreshed(v)  BY Zenon DEF Acquired, Refreshed
  <1>5. SameKinds(job, job') /\ NoNews(job, job') /\ NoNewer(cache, cache)
    BY Zenon, <1>2, <1>4 DEF SameKinds, NoNews, NoNewer
  <1>6. CallersOK(caller', job')
    <2>1. CallersOK(caller, job')  BY Zenon, <1>1, <1>5, CallersStay
    <2>2. job'[r.on].kind \in Kinds \cup {"I"}  BY Zenon, <1>2
    <2> QED  BY Zenon, <2>1, <2>2, CallerMoves
  <1>7. Ordered(job', cache, floor, world.ver)  BY Zenon, <1>1, <1>5, OrderStays
  <1>8. closing # "closed"  BY Zenon DEF IInv, ClosedIsQuiet
  <1>9. ClosedIsQuiet' /\ Rest'  BY Zenon, <1>1, <1>8 DEF ClosedIsQuiet, Rest
  <1> QED  BY Zenon, <1>3, <1>6, <1>7, <1>9 DEF IInv

\* The facts of a call, and of the futures it may find.
LEMMA CallFacts ==
    ASSUME IInv, NEW c \in Caller
    PROVE  /\ caller[c] \in CallRecord /\ Rest
           /\ \A k \in Kinds : slot[k] \in Job \cup {None}
           /\ \A k \in Kinds : slot[k] # None => job[slot[k]].kind = k
           /\ NoCall \in CallRecord /\ NoCall.pc = "idle"
  <1>1. NoCall \in CallRecord /\ NoCall.pc = "idle"
    BY ConstantsAssumption DEF NoCall, CallRecord, Kinds, Outcome
  <1> QED  BY Zenon, <1>1 DEF IInv, JobsOK, CallersOK

\* A call begins.
LEMMA CallStep ==
    ASSUME IInv, NEW c \in Caller, NEW op \in {"verify", "refresh"}, NEW style \in Styles,
           Call(c, op, style)
    PROVE  IInv'
  <1> DEFINE r == [NoCall EXCEPT !.op = op, !.style = style, !.need = evicted,
                                 !.pc = IF op = "refresh" THEN "claim" ELSE "look",
                                 !.kind = IF op = "refresh" THEN "R" ELSE "V"]
  <1>1. Rest /\ evicted \in 0..MaxVersion /\ style \in {"sync", "async"}
    BY Zenon, ConstantsAssumption DEF IInv, Rest
  <1>2. r \in CallRecord /\ r.pc # "wait"
    BY Zenon, <1>1 DEF NoCall, CallRecord, Kinds, Outcome
  <1>3. /\ caller' = [caller EXCEPT ![c] = r] /\ closing = "open"
        /\ UNCHANGED <<slot, job, closing, floor, world, cache>>
    BY Zenon DEF Call
  <1>4. Rest'  BY <1>1, ConstantsAssumption DEF Rest, Call
  <1> HIDE DEF r
  <1> QED  BY Zenon, <1>2, <1>3, <1>4, CallGoesOn DEF NoNewer

\* A call that joins a future.
LEMMA WaitFacts ==
    ASSUME IInv, NEW c \in Caller, NEW f \in Job, NEW own \in {"led", "shared"}
    PROVE  Wait(c, f, own) \in CallRecord /\ Wait(c, f, own).pc = "wait" /\ Wait(c, f, own).on = f
  <1>1. caller[c] \in CallRecord  BY Zenon, CallFacts
  <1> QED  BY Zenon, <1>1 DEF Wait, CallRecord

\* A caller looks up the work in progress.
LEMMA LookStep == ASSUME IInv, NEW c \in Caller, Look(c) PROVE IInv'
  <1>1. /\ caller[c] \in CallRecord /\ Rest /\ caller[c].pc = "look"
        /\ \A k \in Kinds : slot[k] \in Job \cup {None}
        /\ \A k \in Kinds : slot[k] # None => job[slot[k]].kind = k
    BY Zenon, CallFacts DEF Look
  <1>2. UNCHANGED <<slot, job, closing, floor, world, cache>> /\ Rest'
    BY Zenon, <1>1 DEF Look, Rest
  <1>3. CASE AnyFuture # None
    <2>1. AnyFuture \in Job /\ job[AnyFuture].kind \in Kinds
      BY Zenon, <1>1, <1>3 DEF AnyFuture, FullFuture, Kinds
    <2>2. caller' = [caller EXCEPT ![c] = Wait(c, AnyFuture, "shared")]  BY Zenon, <1>3 DEF Look
    <2>3. /\ Wait(c, AnyFuture, "shared") \in CallRecord
          /\ Wait(c, AnyFuture, "shared").on = AnyFuture
      BY Zenon, <2>1, WaitFacts
    <2> QED  BY Zenon, <1>1, <1>2, <2>1, <2>2, <2>3, CallGoesOn DEF NoNewer
  <1>4. CASE AnyFuture = None
    <2> DEFINE r == [caller[c] EXCEPT !.pc = "cache"]
    <2>1. caller' = [caller EXCEPT ![c] = r]  BY Zenon, <1>4 DEF Look
    <2>2. r \in CallRecord /\ r.pc = "cache"  BY Zenon, <1>1 DEF CallRecord
    <2> HIDE DEF r
    <2> QED  BY Zenon, <1>1, <1>2, <2>1, <2>2, CallGoesOn DEF NoNewer
  <1> QED  BY Zenon, <1>3, <1>4

\* A caller reads the cache.
LEMMA ReadCacheStep == ASSUME IInv, NEW c \in Caller, ReadCache(c) PROVE IInv'
  <1>1. caller[c] \in CallRecord /\ Rest /\ caller[c].pc = "cache"
    BY Zenon, CallFacts DEF ReadCache
  <1>2. UNCHANGED <<slot, job, closing, floor, world, cache>> /\ Rest'
    BY Zenon, <1>1 DEF ReadCache, Rest
  <1>3. cache \in Evidence \cup {None} /\ cache \in Outcome  BY Zenon, <1>1 DEF Rest, Outcome
  <1>4. \/ caller' = [caller EXCEPT ![c] = [caller[c] EXCEPT !.pc = "woken", !.res = cache]]
        \/ caller' = [caller EXCEPT ![c] = [caller[c] EXCEPT !.pc = "claim", !.seen = cache,
                                                 !.kind = IF cache # None THEN "S" ELSE "V"]]
    BY Zenon, <1>1 DEF ReadCache, IInv, CallersOK
  <1>5. ASSUME NEW r \in CallRecord, caller' = [caller EXCEPT ![c] = r], r.pc # "wait"
        PROVE  IInv'
    BY Zenon, <1>1, <1>2, <1>5, CallGoesOn DEF NoNewer
  <1>6. CASE caller' = [caller EXCEPT ![c] = [caller[c] EXCEPT !.pc = "woken", !.res = cache]]
    <2> DEFINE r == [caller[c] EXCEPT !.pc = "woken", !.res = cache]
    <2>1. r \in CallRecord /\ r.pc # "wait"  BY Zenon, <1>1, <1>3 DEF CallRecord
    <2> QED  BY Zenon, <1>5, <1>6, <2>1
  <1>7. CASE caller' = [caller EXCEPT ![c] = [caller[c] EXCEPT !.pc = "claim", !.seen = cache,
                                                   !.kind = IF cache # None THEN "S" ELSE "V"]]
    <2> DEFINE r == [caller[c] EXCEPT !.pc = "claim", !.seen = cache,
                                      !.kind = IF cache # None THEN "S" ELSE "V"]
    <2>1. r \in CallRecord /\ r.pc # "wait"  BY Zenon, <1>1, <1>3 DEF CallRecord, Kinds
    <2> QED  BY Zenon, <1>5, <1>7, <2>1
  <1> QED  BY Zenon, <1>4, <1>6, <1>7

\* The job a call registers.
LEMMA StartedFacts ==
    ASSUME IInv, NEW k \in Kinds, NEW style \in {"sync", "async"}, NEW base \in Evidence \cup {None}
    PROVE  /\ Started(k, style, base) \in JobRecord /\ LocalOK(Started(k, style, base))
           /\ Started(k, style, base).kind = k
           /\ Started(k, style, base).pc \in {"read", "look", "begin", "prior", "queued"}
           /\ k = "R" => Started(k, style, base).pc # "read"
           /\ Started(k, style, base).on # None => job[Started(k, style, base).on].kind = "V"
  <1> DEFINE previous == IF k = "R" /\ style = "sync" THEN slot["V"] ELSE None
             pc == CASE style = "async" -> Entry(k)
                     [] previous # None -> "prior"
                     [] OTHER           -> "queued"
             v == [FreeJob EXCEPT !.kind = k, !.style = style, !.base = base,
                                  !.on = previous, !.pc = pc]
  <1>1. v = Started(k, style, base)  BY Zenon DEF Started
  <1>2. slot["V"] \in Job \cup {None} /\ (slot["V"] # None => job[slot["V"]].kind = "V")
    BY Zenon DEF IInv, JobsOK, Kinds
  <1>3. /\ previous \in Job \cup {None} /\ (previous # None => job[previous].kind = "V")
        /\ previous # None => k = "R" /\ style = "sync"
    BY Zenon, <1>2
  <1>4. /\ k = "V" => Entry(k) = "read"
        /\ k = "S" => Entry(k) = "look"
        /\ k = "R" => Entry(k) = "begin"
    BY Zenon DEF Entry
  <1> HIDE DEF previous
  <1>5. /\ style = "async" => pc = Entry(k)
        /\ style = "sync" /\ previous # None => pc = "prior"
        /\ style = "sync" /\ previous = None => pc = "queued"
    BY Zenon, <1>3
  <1>6. k \in {"V", "S", "R"}  BY Zenon DEF Kinds
  <1> HIDE DEF pc
  <1>7. pc \in {"read", "look", "begin", "prior", "queued"}  BY Zenon, <1>4, <1>5, <1>6
  <1>8. v \in JobRecord /\ v.kind = k /\ v.pc = pc /\ v.on = previous
    BY Zenon, <1>3, <1>7 DEF FreeJob, JobRecord, Outcome
  <1> HIDE DEF v
  <1>9. LocalOK(v)  BY Zenon, <1>3, <1>4, <1>5, <1>6, <1>8 DEF LocalOK
  <1>10. k = "R" => pc # "read"  BY Zenon, <1>4, <1>5
  <1> QED  BY Zenon, <1>1, <1>3, <1>7, <1>8, <1>9, <1>10

\* A call finds the future to join, or that it may register its own.
LEMMA JoinableFacts ==
    ASSUME IInv, NEW k \in Kinds, NEW style \in {"sync", "async"}
    PROVE  /\ Joinable(style, k) # None =>
                 Joinable(style, k) \in Job /\ job[Joinable(style, k)].kind \in Kinds
           /\ Joinable(style, k) = None => slot[k] = None /\ (k = "V" => slot["R"] = None)
  <1>1. /\ \A x \in Kinds : slot[x] \in Job \cup {None}
        /\ \A x \in Kinds : slot[x] # None => job[slot[x]].kind = x
    BY Zenon DEF IInv, JobsOK
  <1>2. \/ k = "R" /\ Joinable(style, k) = slot["R"]
        \/ k = "V" /\ style = "sync" /\ Joinable(style, k) = FullFuture
        \/ k = "S" /\ style = "sync" /\ Joinable(style, k) = slot["S"]
        \/ k # "R" /\ style = "async" /\ Joinable(style, k) = AnyFuture
    <2>1. CASE k = "R"  BY Zenon, <2>1 DEF Joinable
    <2>2. CASE k = "V" /\ style = "sync"  BY Zenon, <2>2 DEF Joinable
    <2>3. CASE k = "S" /\ style = "sync"  BY Zenon, <2>3 DEF Joinable
    <2>4. CASE k # "R" /\ style = "async"  BY Zenon, <2>4 DEF Joinable
    <2> QED  BY Zenon, <2>1, <2>2, <2>3, <2>4 DEF Kinds
  <1> QED  BY Zenon, <1>1, <1>2 DEF AnyFuture, FullFuture, Kinds

\* A caller registers work of its own.
LEMMA ClaimStep == ASSUME IInv, NEW c \in Caller, Claim(c) PROVE IInv'
  <1> DEFINE k == caller[c].kind
             style == caller[c].style
             f == Joinable(style, k)
             base == caller[c].seen
             v == Started(k, style, base)
  <1>1. caller[c] \in CallRecord /\ Rest /\ caller[c].pc = "claim"
    BY Zenon, CallFacts DEF Claim
  <1>2. k \in Kinds /\ style \in {"sync", "async"} /\ base \in Evidence \cup {None}
    BY Zenon, <1>1 DEF CallRecord
  <1>3. CASE f # None
    <2>1. f \in Job /\ job[f].kind \in Kinds  BY Zenon, <1>2, <1>3, JoinableFacts
    <2>2. /\ caller' = [caller EXCEPT ![c] = Wait(c, f, "shared")] /\ Rest'
          /\ UNCHANGED <<slot, job, closing, floor, world, cache>>
      BY Zenon, <1>1, <1>3 DEF Claim, Rest
    <2> HIDE DEF f
    <2>3. Wait(c, f, "shared") \in CallRecord /\ Wait(c, f, "shared").on = f
      BY Zenon, <2>1, WaitFacts
    <2> QED  BY Zenon, <1>1, <2>1, <2>2, <2>3, CallGoesOn DEF NoNewer
  <1>4. CASE f = None
    <2>1. slot[k] = None /\ (k = "V" => slot["R"] = None)  BY Zenon, <1>2, <1>4, JoinableFacts
    <2>2. Free \in Job /\ job[Free].kind = "free"  BY Zenon, <1>4, ChosenFree DEF Claim
    <2>3. /\ slot' = [slot EXCEPT ![k] = Free] /\ job' = [job EXCEPT ![Free] = v]
          /\ caller' = [caller EXCEPT ![c] = Wait(c, Free, "led")]
          /\ UNCHANGED <<world, cache, stamp, calls, faults, closing, floor, evicted>>
      BY Zenon, <1>4 DEF Claim, Own
    <2> HIDE DEF k, style, base, f
    <2>4. /\ v \in JobRecord /\ LocalOK(v) /\ v.kind = k
          /\ v.pc \in {"read", "look", "begin", "prior", "queued"} /\ (k = "R" => v.pc # "read")
          /\ v.on # None => job[v.on].kind = "V"
      BY <1>2, StartedFacts
    <2> HIDE DEF v
    <2>5. Registers(slot, slot', Free, v) /\ Serial(v, slot')
      BY Zenon, <1>2, <2>1, <2>3, <2>4 DEF Registers, Serial
    <2>6. Wait(c, Free, "led") \in CallRecord /\ Wait(c, Free, "led").on = Free
      BY Zenon, <2>2, WaitFacts
    <2> QED  BY Zenon, <1>1, <1>2, <2>2, <2>3, <2>4, <2>5, <2>6, CallLeads
  <1> QED  BY Zenon, <1>3, <1>4

\* A caller does not use zero-TTL evidence of another invocation.
LEMMA AgainStep == ASSUME IInv, NEW c \in Caller, Again(c) PROVE IInv'
  <1>1. caller[c] \in CallRecord /\ Rest /\ caller[c].pc = "woken"
    BY Zenon, CallFacts DEF Again
  <1>2. CASE caller[c].style = "sync"
    <2> DEFINE r == [caller[c] EXCEPT !.pc = "claim", !.res = None]
    <2>1. caller' = [caller EXCEPT ![c] = r]
      BY Zenon, <1>2 DEF Again, IInv, CallersOK
    <2>2. UNCHANGED <<slot, job, closing, floor, world, cache>> /\ Rest'
      BY Zenon, <1>1, <1>2 DEF Again, Rest
    <2>3. r \in CallRecord /\ r.pc # "wait"  BY Zenon, <1>1 DEF CallRecord, Outcome
    <2> HIDE DEF r
    <2> QED  BY Zenon, <1>1, <2>1, <2>2, <2>3, CallGoesOn DEF NoNewer
  <1>3. CASE caller[c].style # "sync"
    <2> DEFINE v == Private(caller[c].op = "refresh")
               r == [Wait(c, Free, "led") EXCEPT !.res = None]
    <2>1. Free \in Job /\ job[Free].kind = "free"  BY Zenon, <1>3, ChosenFree DEF Again
    <2>2. /\ job' = [job EXCEPT ![Free] = v] /\ caller' = [caller EXCEPT ![c] = r]
          /\ UNCHANGED <<world, cache, stamp, slot, calls, faults, closing, floor, evicted>>
      BY Zenon, <1>3 DEF Again, Own
    <2>3. v \in JobRecord /\ v.kind = "I" /\ v.pc \in {"begin", "read"} /\ v.on = None
      BY Zenon DEF Private, FreeJob, JobRecord, Outcome, Kinds
    <2>4. r \in CallRecord /\ r.on = Free
      <3>1. Wait(c, Free, "led") \in CallRecord /\ Wait(c, Free, "led").on = Free
        BY Zenon, <2>1, WaitFacts
      <3> QED  BY Zenon, <3>1 DEF CallRecord, Outcome
    <2> HIDE DEF v, r
    <2>5. LocalOK(v) /\ Serial(v, slot') /\ Registers(slot, slot', Free, v)
      BY Zenon, <2>2, <2>3 DEF LocalOK, Serial, Registers
    <2> QED  BY Zenon, <1>1, <2>1, <2>2, <2>3, <2>4, <2>5, CallLeads
  <1> QED  BY Zenon, <1>2, <1>3

\* The call ends.
LEMMA ReturnStep == ASSUME IInv, NEW c \in Caller, Return(c) \/ GiveUp(c) PROVE IInv'
  <1>1. Rest /\ caller[c].pc # "idle" /\ NoCall \in CallRecord /\ NoCall.pc # "wait"
    BY Zenon, CallFacts DEF Return, GiveUp
  <1>2. /\ caller' = [caller EXCEPT ![c] = NoCall] /\ (cache' = cache \/ cache' = None)
        /\ UNCHANGED <<slot, job, closing, floor, world>>
    BY Zenon DEF Return, GiveUp
  <1>3. Rest'  BY <1>1, <1>2, ConstantsAssumption DEF Rest, Return, GiveUp, Fault
  <1> QED  BY Zenon, <1>1, <1>2, <1>3, CallGoesOn DEF NoNewer

-----------------------------------------------------------------------------
(* The world, eviction and shutdown *)

\* The published identity changes: everything known is of an older version.
LEMMA ChangeStep == ASSUME IInv, NEW ttl \in Ttls, Change(ttl) PROVE IInv'
  <1>1. Rest /\ JobsOK(job, slot) /\ Ordered(job, cache, floor, world.ver)  BY Zenon DEF IInv
  <1>2. /\ world'.ver = world.ver + 1 /\ world.ver \in Nat /\ world'.ver \in 0..MaxVersion
        /\ floor \in Nat
    BY <1>1, ConstantsAssumption DEF Rest, Change
  <1>3. UNCHANGED <<cache, stamp, slot, job, caller, calls, faults, closing, floor, evicted>>
    BY Zenon DEF Change
  <1>4. Rest'
    <2>1. world' = [world EXCEPT !.ver = world.ver + 1, !.ttl = ttl]  BY Zenon DEF Change
    <2>2. world' \in [ver : 0..MaxVersion, ttl : Ttls, state : {"ACTIVE", "REVOKED"}]
      BY Zenon, <1>1, <1>2, <2>1 DEF Rest
    <2> QED  BY Zenon, <1>1, <1>3, <2>2 DEF Rest
  <1>5. Ordered(job, cache, floor, world'.ver)
    <2>1. \A n \in Nat : n <= world.ver => n <= world'.ver  BY <1>2
    <2>2. cache # None => cache.ver \in Nat
      BY <1>1, ConstantsAssumption DEF Rest, Evidence
    <2>3. \A i \in Job : /\ Acquired(job[i]) => job[i].got.ver \in Nat
                         /\ Refreshed(job[i]) => job[i].out.ver \in Nat
      BY Zenon, <1>1, VersionFacts
    <2> QED  BY Zenon, <1>1, <1>2, <2>1, <2>2, <2>3 DEF Ordered
  <1>6. ClosedIsQuiet'  BY Zenon, <1>3 DEF IInv, ClosedIsQuiet
  <1> QED  BY Zenon, <1>3, <1>4, <1>5, <1>6 DEF IInv

\* A revocation, an eviction or an expiry at most empties the cache.
LEMMA EvictStep == ASSUME IInv, Revoke \/ EvictDomain \/ Expire PROVE IInv'
  <1>1. Rest /\ Ordered(job, cache, floor, world.ver)  BY Zenon DEF IInv
  <1>2. /\ UNCHANGED <<slot, job, caller, closing, floor>> /\ (cache' = cache \/ cache' = None)
        /\ world'.ver = world.ver
    BY Zenon, <1>1 DEF Revoke, EvictDomain, Expire, Rest
  <1>3. Rest'
    <2>1. world' \in [ver : 0..MaxVersion, ttl : Ttls, state : {"ACTIVE", "REVOKED"}]
      BY Zenon, <1>1 DEF Revoke, EvictDomain, Expire, Rest
    <2>2. faults' \in 0..MaxFaults /\ evicted' \in 0..MaxVersion /\ UNCHANGED <<stamp, calls>>
      BY <1>1, ConstantsAssumption DEF Revoke, EvictDomain, Expire, Rest, Fault
    <2> QED  BY Zenon, <1>1, <1>2, <2>1, <2>2 DEF Rest
  <1>4. NoNews(job, job) /\ NoNewer(cache, cache')  BY Zenon, <1>2 DEF NoNews, NoNewer
  <1>5. Ordered(job, cache', floor, world.ver)  BY Zenon, <1>1, <1>4, OrderStays
  <1>6. ClosedIsQuiet'  BY Zenon, <1>2 DEF IInv, ClosedIsQuiet
  <1> QED  BY Zenon, <1>2, <1>3, <1>5, <1>6 DEF IInv

\* Shutdown waits until no call and no job is left.
LEMMA CloseStep == ASSUME IInv, Close \/ Drained PROVE IInv'
  <1>1. Rest /\ JobsOK(job, slot)  BY Zenon DEF IInv
  <1>2. /\ UNCHANGED <<world, cache, stamp, slot, job, caller, calls, faults, floor, evicted>>
        /\ closing' \in {"closing", "closed"}
    BY Zenon DEF Close, Drained
  <1>3. Rest'  BY Zenon, <1>1, <1>2 DEF Rest
  <1>4. CASE Close
    BY Zenon, <1>2, <1>3, <1>4 DEF IInv, ClosedIsQuiet, Close
  <1>5. CASE Drained
    <2>1. ASSUME NEW j \in Job PROVE job[j].kind = "free"
      <3>1. job[j].kind \in Kinds \cup {"free", "I"}  BY Zenon, <1>1 DEF JobsOK, JobRecord
      <3>2. ~TrackedWorker(j) /\ \A k \in Kinds : slot[k] = None
        BY Zenon, <1>5 DEF Drained, Pending
      <3>3. job[j].kind # "I" /\ job[j].pc # "set"
        BY Zenon, <3>2 DEF TrackedWorker, AtPc
      <3>4. job[j].kind \in Kinds => slot[job[j].kind] = j
        BY Zenon, <1>1, <3>3 DEF JobsOK
      <3>5. job[j].kind \notin Kinds
        BY Zenon, <3>2, <3>4, ConstantsAssumption
      <3> QED  BY Zenon, <3>1, <3>3, <3>5
    <2>2. \A c \in Caller : caller[c].pc = "idle"  BY Zenon, <1>5 DEF Drained, Pending
    <2>3. ClosedIsQuiet'  BY Zenon, <1>2, <2>1, <2>2 DEF ClosedIsQuiet
    <2> QED  BY Zenon, <1>2, <1>3, <2>3 DEF IInv
  <1> QED  BY Zenon, <1>4, <1>5

-----------------------------------------------------------------------------
(* The invariant *)

\* A new verifier has no work in progress.
LEMMA InitIInv == Init => IInv
  <1> SUFFICES ASSUME Init PROVE IInv  BY Zenon
  <1> USE ConstantsAssumption
  <1>1. Rest  BY DEF Init, Rest
  <1>2. JobsOK(job, slot)
    <2>1. \A j \in Job : job[j] = FreeJob  BY Zenon DEF Init
    <2>2. \A k \in Kinds : slot[k] = None  BY Zenon DEF Init
    <2>3. job \in [Job -> JobRecord] /\ slot \in [Kinds -> Job \cup {None}]
      BY Zenon, FreeFacts DEF Init
    <2>4. "free" \notin Kinds  BY Zenon DEF Kinds
    <2> QED  BY Zenon, <2>1, <2>2, <2>3, <2>4, FreeFacts DEF JobsOK
  <1>3. CallersOK(caller, job)
    <2>1. NoCall \in CallRecord /\ NoCall.pc = "idle"
      BY SMTT(30) DEF NoCall, CallRecord, Kinds, Outcome
    <2> QED  BY Zenon, <2>1 DEF Init, CallersOK
  <1>4. Ordered(job, cache, floor, world.ver)
    <2>1. \A j \in Job : ~Acquired(job[j]) /\ ~Refreshed(job[j])
      BY Zenon, FreeFacts DEF Init, Acquired, Refreshed
    <2>2. cache = None /\ floor = 0 /\ world.ver = 0  BY Zenon DEF Init
    <2>3. 0 <= 0  OBVIOUS
    <2> HIDE ConstantsAssumption
    <2> QED  BY ZenonT(60), <2>1, <2>2, <2>3 DEF Ordered
  <1>5. ClosedIsQuiet  BY Zenon DEF Init, ClosedIsQuiet
  <1> QED  BY Zenon, <1>1, <1>2, <1>3, <1>4, <1>5 DEF IInv

\* Every step of every caller, job and of close keeps the invariant.
LEMMA NextIInv == IInv /\ [Next]_vars => IInv'
  <1> SUFFICES ASSUME IInv, [Next]_vars PROVE IInv'  BY Zenon
  <1>1. ASSUME NEW c \in Caller, NEW op \in {"verify", "refresh"}, NEW style \in Styles,
               Call(c, op, style)
        PROVE  IInv'
    BY Zenon, <1>1, CallStep
  <1>2. ASSUME NEW c \in Caller, CallerStep(c) \/ GiveUp(c) PROVE IInv'
    BY Zenon, <1>2, LookStep, ReadCacheStep, ClaimStep, AgainStep, ReturnStep DEF CallerStep
  <1>3. ASSUME NEW j \in Job, JobStep(j) \/ Fail(j) PROVE IInv'
    BY Zenon, <1>3, DequeueStep, BeginStep, ReadStep, StatusStep, PutStep, LookStatusStep,
       ClaimFullStep,
       FetchStep, StoreStep, SeparateStep, FinishStep, SetStep, FailStep DEF JobStep
  <1>4. ASSUME NEW ttl \in Ttls, Change(ttl) PROVE IInv'
    BY Zenon, <1>4, ChangeStep
  <1>5. ASSUME Revoke \/ EvictDomain \/ Expire PROVE IInv'
    BY Zenon, <1>5, EvictStep
  <1>6. ASSUME Close \/ Drained PROVE IInv'
    BY Zenon, <1>6, CloseStep
  <1>7. CASE UNCHANGED vars
    BY Zenon, <1>7 DEF vars, IInv, Rest, ClosedIsQuiet
  <1> QED  BY Zenon, <1>1, <1>2, <1>3, <1>4, <1>5, <1>6, <1>7 DEF Next

\* The invariant holds throughout.
LEMMA Invariant == Spec => []IInv
  BY InitIInv, NextIInv, PTL DEF Spec

-----------------------------------------------------------------------------
(* What the invariant gives *)

\* Every table, call and job keeps its type, whatever interleaves.
THEOREM TypesHold == Spec => []TypeOK
  <1>1. IInv => TypeOK  BY Zenon DEF IInv, Rest, JobsOK, CallersOK, TypeOK
  <1> QED  BY <1>1, Invariant, PTL

\* What a completed refresh_domain call returned is never undone in the cache,
\* by however many lookups and status refreshes that overlapped it.
THEOREM RefreshStays == Spec => []RefreshNotUndone
  <1>1. IInv => RefreshNotUndone
    <2> SUFFICES ASSUME IInv, cache # None PROVE cache.ver >= floor  BY Zenon DEF RefreshNotUndone
    <2>1. floor <= cache.ver  BY Zenon DEF IInv, Ordered
    <2>2. floor \in Nat /\ cache.ver \in Nat
      BY ConstantsAssumption DEF IInv, Rest, Evidence
    <2> QED  BY Zenon, <2>1, <2>2
  <1> QED  BY <1>1, Invariant, PTL

\* Verifications that may write the cache read the network one at a time.
THEOREM AcquisitionsCoalesce == Spec => []OneAcquisition
  <1>1. IInv => OneAcquisition
    <2> SUFFICES ASSUME IInv PROVE Cardinality(Acquiring) <= 1  BY Zenon DEF OneAcquisition
    <2>1. JobsOK(job, slot)  BY Zenon DEF IInv
    <2>2. ASSUME NEW i \in Acquiring, NEW h \in Acquiring PROVE i = h
      BY Zenon, <2>1, <2>2, OneReader DEF Acquiring
    <2>3. CASE Acquiring = {}
      <3>1. Cardinality(Acquiring) = 0  BY Zenon, <2>3, FS_EmptySet
      <3> QED  BY <3>1
    <2>4. CASE Acquiring # {}
      <3>1. PICK i : i \in Acquiring  BY Zenon, <2>4
      <3>2. Acquiring = {i}  BY Zenon, <2>2, <3>1
      <3>3. Cardinality(Acquiring) = 1  BY Zenon, <3>2, FS_Singleton
      <3> QED  BY <3>3
    <2> QED  BY Zenon, <2>3, <2>4
  <1> QED  BY <1>1, Invariant, PTL

\* Nobody waits for a future whose work is gone, and none is in the tables.
THEOREM WaitersAreServed == Spec => []WaitersServed
  <1>1. IInv => WaitersServed
    BY Zenon DEF IInv, JobsOK, CallersOK, WaitersServed, Live, AtPc
  <1> QED  BY <1>1, Invariant, PTL

\* close and aclose return only when no verification work is left.
THEOREM ShutdownIsQuiet == Spec => []ClosedIsQuiet
  <1>1. IInv => ClosedIsQuiet  BY Zenon DEF IInv
  <1> QED  BY <1>1, Invariant, PTL

-----------------------------------------------------------------------------
(* The gate of the forced refresh.                                          *)

\* A thread that refreshes owns its domain's in-flight mark, alone.
MarkOwned ==
    \A c \in Thread :
        thread[c].pc = "refreshing" =>
            /\ deadlines[thread[c].domain] = InFlight
            /\ \A e \in Thread : thread[e].pc = "refreshing"
                    /\ thread[e].domain = thread[c].domain => e = c

\* Clock readings are never from the future, and young while they are carried.
ReadingsYoung ==
    \A c \in Thread :
        /\ thread[c].at <= now
        /\ thread[c].pc = "asked" => now <= thread[c].at + MaxDelay
        /\ thread[c].pc = "refreshing" =>
                thread[c].at + Cooldown >= began[thread[c].domain] + Cooldown - MaxDelay

\* What is left of a domain's latest refresh: the mark, a deadline that is late
\* enough, or enough time gone by.
DeadlinesSpaced ==
    \A d \in Domain :
        \/ deadlines[d] = InFlight
        \/ deadlines[d] > 0 /\ deadlines[d] >= began[d] + Cooldown - MaxDelay
        \/ deadlines[d] = Absent /\ now >= began[d] + Cooldown - MaxDelay

GateInv == GateTypeOK /\ MarkOwned /\ Bounded /\ ReadingsYoung /\ DeadlinesSpaced

\* What a sweep leaves of a dictionary: every entry is as it was or is absent.
LEMMA KeptFacts ==
    ASSUME NEW dl \in [Domain -> Int], NEW t \in Nat
    PROVE  /\ Kept(dl, t) \in [Domain -> Int]
           /\ Held(Kept(dl, t)) \subseteq Held(dl)
           /\ \A d \in Domain : dl[d] = InFlight => Kept(dl, t)[d] = InFlight
           /\ \A d \in Domain : Kept(dl, t)[d] = InFlight => dl[d] = InFlight
           /\ \A d \in Domain :
                \/ Kept(dl, t)[d] = dl[d]
                \/ Kept(dl, t)[d] = Absent /\ dl[d] <= t /\ dl[d] # InFlight
  BY DEF Kept, Held, Absent, InFlight

\* The entries of a dictionary are a finite set.
LEMMA HeldFinite ==
    ASSUME NEW dl \in [Domain -> Int]
    PROVE  IsFiniteSet(Held(dl)) /\ Cardinality(Held(dl)) \in Nat
  <1>1. Held(dl) \subseteq Domain  BY Zenon DEF Held
  <1>2. IsFiniteSet(Held(dl))  BY Zenon, <1>1, GateAssumption, FS_Subset
  <1> QED  BY Zenon, <1>2, FS_CardinalityType

\* A sweep keeps the dictionary within its limit.
LEMMA KeptBounded ==
    ASSUME NEW dl \in [Domain -> Int], NEW t \in Nat,
           Cardinality(Held(dl)) <= Capacity
    PROVE  Cardinality(Held(Kept(dl, t))) <= Capacity
  <1>1. Kept(dl, t) \in [Domain -> Int] /\ Held(Kept(dl, t)) \subseteq Held(dl)
    BY Zenon, KeptFacts
  <1>2. Cardinality(Held(Kept(dl, t))) <= Cardinality(Held(dl))
    BY Zenon, <1>1, HeldFinite, FS_Subset
  <1>3. Cardinality(Held(Kept(dl, t))) \in Nat /\ Cardinality(Held(dl)) \in Nat
    BY Zenon, <1>1, HeldFinite
  <1> QED  BY <1>2, <1>3, GateAssumption

\* Marking a domain adds at most one entry.
LEMMA MarkBounded ==
    ASSUME NEW dl \in [Domain -> Int], NEW d \in Domain, NEW x \in Int,
           Cardinality(Held(dl)) < Capacity
    PROVE  Cardinality(Held([dl EXCEPT ![d] = x])) <= Capacity
  <1> DEFINE new == [dl EXCEPT ![d] = x]
  <1>1. new \in [Domain -> Int]  BY Zenon
  <1>2. Held(new) \subseteq Held(dl) \cup {d}  BY Zenon DEF Held
  <1>3. IsFiniteSet(Held(dl)) /\ Cardinality(Held(dl)) \in Nat  BY Zenon, HeldFinite
  <1>4. /\ IsFiniteSet(Held(dl) \cup {d})
        /\ Cardinality(Held(dl) \cup {d}) <= Cardinality(Held(dl)) + 1
        /\ Cardinality(Held(dl) \cup {d}) \in Nat
    BY <1>3, FS_AddElement, FS_CardinalityType
  <1>5. Cardinality(Held(new)) <= Cardinality(Held(dl) \cup {d})  BY Zenon, <1>2, <1>4, FS_Subset
  <1>6. Cardinality(Held(new)) \in Nat  BY Zenon, <1>1, HeldFinite
  <1> HIDE DEF new
  <1>7. Cardinality(Held(new)) <= Capacity  BY <1>3, <1>4, <1>5, <1>6, GateAssumption
  <1> QED  BY Zenon, <1>7 DEF new

\* The gate starts with an empty dictionary.
LEMMA InitGateInv == GateInit => GateInv
  <1> SUFFICES ASSUME GateInit PROVE GateInv  BY Zenon
  <1> USE GateAssumption DEF GateInit, Absent, InFlight
  <1>1. GateTypeOK  BY DEF GateTypeOK
  <1>2. MarkOwned /\ ReadingsYoung /\ DeadlinesSpaced  BY DEF MarkOwned, ReadingsYoung,
                    DeadlinesSpaced
  <1>3. Held(deadlines) = {}  BY Zenon DEF Held
  <1>4. Bounded  BY <1>3, FS_EmptySet DEF Bounded
  <1> QED  BY Zenon, <1>1, <1>2, <1>4 DEF GateInv

\* Every step keeps the entries owned, bounded and spaced.
LEMMA NextGateInv == GateInv /\ [GateNext]_gateVars => GateInv'
  <1> SUFFICES ASSUME GateInv, [GateNext]_gateVars PROVE GateInv'  BY Zenon
  <1> USE GateAssumption DEF GateInv
  <1>1. ASSUME NEW c \in Thread, NEW d \in Domain, Ask(c, d) PROVE GateInv'
    <2>1. GateTypeOK'  BY <1>1 DEF Ask, GateTypeOK
    <2>2. MarkOwned'  BY Zenon, <1>1 DEF Ask, GateTypeOK, MarkOwned
    <2>3. Bounded'  BY Zenon, <1>1 DEF Ask, Bounded, Held
    <2>4. ReadingsYoung'  BY <1>1 DEF Ask, GateTypeOK, ReadingsYoung
    <2>5. DeadlinesSpaced'  BY Zenon, <1>1 DEF Ask, DeadlinesSpaced
    <2> QED  BY Zenon, <2>1, <2>2, <2>3, <2>4, <2>5
  <1>2. ASSUME NEW c \in Thread, Suppress(c) PROVE GateInv'
    <2> DEFINE new == Kept(deadlines, thread[c].at)
    <2>1. deadlines \in [Domain -> Int] /\ thread[c].at \in Nat  BY Zenon DEF GateTypeOK
    <2>2. /\ new \in [Domain -> Int]
          /\ \A d \in Domain : deadlines[d] = InFlight => new[d] = InFlight
          /\ \A d \in Domain : \/ new[d] = deadlines[d]
                               \/ new[d] = Absent /\ deadlines[d] <= thread[c].at
                                    /\ deadlines[d] # InFlight
      BY Zenon, <2>1, KeptFacts
    <2>3. Cardinality(Held(new)) <= Capacity  BY Zenon, <2>1, KeptBounded DEF Bounded
    <2>4. deadlines' = new  BY Zenon, <1>2 DEF Suppress
    <2> HIDE DEF new
    <2>5. GateTypeOK'  BY ZenonT(60), <1>2, <2>2, <2>4 DEF Suppress, GateTypeOK
    <2>6. MarkOwned'  BY <1>2, <2>2, <2>4 DEF Suppress, GateTypeOK, MarkOwned
    <2>7. Bounded'  BY Zenon, <2>3, <2>4 DEF Bounded
    <2>8. ReadingsYoung'  BY <1>2 DEF Suppress, GateTypeOK, ReadingsYoung
    <2>9. DeadlinesSpaced'
      BY <1>2, <2>2, <2>4 DEF Suppress, GateTypeOK, ReadingsYoung, DeadlinesSpaced, Absent,
         InFlight
    <2> QED  BY Zenon, <2>5, <2>6, <2>7, <2>8, <2>9
  <1>3. ASSUME NEW c \in Thread, StartRefresh(c) PROVE GateInv'
    <2> DEFINE new == Kept(deadlines, thread[c].at)
               dom == thread[c].domain
    <2>1. deadlines \in [Domain -> Int] /\ thread[c].at \in Nat /\ dom \in Domain
      BY Zenon DEF GateTypeOK
    <2>2. /\ new \in [Domain -> Int]
          /\ \A d \in Domain : deadlines[d] = InFlight => new[d] = InFlight
          /\ \A d \in Domain : \/ new[d] = deadlines[d]
                               \/ new[d] = Absent /\ deadlines[d] <= thread[c].at
                                    /\ deadlines[d] # InFlight
      BY Zenon, <2>1, KeptFacts
    <2>3. new[dom] = Absent /\ Cardinality(Held(new)) < Capacity
      BY Zenon, <1>3 DEF StartRefresh, Admits
    <2>4. deadlines' = [new EXCEPT ![dom] = InFlight]  BY Zenon, <1>3 DEF StartRefresh
    <2>5. InFlight \in Int  BY DEF InFlight
    <2>6. Cardinality(Held([new EXCEPT ![dom] = InFlight])) <= Capacity
      BY Zenon, <2>1, <2>2, <2>3, <2>5, MarkBounded
    <2>7. deadlines[dom] # InFlight  BY <2>1, <2>2, <2>3 DEF Absent, InFlight
    <2> HIDE DEF new
    <2>8. GateTypeOK'
      <3>1. deadlines' \in [Domain -> Int]  BY Zenon, <2>2, <2>4, <2>5
      <3>2. began' \in [Domain -> Int] /\ now' \in 0..MaxNow
        BY <1>3, <2>1 DEF StartRefresh, GateTypeOK
      <3>3. thread' \in [Thread -> [pc : {"idle", "asked", "refreshing"},
                                    domain : Domain, at : Nat]]
        BY Zenon, <1>3 DEF StartRefresh, GateTypeOK
      <3> QED  BY Zenon, <3>1, <3>2, <3>3 DEF GateTypeOK
    <2>9. MarkOwned'  BY <1>3, <2>1, <2>2, <2>4, <2>7 DEF StartRefresh, GateTypeOK, MarkOwned
    <2>10. Bounded'  BY Zenon, <2>4, <2>6 DEF Bounded
    <2>11. ReadingsYoung'  BY <1>3, <2>1, <2>7 DEF StartRefresh, GateTypeOK, ReadingsYoung,
                    MarkOwned
    <2>12. DeadlinesSpaced'
      BY <1>3, <2>1, <2>2, <2>4 DEF StartRefresh, GateTypeOK, ReadingsYoung, DeadlinesSpaced,
         Absent, InFlight
    <2> QED  BY Zenon, <2>8, <2>9, <2>10, <2>11, <2>12
  <1>4. ASSUME NEW c \in Thread, FinishRefresh(c) PROVE GateInv'
    <2> DEFINE dom == thread[c].domain
               end == thread[c].at + Cooldown
    <2>1. /\ deadlines \in [Domain -> Int] /\ dom \in Domain /\ thread[c].at \in Nat
          /\ deadlines[dom] = InFlight /\ thread[c].pc = "refreshing"
      BY Zenon, <1>4 DEF GateTypeOK, MarkOwned, FinishRefresh
    <2>2. deadlines' = [deadlines EXCEPT ![dom] = end]  BY Zenon, <1>4 DEF FinishRefresh
    <2>3. end \in Int /\ end > 0  BY <2>1
    <2>4. Held(deadlines') = Held(deadlines)
      BY <2>1, <2>2, <2>3 DEF Held, Absent, InFlight
    <2>5. GateTypeOK'
      <3>1. deadlines' \in [Domain -> Int]  BY Zenon, <2>1, <2>2, <2>3
      <3>2. began' \in [Domain -> Int] /\ now' \in 0..MaxNow
        BY Zenon, <1>4 DEF FinishRefresh, GateTypeOK
      <3>3. thread' \in [Thread -> [pc : {"idle", "asked", "refreshing"},
                                    domain : Domain, at : Nat]]
        BY Zenon, <1>4 DEF FinishRefresh, GateTypeOK
      <3> QED  BY Zenon, <3>1, <3>2, <3>3 DEF GateTypeOK
    <2>6. MarkOwned'  BY <1>4, <2>1, <2>2 DEF FinishRefresh, GateTypeOK, MarkOwned
    <2>7. Bounded'  BY Zenon, <2>4 DEF Bounded
    <2>8. ReadingsYoung'  BY <1>4 DEF FinishRefresh, GateTypeOK, ReadingsYoung
    <2>9. DeadlinesSpaced'  BY Zenon, <1>4, <2>1, <2>2, <2>3 DEF FinishRefresh, GateTypeOK,
                    ReadingsYoung, DeadlinesSpaced
    <2> QED  BY Zenon, <2>5, <2>6, <2>7, <2>8, <2>9
  <1>5. CASE Tick
    <2>1. GateTypeOK'  BY <1>5 DEF Tick, GateTypeOK
    <2>2. MarkOwned'  BY Zenon, <1>5 DEF Tick, MarkOwned
    <2>3. Bounded'  BY Zenon, <1>5 DEF Tick, Bounded, Held
    <2>4. ReadingsYoung'  BY <1>5 DEF Tick, GateTypeOK, ReadingsYoung
    <2>5. DeadlinesSpaced'  BY <1>5 DEF Tick, GateTypeOK, DeadlinesSpaced
    <2> QED  BY Zenon, <2>1, <2>2, <2>3, <2>4, <2>5
  <1>6. CASE UNCHANGED gateVars
    BY Zenon, <1>6 DEF gateVars, GateTypeOK, MarkOwned, Bounded, Held, ReadingsYoung,
       DeadlinesSpaced
  <1> QED  BY Zenon, <1>1, <1>2, <1>3, <1>4, <1>5, <1>6 DEF GateNext

\* A domain is never refreshed by two threads at once.
THEOREM OnlyOneRefresh == GateSpec => []OneInFlight
  <1>1. GateInv => OneInFlight  BY Zenon DEF GateInv, MarkOwned, OneInFlight
  <1> QED  BY InitGateInv, NextGateInv, <1>1, PTL DEF GateSpec

\* The dictionary of deadlines never outgrows its limit.
THEOREM DictionaryBounded == GateSpec => []Bounded
  <1>1. GateInv => Bounded  BY Zenon DEF GateInv
  <1> QED  BY InitGateInv, NextGateInv, <1>1, PTL DEF GateSpec

\* Refreshes of a domain begin a cooldown apart, less the age a clock reading may
\* have under the lock.
THEOREM RefreshesSpaced == GateSpec => SpacedWithin
  <1>1. ASSUME GateInv, [GateNext]_gateVars
        PROVE  \A c \in Thread : Starts(c) =>
                    now - began[thread[c].domain] >= Cooldown - MaxDelay
    <2> USE GateAssumption DEF GateInv
    <2> SUFFICES ASSUME NEW c \in Thread, Starts(c)
                 PROVE  now - began[thread[c].domain] >= Cooldown - MaxDelay
      BY Zenon
    <2>1. StartRefresh(c)
      <3>1. thread'[c] # thread[c] /\ thread[c].pc = "asked"
            /\ thread'[c].pc = "refreshing"
        BY Zenon DEF Starts
      <3>2. GateNext  BY Zenon, <1>1, <3>1 DEF gateVars
      <3>3. ASSUME NEW e \in Thread, NEW d \in Domain, Ask(e, d) PROVE FALSE
        BY Zenon, <1>1, <3>1, <3>3 DEF Ask, GateTypeOK
      <3>4. ASSUME NEW e \in Thread, Suppress(e) \/ FinishRefresh(e) PROVE FALSE
        BY Zenon, <1>1, <3>1, <3>4 DEF Suppress, FinishRefresh, GateTypeOK
      <3>5. ASSUME NEW e \in Thread, StartRefresh(e) PROVE e = c
        BY Zenon, <1>1, <3>1, <3>5 DEF StartRefresh, GateTypeOK
      <3>6. ~Tick  BY Zenon, <3>1 DEF Tick
      <3> QED  BY Zenon, <3>2, <3>3, <3>4, <3>5, <3>6 DEF GateNext
    <2> DEFINE new == Kept(deadlines, thread[c].at)
               dom == thread[c].domain
    <2>2. deadlines \in [Domain -> Int] /\ thread[c].at \in Nat /\ dom \in Domain
          /\ now \in Nat /\ began[dom] \in Int /\ thread[c].at <= now
      BY <1>1 DEF GateTypeOK, ReadingsYoung
    <2>3. \/ new[dom] = deadlines[dom]
          \/ new[dom] = Absent /\ deadlines[dom] <= thread[c].at /\ deadlines[dom] # InFlight
      BY <2>2, KeptFacts
    <2>4. new[dom] = Absent  BY Zenon, <2>1 DEF StartRefresh, Admits
    <2> HIDE DEF new
    <2>5. deadlines[dom] # InFlight /\ deadlines[dom] <= now
      BY <2>2, <2>3, <2>4 DEF Absent, InFlight
    <2>6. now >= began[dom] + Cooldown - MaxDelay
      BY <1>1, <2>2, <2>5 DEF DeadlinesSpaced
    <2> QED  BY <2>2, <2>6
  <1> QED  BY <1>1, InitGateInv, NextGateInv, PTL DEF GateSpec, SpacedWithin

\* The gate lets through one refresh of a domain at a time, a cooldown apart, and
\* remembers no more domains than it may.
THEOREM GateHolds == GateSpec => RefreshesGated
  BY OnlyOneRefresh, DictionaryBounded, RefreshesSpaced, PTL DEF RefreshesGated

=============================================================================
