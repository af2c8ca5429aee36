-------------------------------- MODULE KeyFile --------------------------------
(***************************************************************************)
(* LocalKeyProvider (dnsid/local_key_provider.py): processes that keep     *)
(* their keys in one JSON file.  Each holds an in-memory snapshot it signs *)
(* from; a mutation takes the lock on the sidecar, reloads the file,       *)
(* changes a copy, and replaces the file atomically.  Steps of different   *)
(* processes interleave; a process can die between any two steps, and the  *)
(* machine can lose power, which undoes a replacement whose directory      *)
(* entry was not yet synced.                                               *)
(***************************************************************************)
EXTENDS Naturals, FiniteSets

CONSTANTS
    Proc,
    Key,         \* keys that can be generated
    Old,         \* the key of a store in the old flat format
    InitialFile, \* what the file may hold at first: "absent", "flat", "store"
    MaxCrashes   \* bound: deaths and power losses

ASSUME KeyFileAssumption ==
    /\ Old \notin Key
    /\ "none" \notin Key \cup {Old} /\ "free" \notin Proc

VARIABLES
    file,      \* what a reader of the file gets
    durable,   \* what is left of the file after a power loss
    lock,      \* holder of the sidecar lock
    snap,      \* process -> its snapshot, or NoStore before load
    job,       \* process -> the operation it is in
    promised,  \* keys reported by calls that wrote the file without an error
    removed,   \* keys superseded
    stored,    \* keys that were in the file at some time
    crashes

vars == <<file, durable, lock, snap, job, promised, removed, stored, crashes>>

Free == "free"
None == "none"
Store(active, retained, pending) ==
    [kind |-> "store", active |-> active, retained |-> retained, pending |-> pending]
NoStore == [kind |-> "absent", active |-> None, retained |-> {}, pending |-> {}]
Flat == [kind |-> "flat", active |-> Old, retained |-> {}, pending |-> {}]

KeysOf(s) == ({s.active} \ {None}) \cup s.retained \cup s.pending

Idle == [op |-> "idle", kid |-> None, at |-> "idle", store |-> NoStore]

Init ==
    /\ file \in {IF i = "absent" THEN NoStore ELSE IF i = "flat" THEN Flat ELSE Store(Old, {}, {}) :
                   i \in InitialFile}
    /\ durable = file /\ lock = Free
    /\ snap = [p \in Proc |-> NoStore] /\ job = [p \in Proc |-> Idle]
    /\ promised = {} /\ removed = {} /\ stored = KeysOf(file) /\ crashes = 0

\* Keys a process may generate; the last is left for creating a lost file again.
Fresh ==
    Key \ (stored \cup {job[q].kid : q \in Proc} \cup UNION {KeysOf(job[q].store) : q \in Proc})

Step(p, at) == job' = [job EXCEPT ![p].at = at]

-----------------------------------------------------------------------------
(* load                                                                    *)

\* A complete store is loaded without the lock.
LoadFast(p) ==
    /\ job[p] = Idle /\ snap[p] = NoStore
    /\ file.kind = "store"
    /\ snap' = [snap EXCEPT ![p] = file]
    /\ UNCHANGED <<file, durable, lock, job, promised, removed, stored, crashes>>

\* An absent or old store is created or migrated under the lock.
LoadSlow(p) ==
    /\ job[p] = Idle /\ snap[p] = NoStore
    /\ file.kind # "store"
    /\ job' = [job EXCEPT ![p] = [Idle EXCEPT !.op = "load", !.at = "lock"]]
    /\ UNCHANGED <<file, durable, lock, snap, promised, removed, stored, crashes>>

\* Mutant: a store in the old format is replaced like a missing one.
ReReadNot(p, k) == IF file.kind = "store" THEN file ELSE Store(k, {}, {})

\* Under the lock the file is read again.
ReRead(p, k) ==
    CASE file.kind = "absent" -> Store(k, {}, {})
      [] file.kind = "flat" -> Store(Old, {}, {})
      [] file.kind = "store" -> file

LoadLocked(p, k) ==
    /\ job[p].op = "load" /\ job[p].at = "locked"
    /\ LET s == ReRead(p, k)
       IN  IF s = file THEN Step(p, "found")
           ELSE job' = [job EXCEPT ![p].at = "write", ![p].store = s]
    /\ UNCHANGED <<file, durable, lock, snap, promised, removed, stored, crashes>>

-----------------------------------------------------------------------------
(* generate_key, activate, supersede                                       *)

Begin(p, op, kid) ==
    /\ job[p] = Idle /\ snap[p] # NoStore
    /\ job' = [job EXCEPT ![p] = [Idle EXCEPT !.op = op, !.kid = kid, !.at = "lock"]]
    /\ UNCHANGED <<file, durable, lock, snap, promised, removed, stored, crashes>>

Acquire(p) ==
    /\ job[p].at = "lock" /\ lock = Free
    /\ lock' = p /\ Step(p, "locked")
    /\ UNCHANGED <<file, durable, snap, promised, removed, stored, crashes>>

\* Mutant: a mutation starts from the snapshot.
ReloadedStale(p) == snap[p]

\* The store a mutation starts from: the file, read under the lock.
Reloaded(p) == file

\* The changed copy of the store, or the store itself where the call raises.
Mutated(s, op, kid) ==
    CASE op = "generate_key" /\ s.active # None -> [s EXCEPT !.pending = @ \cup {kid}]
      [] op = "activate" /\ kid \in s.pending ->
           Store(kid, s.retained \cup ({s.active} \ {None}), s.pending \ {kid})
      [] op = "supersede_active" /\ kid = s.active -> [s EXCEPT !.active = None]
      [] op \in {"supersede", "supersede_active"} /\ kid \in s.retained ->
           [s EXCEPT !.retained = @ \ {kid}]
      [] OTHER -> s

Mutate(p) ==
    /\ job[p].op \notin {"idle", "load"} /\ job[p].at = "locked"
    /\ LET s == Mutated(Reloaded(p), job[p].op, job[p].kid)
       IN  /\ snap' = [snap EXCEPT ![p] = Reloaded(p)]
           /\ IF s = Reloaded(p) THEN Step(p, "unlock")
              ELSE job' = [job EXCEPT ![p].at = "write", ![p].store = s]
    /\ UNCHANGED <<file, durable, lock, promised, removed, stored, crashes>>

\* _write_key_store: the temporary file is complete and synced when it replaces
\* the store; writing it may fail, which leaves the store alone.
Replace(p) ==
    /\ job[p].at = "write"
    /\ file' = job[p].store
    /\ stored' = stored \cup KeysOf(job[p].store)
    /\ removed' = IF job[p].op \in {"supersede", "supersede_active"} THEN removed \cup {job[p].kid}
                  ELSE removed
    /\ Step(p, "sync")
    /\ UNCHANGED <<durable, lock, snap, promised, crashes>>

WriteFails(p) ==
    /\ job[p].at = "write"
    /\ Step(p, "failed")
    /\ UNCHANGED <<file, durable, lock, snap, promised, removed, stored, crashes>>

Sync(p) ==
    /\ job[p].at = "sync"
    /\ durable' = file /\ Step(p, "done")
    /\ UNCHANGED <<file, lock, snap, promised, removed, stored, crashes>>

SyncFails(p) ==
    /\ job[p].at = "sync"
    /\ Step(p, "failed")
    /\ UNCHANGED <<file, durable, lock, snap, promised, removed, stored, crashes>>

\* The snapshot is what the file holds, also after a failure; load then fails.
Finish(p) ==
    /\ job[p].at \in {"found", "done", "failed"}
    /\ snap' = [snap EXCEPT ![p] = IF job[p].op = "load" /\ job[p].at = "failed" THEN NoStore
                                   ELSE file]
    /\ promised' = IF job[p].at = "done" THEN promised \cup KeysOf(file) ELSE promised
    /\ Step(p, "unlock")
    /\ UNCHANGED <<file, durable, lock, removed, stored, crashes>>

Unlock(p) ==
    /\ job[p].at = "unlock"
    /\ lock' = Free /\ job' = [job EXCEPT ![p] = Idle]
    /\ UNCHANGED <<file, durable, snap, promised, removed, stored, crashes>>

-----------------------------------------------------------------------------
(* A process dies, and its lock is free; the machine loses power.          *)

Dies(p) ==
    /\ crashes < MaxCrashes /\ crashes' = crashes + 1
    /\ job' = [job EXCEPT ![p] = Idle] /\ snap' = [snap EXCEPT ![p] = NoStore]
    /\ lock' = IF lock = p THEN Free ELSE lock
    /\ UNCHANGED <<file, durable, promised, removed, stored>>

PowerLoss ==
    /\ crashes < MaxCrashes /\ crashes' = crashes + 1
    /\ file' \in {file, durable} /\ durable' = file'
    /\ removed' = removed \ KeysOf(file')
    /\ job' = [p \in Proc |-> Idle] /\ snap' = [p \in Proc |-> NoStore] /\ lock' = Free
    /\ UNCHANGED <<promised, stored>>

Work(p) ==
    \/ Acquire(p) \/ Mutate(p) \/ Replace(p) \/ WriteFails(p) \/ Sync(p) \/ SyncFails(p)
    \/ Finish(p) \/ Unlock(p)
    \/ \E k \in IF file.kind = "store" THEN {Old} ELSE Fresh : LoadLocked(p, k)

\* A fresh key for generate_key; the others take any key of the snapshot.
Call(p) ==
    \/ LoadFast(p) \/ LoadSlow(p)
    \/ Cardinality(Fresh) > 1 /\ \E k \in Fresh : Begin(p, "generate_key", k)
    \/ \E k \in KeysOf(snap[p]), op \in {"activate", "supersede", "supersede_active"} :
         Begin(p, op, k)

Next == \/ \E p \in Proc : Work(p) \/ Call(p) \/ Dies(p)
        \/ PowerLoss

Spec == Init /\ [][Next]_vars

-----------------------------------------------------------------------------

TypeOK ==
    /\ file.kind \in {"absent", "flat", "store"} /\ durable.kind \in {"absent", "flat", "store"}
    /\ lock \in Proc \cup {Free}
    /\ \A p \in Proc : job[p].at \in {"idle", "lock", "locked", "write", "sync", "found", "done",
                                     "failed", "unlock"}
    /\ file.active \notin file.retained \cup file.pending /\ file.retained \cap file.pending = {}

\* A key that a call without an error has reported stays in the file until it is superseded,
\* whatever other processes write, wherever they die, and if the power goes
\* ("another provider may have advanced the store", _mutate, _write_key_store).
ReportedKeysAreKept == promised \subseteq KeysOf(file) \cup removed

\* The key of a store in the old format is never lost: "without truncating the
\* only copy of the old key".
OldKeyIsKept == Old \in stored => Old \in KeysOf(file) \cup removed

\* No provider signs with, or publishes, a key that was never in the file.
NoPhantomKey == \A p \in Proc : KeysOf(snap[p]) \subseteq stored

\* Whatever processes share the file, fail, die or lose power, no reported key and
\* no key in the old format is lost, and none appears that was never stored
\* (_mutate, _write_key_store).
KeysKept == ReportedKeysAreKept /\ OldKeyIsKept /\ NoPhantomKey

\* Only the holder of the lock is between its reload and its unlock.
Exclusive ==
    \A p \in Proc : job[p].at \in {"locked", "write", "sync", "found", "done", "failed",
                               "unlock"} => lock = p

\* The file, and what of it is durable, behave as every provider promises:
\* migration changes no role, and a power loss goes back to what was synced.
RingOf(s) == [active |-> s.active, retained |-> s.retained, pending |-> s.pending]
KR == INSTANCE KeyRing WITH Kid <- Key \cup {Old}, ring <- RingOf(file), saved <- RingOf(durable)
RefinesKeyRing == KR!Spec

===============================================================================
