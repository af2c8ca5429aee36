------------------------------- MODULE DomainLog -------------------------------
(***************************************************************************)
(* What is derived from a verified history (dnsid/models.py, DomainLog)    *)
(* and the checks the log reader makes on it (dnsid/c2sp_tlog/reader.py).  *)
(* A history is a sequence of events with fields type, key (the entity key *)
(* of an ISSUANCE, the previous key of a KEY_ROTATION), new (the new       *)
(* operational key of either) and time.                                    *)
(***************************************************************************)
EXTENDS Naturals, Sequences, FiniteSetsExt

\* The accumulator of snapshot_at: "" before an ISSUANCE, "error" once a
\* check has failed.
NoState == [state |-> "", entity |-> "", active |-> "", past |-> "no",
            taken |-> 0]

Failed(acc) == [acc EXCEPT !.state = "error"]

\* One iteration of snapshot_at.  An event later than the boundary is passed
\* over; one at or before the boundary must not follow such an event.
SnapshotStep(acc, e, at) ==
    IF acc.state = "error" THEN acc
    ELSE IF e.time > at THEN [acc EXCEPT !.past = "yes"]
    ELSE IF \/ acc.past = "yes"
            \/ acc.state = "" /\ e.type # "ISSUANCE"
            \/ acc.state \in {"REVOKED", "RETIRED"} THEN Failed(acc)
    ELSE CASE e.type = "ISSUANCE" ->
           IF acc.state # "" \/ e.key = e.new THEN Failed(acc)
           ELSE [acc EXCEPT !.state = "ACTIVE", !.entity = e.key,
                            !.active = e.new, !.taken = @ + 1]
      [] e.type = "KEY_ROTATION" ->
           IF e.key # acc.active \/ e.new \in {acc.active, acc.entity}
           THEN Failed(acc)
           ELSE [acc EXCEPT !.active = e.new, !.taken = @ + 1]
      [] e.type = "REVOCATION" -> [acc EXCEPT !.state = "REVOKED", !.taken = @ + 1]
      [] e.type = "RETIREMENT" -> [acc EXCEPT !.state = "RETIRED", !.taken = @ + 1]
      [] OTHER -> [acc EXCEPT !.taken = @ + 1]

\* snapshot_at: the state at time at, "error" if no lifecycle prefix ends there.
SnapshotAt(events, at) ==
    LET acc[n \in 0..Len(events)] ==
            IF n = 0 THEN NoState ELSE SnapshotStep(acc[n - 1], events[n], at)
        end == acc[Len(events)]
    IN  IF end.state = "" THEN Failed(end) ELSE end

LatestTime(events) == Max({events[i].time : i \in DOMAIN events})

Issuances(events) == {i \in DOMAIN events : events[i].type = "ISSUANCE"}

\* The operational keys a history has ever bound to the identity.
RecordedKeys(events) ==
    {events[i].new : i \in {j \in DOMAIN events :
                            events[j].type \in {"ISSUANCE", "KEY_ROTATION"}}}

\* _bilateral_binding: a record's anchors are those of the history.
BilateralBinding(events, ek, ku) ==
    /\ SnapshotAt(events, LatestTime(events)).state = "ACTIVE"
    /\ Issuances(events) # {}
    /\ events[Min(Issuances(events))].key = ek
    /\ ku \in RecordedKeys(events)

\* The first operational key, which the binding check reports.
InitialKey(events) == events[Min(Issuances(events))].new

\* _operational_continuity: from the initial key to the record's.
OperationalContinuity(events, initial, ku) ==
    LET snap == SnapshotAt(events, LatestTime(events))
    IN  /\ Issuances(events) # {} /\ InitialKey(events) = initial
        /\ snap.state = "ACTIVE" /\ snap.active = ku

\* _non_revocation: not terminal at or before time at.
NonRevocation(events, at) ==
    SnapshotAt(events, at).state \notin {"REVOKED", "RETIRED", "error"}

Bindings(events, k) ==
    {i \in DOMAIN events :
        events[i].type \in {"ISSUANCE", "KEY_ROTATION"} /\ events[i].new = k}

\* Mutant: the time of the latest rotation to the key.
KeyTimestampLatest(events, k) == events[Max(Bindings(events, k))].time

\* key_timestamp: when a key was first bound to the identity.
KeyTimestamp(events, k) == events[Min(Bindings(events, k))].time

===============================================================================
