----------------------------- MODULE LogMigration -----------------------------
(***************************************************************************)
(* Rebuilding a lifecycle history that spans several logs                  *)
(* (dnsid/c2sp_tlog/reader.py).  A stream that begins with a MIGRATION     *)
(* names the log it continues and the last entry that counts there; the    *)
(* reader follows these references backwards, under one budget of depth,   *)
(* events and bytes and a set of logs already seen, and puts the histories *)
(* together on the way back.  The call stack of the readers is the         *)
(* variable stack.  A predecessor in another log method is read by a       *)
(* reader this code does not control.                                      *)
(*                                                                         *)
(* The replay of one stream is the subject of StreamLifecycle; an event    *)
(* here is only what following a migration looks at.                       *)
(***************************************************************************)
EXTENDS Naturals, Sequences, FiniteSets

CONSTANTS
    Log,        \* log references
    RecordLog,  \* the log of the record
    Streams,    \* what the logs may hold
    MaxDepth, MaxEvents, MaxBytes \* C2spMigrationVerificationLimits

\* A stream begins with an ISSUANCE, or with a MIGRATION that names the log it
\* continues, the index of the last entry that counts there and the log it leads to.
First == [type : {"ISSUANCE"}, entity : {"trusted", "other"}]
         \cup [type : {"MIGRATION"}, prev : Log, cut : Nat, new : Log]
Later == [type : {"ROTATION", "REVOCATION"}]

\* What the constants must be.
MigrationAssumption ==
    /\ RecordLog \in Log
    /\ {MaxDepth, MaxEvents, MaxBytes} \subseteq Nat \ {0}
    /\ \A s \in Streams, l \in Log :
          /\ s[l] \in Seq(First \cup Later) /\ s[l] # <<>>
          /\ \A i \in DOMAIN s[l] : s[l][i] \in IF i = 1 THEN First ELSE Later

VARIABLES
    chainPlan,  \* sets of logs that other readers may serve (externals), and the entry
                \* indices to rebuild through, 0 for the whole stream (cutoffs): given
    stream,     \* the events of each log
    external,   \* the logs that another reader serves
    stack,      \* the readers' calls, the innermost last
    budget,     \* _MigrationBudget
    prior,      \* the history that the last call to return rebuilt
    answer      \* of the outermost call

\* What a plan must be.
IsChainPlan(p) == p.externals \subseteq SUBSET Log /\ p.cutoffs \subseteq Nat

migrationVars == <<chainPlan, stream, external, stack, budget, prior, answer>>

Frame(l, cut, depth) == [log |-> l, cut |-> cut, depth |-> depth, phase |-> "load"]

\* An event with its place in the logs.
Placed(l, i) == [log |-> l, index |-> i, event |-> stream[l][i]]

Through(l, n) == [i \in 1..n |-> Placed(l, i)]

ChainInit ==
    /\ stream \in Streams
    /\ external \in chainPlan.externals
    /\ \E cut \in chainPlan.cutoffs :
          /\ stack = <<Frame(RecordLog, cut, 0)>>
          /\ budget = [seen |-> {RecordLog}, events |-> 0, bytes |-> 0,
                       active |-> cut > 0]
    /\ prior = <<>>
    /\ answer = "none"

Top == stack[Len(stack)]

Pop == SubSeq(stack, 1, Len(stack) - 1)

Phase(p) == [stack EXCEPT ![Len(stack)].phase = p]

\* _enforce: nothing is bounded before the first migration.
Within(b) == b.active => b.events <= MaxEvents /\ b.bytes <= MaxBytes

Reject ==
    /\ answer' = "rejected" /\ stack' = <<>>
    /\ UNCHANGED <<stream, external, budget, prior>>

-----------------------------------------------------------------------------

\* The stream is fetched, and its size counted.
Load ==
    /\ answer = "none" /\ Top.phase = "load"
    /\ LET spent == [budget EXCEPT !.bytes = @ + Len(stream[Top.log])]
       IN  IF Within(spent)
           THEN /\ budget' = spent /\ stack' = Phase("replay")
                /\ UNCHANGED <<stream, external, prior, answer>>
           ELSE Reject

Migration == stream[Top.log][1]

\* _prior_cutoff: the reference names an entry of the predecessor, exactly
\* (index 0 stands for a reference that does not).
ExactCutoff(m) == m.cut > 0

\* _prior_reader: may the migration be followed?
PriorReadable(b) ==
    /\ Within(b)
    /\ Migration.new = Top.log
    /\ Top.depth < MaxDepth
    /\ Migration.prev \notin b.seen
    /\ ExactCutoff(Migration)

\* The predecessor is a log of this method: a nested call.
FollowPrior ==
    /\ answer = "none" /\ Top.phase = "replay" /\ Migration.type = "MIGRATION"
    /\ Migration.prev \notin external
    /\ LET active == [budget EXCEPT !.active = TRUE]
       IN  IF PriorReadable(active)
           THEN /\ budget' = [active EXCEPT !.seen = @ \cup {Migration.prev}]
                /\ stack' = Append(Phase("prior"),
                              Frame(Migration.prev, Migration.cut, Top.depth + 1))
                /\ UNCHANGED <<stream, external, prior, answer>>
           ELSE Reject

Migrations(h) == SelectSeq(h, LAMBDA e : e.event.type = "MIGRATION")

\* Mutant: the last handoff may lead anywhere.
HandoffAnywhere(h, seen) ==
    LET ms == Migrations(h)
        logs == [i \in 1..Len(ms) + 1 |->
                    IF i = 1 THEN ms[1].event.prev ELSE ms[i - 1].event.new]
    IN  ms # <<>> =>
        /\ \A i \in 2..Len(ms) : ms[i].event.prev = ms[i - 1].event.new
        /\ \A i, j \in 1..Len(logs) : i # j => logs[i] # logs[j]

\* _validate_predecessor_history: the logs named by the migrations of h form
\* one handoff after the other into the predecessor, through no log twice.
Handoff(h, seen) ==
    LET ms == Migrations(h)
        logs == [i \in 1..Len(ms) + 1 |->
                    IF i = 1 THEN ms[1].event.prev ELSE ms[i - 1].event.new]
    IN  ms # <<>> =>
        /\ \A i \in 2..Len(ms) : ms[i].event.prev = ms[i - 1].event.new
        /\ \A i \in 1..Len(logs) : logs[i] \notin seen
        /\ \A i, j \in 1..Len(logs) : i # j => logs[i] # logs[j]
        /\ logs[Len(logs)] = Migration.prev

ValidPredecessor(h, bytes, b) ==
    /\ h # <<>> /\ Len(h) <= MaxEvents - b.events /\ bytes <= MaxBytes - b.bytes
    /\ h[Len(h)].log = Migration.prev /\ h[Len(h)].index = Migration.cut
    /\ Top.depth + 1 + Len(Migrations(h)) <= MaxDepth
    /\ Handoff(h, b.seen)

\* What the logs say about the entries up to cut of l, following at most n
\* migrations and checking nothing.
Walk(l, cut, n) ==
    LET here(x, c) == Through(x, IF c <= Len(stream[x]) THEN c ELSE Len(stream[x]))
        walk[k \in 0..n] ==
            [x \in Log, c \in Nat |->
                LET m == stream[x][1]
                IN  IF k = 0 \/ m.type # "MIGRATION" THEN here(x, c)
                    ELSE walk[k - 1][m.prev, m.cut] \o here(x, c)]
    IN  walk[n][l, cut]

\* _prior_result: the prior history is of a living identity, issued under
\* the trusted entity key.
ActiveUnderTrust(h) ==
    /\ \A i \in DOMAIN h : h[i].event.type # "REVOCATION"
    /\ \E i \in DOMAIN h :
          /\ h[i].event.type = "ISSUANCE" /\ h[i].event.entity = "trusted"
          /\ \A j \in 1..i - 1 : h[j].event.type # "ISSUANCE"

\* The predecessor is read by another reader, which answers with any walk.
AskOther ==
    /\ answer = "none" /\ Top.phase = "replay" /\ Migration.type = "MIGRATION"
    /\ Migration.prev \in external
    /\ \E n \in 0..MaxDepth + 1 :
          LET h == Walk(Migration.prev, Migration.cut, n)
              active == [budget EXCEPT !.active = TRUE]
              spent == [active EXCEPT !.bytes = @ + Len(h), !.events = @ + Len(h),
                           !.seen = @ \cup {Migration.prev}
                                      \cup {h[i].log : i \in DOMAIN h}]
          IN  IF /\ PriorReadable(active)
                 /\ ValidPredecessor(h, Len(h), active)
                 /\ ActiveUnderTrust(h)
              THEN /\ budget' = spent /\ prior' = h /\ stack' = Phase("stitch")
                   /\ UNCHANGED <<stream, external, answer>>
              ELSE Reject

\* _stitch_migration_history: the migration in hand is not part of the past.
Stitchable(h) == \A i \in DOMAIN h : h[i].event # Migration

\* _assert_cutoff: the stream reaches the cutoff.
Reached(l, cut) == cut <= Len(stream[l])

\* The replay of a stream refuses an issuance under another entity key.
Trusted(e) == e.type = "ISSUANCE" => e.entity = "trusted"

\* The replay of a stream ends: its events are counted, the prior history
\* is put in front, and a nested call hands it to its caller.
Finish ==
    /\ answer = "none"
    /\ \/ Top.phase = "replay" /\ Migration.type # "MIGRATION"
       \/ Top.phase = "stitch"
    /\ LET n == IF Top.cut > 0 THEN Top.cut ELSE Len(stream[Top.log])
           spent == [budget EXCEPT !.events = @ + n]
           h == prior \o Through(Top.log, n)
       IN  IF \/ ~Trusted(Migration) \/ ~Reached(Top.log, Top.cut)
              \/ ~Within(spent) \/ ~Stitchable(prior)
           THEN Reject
           ELSE IF Len(stack) = 1
           THEN /\ answer' = "accepted" /\ prior' = h /\ stack' = <<>> /\ budget' = spent
                /\ UNCHANGED <<stream, external>>
           ELSE IF ActiveUnderTrust(h)
           THEN /\ prior' = h /\ budget' = spent
                /\ stack' = [Pop EXCEPT ![Len(stack) - 1].phase = "stitch"]
                /\ UNCHANGED <<stream, external, answer>>
           ELSE Reject

ChainNext == (Load \/ FollowPrior \/ AskOther \/ Finish) /\ UNCHANGED chainPlan

ChainSpec == ChainInit /\ [][ChainNext]_migrationVars

-----------------------------------------------------------------------------

Accepted == answer = "accepted"

ChainTypeOK ==
    /\ external \subseteq Log
    /\ \A i \in DOMAIN stack :
          /\ stack[i].log \in Log /\ stack[i].depth = i - 1
          /\ stack[i].phase \in {"load", "replay", "prior", "stitch"}
    /\ budget.seen \subseteq Log /\ {budget.events, budget.bytes} \subseteq Nat
    /\ answer \in {"none", "rejected", "accepted"}

\* Read by this reader alone, an accepted history is one chain: it begins with
\* the identity's issuance and ends in the stream of the record; each log's
\* part is a prefix of its stream and ends exactly at the entry that the next
\* migration signs as the cutoff; no log is in it twice; the identity was
\* alive at every handoff (_verify_prior_history, _stitch_migration_history).
AcceptedIsChain ==
    Accepted /\ external = {} =>
        /\ \A i \in DOMAIN prior : prior[i].event = stream[prior[i].log][prior[i].index]
        /\ prior[1].event = [type |-> "ISSUANCE", entity |-> "trusted"]
        /\ \A i \in 2..Len(prior) :
              \/ /\ prior[i].log = prior[i - 1].log
                 /\ prior[i].index = prior[i - 1].index + 1
              \/ /\ prior[i].event.type = "MIGRATION" /\ prior[i].index = 1
                 /\ prior[i].event.prev = prior[i - 1].log
                 /\ prior[i].event.cut = prior[i - 1].index
                 /\ prior[i].event.new = prior[i].log
                 /\ \A j \in 1..i - 1 : prior[j].event.type # "REVOCATION"
                 /\ \A j \in 1..i - 1 : prior[j].log # prior[i].log
        /\ prior[Len(prior)].log = RecordLog

\* Also when other readers supply part of it, the migrations of an accepted
\* history lead from one log to the next, through no log twice, into the
\* stream of the record, and the identity they hand over is alive
\* (_validate_predecessor_history).
AcceptedHandsOver ==
    LET ms == Migrations(prior)
    IN  Accepted /\ ms # <<>> =>
            /\ \A i \in 1..Len(ms) :
                  ms[i].event.new = IF i < Len(ms) THEN ms[i + 1].event.prev ELSE RecordLog
            /\ \A i, j \in 1..Len(ms) :
                  /\ ms[i].event.prev # RecordLog
                  /\ i # j => ms[i].event.prev # ms[j].event.prev
            /\ \A n \in DOMAIN prior : prior[n] = ms[Len(ms)] =>
                  \A i \in 1..n - 1 : prior[i].event.type # "REVOCATION"

\* However the chain is split between this reader and others, it stays
\* within the configured depth, events and bytes (_MigrationBudget,
\* _validate_predecessor_history).
WithinLimits ==
    Accepted /\ Migrations(prior) # <<>> =>
        /\ Len(Migrations(prior)) <= MaxDepth
        /\ Len(prior) <= MaxEvents
        /\ budget.events = Len(prior) /\ budget.bytes <= MaxBytes

\* The chain the logs hold, if it has at most MaxDepth migrations.
TrueChain(cut) == Walk(RecordLog, IF cut > 0 THEN cut ELSE Len(stream[RecordLog]), MaxDepth)

\* The bytes of all its streams, whole.
ChainBytes(h) ==
    LET size[l \in SUBSET Log] ==
            IF l = {} THEN 0
            ELSE LET x == CHOOSE x \in l : TRUE IN Len(stream[x]) + size[l \ {x}]
    IN  size[{h[i].log : i \in DOMAIN h}]

ValidChain(h) ==
    /\ h[1].event.type = "ISSUANCE" /\ h[1].event.entity = "trusted"
    /\ Len(Migrations(h)) = Cardinality({h[i].log : i \in DOMAIN h}) - 1
    /\ \A i \in 2..Len(h) : h[i].event.type = "MIGRATION" =>
          /\ h[i].event.new = h[i].log /\ h[i].event.cut = h[i - 1].index
          /\ ActiveUnderTrust(SubSeq(h, 1, i - 1))
    /\ Migrations(h) # <<>> => Len(h) <= MaxEvents /\ ChainBytes(h) <= MaxBytes

\* Read by this reader alone, every valid chain within the limits is
\* accepted: no limit is spent twice (_MigrationBudget is shared by the
\* nested calls).
ValidChainAccepted ==
    answer = "rejected" /\ external = {} /\ chainPlan.cutoffs = {0} => ~ValidChain(TrueChain(0))

===============================================================================
