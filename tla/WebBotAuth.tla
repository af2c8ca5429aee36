---------------------------- MODULE WebBotAuth ----------------------------
(***************************************************************************)
(* Web Bot Auth between an agent and a verifier: the agent signs requests  *)
(* and serves its signed key directory (src/dnsid/wba_signer.py), the      *)
(* verifier checks a request against the directory it fetches and against  *)
(* the DNSid identity of the signer (src/dnsid/wba_verifier.py), while the *)
(* agent's key rotates and time passes between the steps.                  *)
(*                                                                         *)
(* Keys are numbered in the order they become active.  A request is its    *)
(* own nonce.  The signer's clock is `ahead` of the verifier's, which is   *)
(* `now`.  The gate of the forced refresh is the one of RefreshCooldown,   *)
(* for the one domain here.                                                *)
(***************************************************************************)
EXTENDS Integers, FiniteSets

CONSTANTS Req, Call,
          Ttl,           \* request signature lifetime
          DirTtl,        \* directory signature lifetime
          Backdate,      \* the 5 seconds a directory signature is backdated
          MaxLifetime,   \* the 300 seconds a signature may live
          Skew,          \* config.clock_skew
          Late,          \* how long ago an EXPIRED signature ended (60 seconds)
          DnsTtl,        \* how long the resolver may answer from its cache
          Cool,          \* refresh cooldown
          Variants,      \* the signing variants exercised
          Policies,      \* whether a replay policy is given: subset of BOOLEAN
          Servers,       \* what serves the directory: subset of {"sdk", "other"}
          Offsets,       \* possible values of `ahead`
          MayClose,      \* whether the verifier is closed at some point
          MaxKey, MaxNow,
          None

\* What the constants must be.
WbaAssumption ==
    Ttl >= 1 /\ Ttl <= MaxLifetime /\ DirTtl >= 1 /\ DirTtl <= MaxLifetime

VARIABLES now, ahead, key, retired, req, dir, serving, known, gate, seen, call, closed

vars == <<now, ahead, key, retired, req, dir, serving, known, gate, seen, call, closed>>

agent == <<key, retired, req, dir, serving>>
verifier == <<known, gate, seen, call, closed>>

Foreign == 0            \* a key that is not the agent's
Open == 0               \* no refresh of the domain is running or cooling down
InFlight == -1

NewReq == [st |-> "new", variant |-> "active", key |-> 0, by |-> 0,
           created |-> 0, expires |-> 0, body |-> "intact"]
NewCall == [pc |-> "idle", why |-> None, req |-> None, dir |-> None, expiry |-> None,
            ver |-> None, policy |-> FALSE, since |-> 0, done |-> 0]

TypeOK ==
    /\ now \in 0..MaxNow /\ ahead \in Offsets /\ key \in 1..MaxKey
    /\ retired \in [1..MaxKey -> {None} \cup (0..MaxNow)]
    /\ \A r \in Req : req[r].st \in {"new", "signing", "signed", "unsigned", "failed"}
    /\ gate \in {Open, InFlight} \cup (Cool..(MaxNow + Cool))
    /\ \A v \in Call : call[v].pc \in {"idle", "fetch", "resolve", "refresh", "replay",
                                       "final", "accepted", "rejected", "closed"}
    /\ closed \in BOOLEAN

Init ==
    /\ now = 0 /\ ahead \in Offsets /\ key = 1 /\ retired = [k \in 1..MaxKey |-> None]
    /\ req = [r \in Req |-> NewReq]
    /\ dir = None /\ serving = None /\ gate = Open /\ seen = {}
    /\ known \in {None, [key |-> 1, until |-> DnsTtl]}    \* verified before, or not
    /\ call = [v \in Call |-> NewCall] /\ closed = FALSE

Tick == now < MaxNow /\ now' = now + 1 /\ UNCHANGED <<ahead, agent, verifier>>

\* The agent's provider activates its next key, which ku publishes from then on.
Rotate ==
    /\ key < MaxKey
    /\ key' = key + 1 /\ retired' = [retired EXCEPT ![key] = now]
    /\ UNCHANGED <<now, ahead, req, dir, serving, verifier>>

---------------------------------------------------------------------------
(* WBAHttpSigner.sign *)

Clock == now + ahead            \* the agent's clock

\* Up to the signature base: the key is read, then the time.
SignBegin(r, v) ==
    /\ req[r].st = "new" /\ v \in Variants
    /\ LET made == IF v = "expired" THEN Clock - Ttl - Late ELSE Clock
       IN req' = [req EXCEPT ![r] =
              IF v = "no-sig" THEN [NewReq EXCEPT !.st = "unsigned", !.variant = v]
              ELSE [st |-> "signing", variant |-> v, key |-> key, by |-> 0,
                    created |-> made, expires |-> made + Ttl, body |-> "intact"]]
    /\ UNCHANGED <<now, ahead, key, retired, dir, serving, verifier>>

\* The provider signs with the key active now; a changed key is an ArgumentError.
SignEnd(r) ==
    /\ req[r].st = "signing"
    /\ LET by == IF req[r].variant = "key-mismatch" THEN Foreign ELSE key
       IN req' = [req EXCEPT
            ![r].st = IF by \in {Foreign, req[r].key} THEN "signed" ELSE "failed",
            ![r].by = by,
            ![r].body = IF req[r].variant = "tampered" THEN "changed" ELSE "intact"]
    /\ UNCHANGED <<now, ahead, key, retired, dir, serving, verifier>>

---------------------------------------------------------------------------
(* serve_http_message_signatures_directory *)

Lesser(a, b) == IF a < b THEN a ELSE b

ServeBegin ==
    /\ serving = None
    /\ LET back == Lesser(Backdate, DirTtl - 1)
       IN serving' = [key |-> key, created |-> Clock - back,
                      expires |-> (Clock - back) + DirTtl, maxage |-> DirTtl - back]
    /\ UNCHANGED <<now, ahead, key, retired, req, dir, verifier>>

\* A directory served by other software: no backdating, nothing to reuse.
ServeOther ==
    /\ serving = None /\ "other" \in Servers
    /\ dir' = [key |-> key, created |-> Clock, expires |-> Clock + DirTtl,
               maxage |-> 0, born |-> now]
    /\ UNCHANGED <<now, ahead, key, retired, req, serving, verifier>>

\* The response leaves only if the key did not change and time is left.
ServeEnd ==
    /\ serving # None
    /\ dir' = IF serving.key = key /\ Clock < serving.expires
              THEN [key |-> serving.key, created |-> serving.created,
                    expires |-> serving.expires, maxage |-> serving.maxage, born |-> now]
              ELSE dir
    /\ serving' = None
    /\ UNCHANGED <<now, ahead, key, retired, req, verifier>>

---------------------------------------------------------------------------
(* The checks of WBAHttpVerifier *)

CheckTime(p, skew) ==
    /\ p.expires - p.created \in 0..MaxLifetime
    /\ p.created <= now + skew
    /\ now <= p.expires + Skew

\* _directory_freshness: the Age a shared cache reports, plus the time the
\* fetch took; None is no bound.
Freshness(d, started) ==
    LET upstream == now - d.born
    IN IF d.maxage = 0 /\ upstream = 0 THEN None
       ELSE (now + d.maxage) - (upstream + (now - started))

\* _signatures: the complete request signatures with the profile's tag.
Signatures(r) == IF req[r].st = "signed" THEN {r} ELSE {}

\* _fetch: what the directory endpoint, or a cache in front of it, answers.
Fetched(c) == [dir |-> dir, expiry |-> Freshness(dir, c.since)]

FinalCheck(c) ==
    /\ c.expiry = None \/ now < c.expiry
    /\ CheckTime(req[c.req], Skew) /\ CheckTime(c.dir, 0)
    /\ now < c.ver.until \/ DnsTtl = 0

\* The call returns or raises, and forgets what it gathered.
Ended(c, why) ==
    [NewCall EXCEPT !.pc = IF why = "ok" THEN "accepted" ELSE "rejected",
                    !.req = c.req, !.policy = c.policy, !.why = why, !.done = now]

\* How long the store is asked to remember a nonce.
RetainUntil(r) == req[r].expires + Skew

\* What follows a verified key: the replay policy if there is one.
Verified(c) == IF c.policy THEN [c EXCEPT !.pc = "replay"] ELSE Ended(c, "ok")

---------------------------------------------------------------------------
(* verify_web_bot_auth_signed_request, cut where it waits *)

\* Everything before the directory is fetched.
VerifyBegin(v, r, policy) ==
    /\ call[v].pc = "idle" /\ policy \in Policies
    /\ req[r].st \in {"signed", "unsigned"}
    /\ LET c == [NewCall EXCEPT !.req = r, !.policy = policy, !.since = now]
       IN call' = [call EXCEPT ![v] =
            CASE closed -> [c EXCEPT !.pc = "closed"]
              [] ~closed /\ Signatures(r) = {} -> Ended(c, "signature")
              [] ~closed /\ Signatures(r) # {} ->
                   IF ~CheckTime(req[r], Skew) THEN Ended(c, "time")
                   ELSE IF req[r].body # "intact" THEN Ended(c, "signature")
                   ELSE [c EXCEPT !.pc = "fetch"]]
    /\ UNCHANGED <<now, ahead, agent, known, gate, seen, closed>>

\* The directory answers, and both signatures are checked with its key.
Fetch(v) ==
    /\ call[v].pc = "fetch" /\ dir # None
    /\ LET c == call[v]
           r == req[c.req]
           got == Fetched(c)
       IN call' = [call EXCEPT ![v] =
            IF got.expiry # None /\ now >= got.expiry THEN Ended(c, "stale")
            ELSE IF got.dir.key # r.key THEN Ended(c, "directory")
            ELSE IF ~CheckTime(got.dir, 0) THEN Ended(c, "time")
            ELSE IF r.by # r.key THEN Ended(c, "signature")
            ELSE [c EXCEPT !.pc = "resolve", !.dir = got.dir, !.expiry = got.expiry]]
    /\ UNCHANGED <<now, ahead, agent, known, gate, seen, closed>>

\* The directory, the resolver or the replay store fails, or the time budget of
\* the call has run out.
Fail(v) ==
    /\ call[v].pc \in {"fetch", "resolve", "replay", "final"}
    /\ call' = [call EXCEPT ![v] = Ended(@, "failure")]
    /\ seen' \in IF call[v].pc = "replay" THEN {seen, seen \cup
                    {[req |-> call[v].req, until |-> RetainUntil(call[v].req)]}}
                 ELSE {seen}
    /\ UNCHANGED <<now, ahead, agent, known, gate, closed>>

\* resolver.verify_domain answers from its cache or acquires; a key that is not
\* the one it knows asks the gate for a refresh.
Resolve(v) ==
    /\ call[v].pc = "resolve"
    /\ known' = IF known # None /\ now < known.until THEN known
                ELSE [key |-> key, until |-> now + DnsTtl]
    /\ LET c == [call[v] EXCEPT !.ver = known']
           matches == known'.key = req[c.req].key
           open == gate = Open \/ (gate # InFlight /\ gate <= now)
       IN /\ call' = [call EXCEPT ![v] =
                IF ~FinalCheck(c) THEN Ended(c, "time")
                ELSE IF matches THEN Verified(c)
                ELSE IF open THEN [c EXCEPT !.pc = "refresh", !.since = now]
                ELSE Ended(c, "suppressed")]
          /\ gate' = IF call'[v].pc = "refresh" THEN InFlight ELSE gate
    /\ UNCHANGED <<now, ahead, agent, seen, closed>>

\* resolver.refresh_domain returns or fails; the finally block opens the cooldown.
Refreshed(v) ==
    /\ call[v].pc = "refresh"
    /\ gate' = call[v].since + Cool
    /\ \/ /\ known' = [key |-> key, until |-> now + DnsTtl]
          /\ LET c == [call[v] EXCEPT !.ver = known']
             IN call' = [call EXCEPT ![v] =
                    IF known'.key # req[c.req].key THEN Ended(c, "key")
                    ELSE IF ~FinalCheck(c) THEN Ended(c, "time")
                    ELSE Verified(c)]
       \/ /\ call' = [call EXCEPT ![v] = Ended(@, "failure")]
          /\ UNCHANGED known
    /\ UNCHANGED <<now, ahead, agent, seen, closed>>

\* opts.replay_policy records an unused nonce; the store may forget it once the
\* time it was given has passed.
Replay(v) ==
    /\ call[v].pc = "replay"
    /\ LET r == call[v].req
           live == {e \in seen : e.until >= now}
       IN IF \E e \in live : e.req = r
          THEN /\ call' = [call EXCEPT ![v] = Ended(@, "replay")]
               /\ seen' = live
          ELSE /\ call' = [call EXCEPT ![v].pc = "final"]
               /\ seen' = live \cup {[req |-> r, until |-> RetainUntil(r)]}
    /\ UNCHANGED <<now, ahead, agent, known, gate, closed>>

\* Mutant of Final: nothing is checked again once the store has answered.
FinalUnchecked(v) ==
    /\ call[v].pc = "final"
    /\ call' = [call EXCEPT ![v] = Ended(@, "ok")]
    /\ UNCHANGED <<now, ahead, agent, known, gate, seen, closed>>

Final(v) ==
    /\ call[v].pc = "final"
    /\ call' = [call EXCEPT ![v] = Ended(@, IF FinalCheck(@) THEN "ok" ELSE "time")]
    /\ UNCHANGED <<now, ahead, agent, known, gate, seen, closed>>

\* close(), called after the verifications in flight have finished.
Close ==
    /\ ~closed /\ MayClose
    /\ \A v \in Call : call[v].pc \in {"idle", "accepted", "rejected"}
    /\ closed' = TRUE
    /\ UNCHANGED <<now, ahead, agent, known, gate, seen, call>>

Next ==
    \/ Tick \/ Rotate \/ ServeBegin \/ ServeEnd \/ ServeOther \/ Close
    \/ \E r \in Req : SignEnd(r) \/ \E x \in Variants : SignBegin(r, x)
    \/ \E v \in Call : \/ \E r \in Req, p \in Policies : VerifyBegin(v, r, p)
                       \/ Fetch(v) \/ Fail(v) \/ Resolve(v) \/ Refreshed(v)
                       \/ Replay(v) \/ Final(v)

Spec == Init /\ [][Next]_vars

---------------------------------------------------------------------------
(* Properties *)

Accepted == {v \in Call : call[v].pc = "accepted"}

\* With a replay policy a signed request is accepted once, although the store
\* may forget its nonce and a verification may sit on either side of that.
AcceptedOnce ==
    \A v, w \in Accepted :
        call[v].policy /\ call[w].policy /\ call[v].req = call[w].req => v = w

\* What is accepted was signed by the key it names and arrived unchanged: none
\* of the signer's deliberately broken variants passes.
AcceptedAsSigned ==
    \A v \in Accepted :
        LET r == req[call[v].req]
        IN r.variant \in {"active", "revoked"} /\ r.by = r.key /\ r.body = "intact"

\* A key the agent has retired stops being accepted when the DNS evidence that
\* showed it has run out, however the cache and the forced refresh interleave.
RetiredKeyAges ==
    \A v \in Accepted :
        LET k == req[call[v].req].key
        IN retired[k] # None => call[v].done - retired[k] <= DnsTtl

\* No verification returns a request whose signature lifetime has ended.
AcceptedInTime ==
    \A v \in Accepted : call[v].done <= req[call[v].req].expires + Skew

\* A verification that refreshed refuses for its key only a request whose key
\* stopped being the active one: a stale cache alone never costs a request.
RefusedKeyIsOld ==
    \A v \in Call : call[v].why = "key" => retired[req[call[v].req].key] # None

\* The agent never hands out a signed request or a directory under a key other
\* than the one that signed it, so a rotation in the middle of signing is seen.
SignedByNamedKey ==
    \A r \in Req : req[r].st = "signed" /\ req[r].variant # "key-mismatch"
        => req[r].by = req[r].key

\* A directory the SDK serves is accepted by the clock of every verifier that
\* is at most the backdating behind, until it leaves the caches.
DirectoryUsable ==
    dir # None /\ dir.maxage > 0 /\ ahead \in -Skew..Lesser(Backdate, DirTtl - 1)
        /\ now < dir.born + dir.maxage
        /\ now + ahead < dir.expires
      => CheckTime(dir, 0)

=============================================================================
