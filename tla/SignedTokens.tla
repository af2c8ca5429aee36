--------------------------- MODULE SignedTokens ---------------------------
(***************************************************************************)
(* Self-issued tokens: the JWT and JWS of the JOSE profile                 *)
(* (src/dnsid/jose.py) and the bearer token of a bot                       *)
(* (src/dnsid/web_bot_auth.py).  One issuer signs with its provider's      *)
(* active key, which rotates; verifiers check the claims, wait for the     *)
(* DNSid resolver, and check the signature with the key it returns.        *)
(*                                                                         *)
(* The clock counts ticks, Res of them to a second: the claims are whole   *)
(* seconds, and where the code truncates a time so does the model.  Key n  *)
(* is the n-th active key and its kid is n.                                *)
(***************************************************************************)
EXTENDS Integers, FiniteSets

CONSTANTS Token, Call,
          Kinds,         \* what is issued: subset of {"jwt", "jws", "bot"}
          Expiries,      \* requested lifetimes, in ticks
          MaxLifetime,   \* config.max_lifetime, in ticks, a whole number of seconds
          Skew,          \* config.clock_skew, in ticks
          Audience,      \* audiences tokens are made for and verifiers stand for
          DnsTtl,        \* how long the resolver may answer from its cache
          Offsets,       \* how far the issuer's clock may be ahead, in ticks
          Res, MaxKey, MaxNow,
          None

\* What the constants must be.
TokenAssumption == Res \in Nat \ {0} /\ MaxLifetime % Res = 0 /\ Skew >= 0

VARIABLES now, ahead, key, retired, known, token, call

vars == <<now, ahead, key, retired, known, token, call>>

NewToken == [st |-> "new", kind |-> None, aud |-> None, kid |-> 0, by |-> 0,
             iat |-> 0, exp |-> 0, over |-> 0]
NewCall == [pc |-> "idle", why |-> None, token |-> None, aud |-> None, done |-> 0]

TypeOK ==
    /\ now \in 0..MaxNow /\ ahead \in Offsets /\ key \in 1..MaxKey
    /\ retired \in [1..MaxKey -> {None} \cup (0..MaxNow)]
    /\ \A t \in Token : /\ token[t].st \in {"new", "signing", "issued", "refused"}
                        /\ token[t].kind \in Kinds \cup {None}
    /\ \A v \in Call : call[v].pc \in {"idle", "resolve", "accepted", "rejected"}

\* Clocks start late enough that no claim is zero.
Start == 2 * Res

Init ==
    /\ now = Start /\ ahead \in Offsets /\ key = 1
    /\ retired = [k \in 1..MaxKey |-> None]
    /\ known \in {None, [key |-> 1, until |-> Start + DnsTtl]}
    /\ token = [t \in Token |-> NewToken]
    /\ call = [v \in Call |-> NewCall]

Tick == now < MaxNow /\ now' = now + 1 /\ UNCHANGED <<ahead, key, retired, known, token, call>>

\* The issuer's provider activates its next key, which ku publishes from then on.
Rotate ==
    /\ key < MaxKey
    /\ key' = key + 1 /\ retired' = [retired EXCEPT ![key] = now]
    /\ UNCHANGED <<now, ahead, known, token, call>>

---------------------------------------------------------------------------
(* Issuing *)

Seconds(t) == t \div Res
Clock == now + ahead

Draft(kind, a, e) ==
    [st |-> "signing", kind |-> kind, aud |-> a, kid |-> key, by |-> 0,
     iat |-> Seconds(Clock), exp |-> Seconds(Clock + e), over |-> e]

Refused(kind) == [NewToken EXCEPT !.st = "refused", !.kind = kind]

\* create_jwt up to the signature.
JwtDraft(a, e) ==
    IF e > MaxLifetime \/ e <= 0 THEN Refused("jwt")
    ELSE IF Draft("jwt", a, e).exp <= Draft("jwt", a, e).iat THEN Refused("jwt")
    ELSE Draft("jwt", a, e)

\* create_jws up to the signature: no audience and no times.
JwsDraft == [NewToken EXCEPT !.st = "signing", !.kind = "jws", !.kid = key]

\* create_bot_token up to the signature.  The lifetime is not compared with the
\* resolution of the claims.
BotDraft(a, e) == IF e > MaxLifetime THEN Refused("bot") ELSE Draft("bot", a, e)

CreateJwt(t, a, e) ==
    /\ token[t].st = "new" /\ "jwt" \in Kinds
    /\ token' = [token EXCEPT ![t] = JwtDraft(a, e)]
    /\ UNCHANGED <<now, ahead, key, retired, known, call>>

CreateJws(t) ==
    /\ token[t].st = "new" /\ "jws" \in Kinds
    /\ token' = [token EXCEPT ![t] = JwsDraft]
    /\ UNCHANGED <<now, ahead, key, retired, known, call>>

\* sign_bot_request: a request that carries Authorization already is refused.
SignBotRequest(t, a, e, authorized) ==
    /\ token[t].st = "new" /\ "bot" \in Kinds
    /\ token' = [token EXCEPT ![t] = IF authorized THEN Refused("bot") ELSE BotDraft(a, e)]
    /\ UNCHANGED <<now, ahead, key, retired, known, call>>

\* The provider signs with the key active now, whatever kid the header names.
SignEnd(t) ==
    /\ token[t].st = "signing"
    /\ token' = [token EXCEPT ![t].st = "issued", ![t].by = key]
    /\ UNCHANGED <<now, ahead, key, retired, known, call>>

---------------------------------------------------------------------------
(* Verifying *)

\* Mutant of JwtTimes: no tolerance for a clock that is behind the issuer's.
JwtNoSkew(t) ==
    /\ t.iat * Res <= now
    /\ t.exp > t.iat /\ (t.exp - t.iat) * Res <= MaxLifetime
    /\ t.exp * Res > now

\* The time claims of a JWT, against an exact clock.
JwtTimes(t) ==
    /\ t.iat * Res <= now + Skew
    /\ t.exp > t.iat /\ (t.exp - t.iat) * Res <= MaxLifetime
    /\ t.exp * Res > now

\* The time claims of a bot token, against whole seconds.
BotTimes(t) ==
    /\ t.iat <= Seconds(now) + Seconds(Skew)
    /\ t.exp > t.iat /\ t.exp - t.iat <= Seconds(MaxLifetime)
    /\ t.exp >= Seconds(now)

Ended(c, why) == [c EXCEPT !.pc = IF why = "ok" THEN "accepted" ELSE "rejected",
                           !.why = why, !.done = now]

\* verify_jwt and verify_bot_request until the resolver is called; verify_jws has
\* only the header to look at.
VerifyJwt(v, t, a) ==
    /\ call[v].pc = "idle" /\ token[t].st = "issued" /\ token[t].kind = "jwt"
    /\ LET c == [NewCall EXCEPT !.token = t, !.aud = a]
       IN call' = [call EXCEPT ![v] =
            IF token[t].aud # a THEN Ended(c, "audience")
            ELSE IF ~JwtTimes(token[t]) THEN Ended(c, "time")
            ELSE [c EXCEPT !.pc = "resolve"]]
    /\ UNCHANGED <<now, ahead, key, retired, known, token>>

VerifyBotRequest(v, t, a) ==
    /\ call[v].pc = "idle" /\ token[t].st = "issued" /\ token[t].kind = "bot"
    /\ LET c == [NewCall EXCEPT !.token = t, !.aud = a]
       IN call' = [call EXCEPT ![v] =
            IF token[t].aud # a THEN Ended(c, "audience")
            ELSE IF ~BotTimes(token[t]) THEN Ended(c, "time")
            ELSE [c EXCEPT !.pc = "resolve"]]
    /\ UNCHANGED <<now, ahead, key, retired, known, token>>

VerifyJws(v, t) ==
    /\ call[v].pc = "idle" /\ token[t].st = "issued" /\ token[t].kind = "jws"
    /\ call' = [call EXCEPT ![v] = [NewCall EXCEPT !.token = t, !.pc = "resolve"]]
    /\ UNCHANGED <<now, ahead, key, retired, known, token>>

\* The expiry of a JWT is looked at again once the resolver has answered.
StillValid(t) == t.exp * Res > now

\* resolver.verify_domain: a cached answer that has not run out, or a new one.
Answer(k) == IF k # None /\ now < k.until THEN k ELSE [key |-> key, until |-> now + DnsTtl]

\* The key the kid names in the answer, then the signature.
Outcome(t, ver) ==
    IF t.kid # ver.key THEN "unknown-key" ELSE IF t.by # t.kid THEN "signature" ELSE "ok"

\* The rest of verify_jwt, verify_jws and verify_bot_request, from the resolver's
\* answer on.
JwtEnd(v) ==
    /\ call[v].pc = "resolve" /\ token[call[v].token].kind = "jwt"
    /\ known' = Answer(known)
    /\ LET t == token[call[v].token]
           o == Outcome(t, known')
       IN call' = [call EXCEPT ![v] = Ended(@, IF o = "ok" /\ ~StillValid(t) THEN "time" ELSE o)]
    /\ UNCHANGED <<now, ahead, key, retired, token>>

JwsEnd(v) ==
    /\ call[v].pc = "resolve" /\ token[call[v].token].kind = "jws"
    /\ known' = Answer(known)
    /\ call' = [call EXCEPT ![v] = Ended(@, Outcome(token[@.token], known'))]
    /\ UNCHANGED <<now, ahead, key, retired, token>>

BotEnd(v) ==
    /\ call[v].pc = "resolve" /\ token[call[v].token].kind = "bot"
    /\ known' = Answer(known)
    /\ call' = [call EXCEPT ![v] = Ended(@, Outcome(token[@.token], known'))]
    /\ UNCHANGED <<now, ahead, key, retired, token>>

\* The resolver raises.
Fail(v) ==
    /\ call[v].pc = "resolve"
    /\ call' = [call EXCEPT ![v] = Ended(@, "failure")]
    /\ UNCHANGED <<now, ahead, key, retired, known, token>>

Next ==
    \/ Tick \/ Rotate
    \/ \E t \in Token : \/ CreateJws(t) \/ SignEnd(t)
                        \/ \E a \in Audience, e \in Expiries :
                              \/ CreateJwt(t, a, e)
                              \/ \E z \in BOOLEAN : SignBotRequest(t, a, e, z)
    \/ \E v \in Call : \/ JwtEnd(v) \/ JwsEnd(v) \/ BotEnd(v) \/ Fail(v)
                       \/ \E t \in Token :
                             \/ VerifyJws(v, t)
                             \/ \E a \in Audience : VerifyJwt(v, t, a) \/ VerifyBotRequest(v, t, a)

Spec == Init /\ [][Next]_vars

---------------------------------------------------------------------------
(* Properties *)

Accepted == {v \in Call : call[v].pc = "accepted"}

\* What is accepted was signed by the key its header names and is addressed to
\* the party that accepts it, whatever the provider did while it was signed.
AcceptedAsIssued ==
    \A v \in Accepted :
        LET t == token[call[v].token]
        IN t.by = t.kid /\ (t.kind # "jws" => t.aud = call[v].aud)

\* A token whose key the issuer retired is accepted at most as long as the
\* resolver's evidence of that key lasts.
RetiredKeyAges ==
    \A v \in Accepted :
        LET k == token[call[v].token].kid
        IN retired[k] # None => call[v].done - retired[k] <= DnsTtl

\* A JWT that has expired is never returned as verified, although the resolver
\* may take long.
NotExpiredOnReturn ==
    \A v \in Accepted :
        LET t == token[call[v].token]
        IN t.kind = "jwt" => t.exp * Res > call[v].done

\* Whoever issued a token within the rules finds it accepted: a JWT made for the
\* verifier is refused for its times only once it has expired, as long as the
\* clocks differ by no more than the tolerance.
HonestInTime ==
    \A v \in Call :
        call[v].why = "time" /\ token[call[v].token].kind = "jwt" /\ ahead <= Skew
            => token[call[v].token].exp * Res <= call[v].done

\* A token under the issuer's active key is refused as unknown only while the
\* resolver may still answer with what it knew before that key: these profiles
\* never force a refresh.
NewKeyKnownInTime ==
    \A v \in Call :
        LET k == token[call[v].token].kid
        IN call[v].why = "unknown-key" /\ (retired[k] # None => call[v].done < retired[k])
            => k > 1 /\ call[v].done - retired[k - 1] < DnsTtl

=============================================================================
