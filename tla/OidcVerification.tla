------------------------- MODULE OidcVerification -------------------------
(***************************************************************************)
(* Verification of a token an OIDC issuer has issued (src/dnsid/oidc.py,   *)
(* verify_oidc_token).  Between the first check of the claims and the      *)
(* return lie three waits: the discovery document, the issuer's JWKS, and  *)
(* the DNSid identity of the subject.  Time passes in all of them and the  *)
(* issuer changes its keys.                                                *)
(*                                                                         *)
(* Key n is the n-th signing key of the issuer and its kid is n.           *)
(***************************************************************************)
EXTENDS Integers, FiniteSets

CONSTANTS Token, Call,
          Lifetimes,     \* exp - iat of the tokens the issuer makes
          Delays,        \* nbf - iat of the tokens that carry nbf
          Skew,          \* config.clock_skew
          Offsets,       \* how far the issuer's clock may be ahead
          Subjects,      \* subset of BOOLEAN: whether the subject is verified too
          MaxKey, MaxNow,
          None

VARIABLES now, ahead, key, jwks, removed, token, call

vars == <<now, ahead, key, jwks, removed, token, call>>

NewToken == [st |-> "new", kid |-> 0, by |-> 0, iat |-> 0, exp |-> 0, nbf |-> None]
NewCall == [pc |-> "idle", why |-> None, token |-> None, subject |-> FALSE,
            began |-> 0, done |-> 0]

TypeOK ==
    /\ now \in 0..MaxNow /\ ahead \in Offsets /\ key \in 1..MaxKey
    /\ jwks \in SUBSET (1..MaxKey)
    /\ \A t \in Token : token[t].st \in {"new", "issued"}
    /\ \A v \in Call : call[v].pc \in {"idle", "discover", "jwks", "subject",
                                       "accepted", "rejected"}

Init ==
    /\ now = 0 /\ ahead \in Offsets /\ key = 1 /\ jwks = {1}
    /\ removed = [k \in 1..MaxKey |-> None]
    /\ token = [t \in Token |-> NewToken]
    /\ call = [v \in Call |-> NewCall]

Tick == now < MaxNow /\ now' = now + 1 /\ UNCHANGED <<ahead, key, jwks, removed, token, call>>

---------------------------------------------------------------------------
(* The issuer *)

Issue(t, life, delay) ==
    /\ token[t].st = "new"
    /\ token' = [token EXCEPT ![t] =
            [st |-> "issued", kid |-> key, by |-> key, iat |-> now + ahead,
             exp |-> now + ahead + life,
             nbf |-> IF delay = None THEN None ELSE now + ahead + delay]]
    /\ UNCHANGED <<now, ahead, key, jwks, removed, call>>

NextKey ==
    /\ key < MaxKey
    /\ key' = key + 1 /\ jwks' = jwks \cup {key + 1}
    /\ UNCHANGED <<now, ahead, removed, token, call>>

Remove(k) ==
    /\ k \in jwks /\ k # key
    /\ jwks' = jwks \ {k} /\ removed' = [removed EXCEPT ![k] = now]
    /\ UNCHANGED <<now, ahead, key, token, call>>

---------------------------------------------------------------------------
(* verify_oidc_token *)

\* _validate_token_times.
TimesHold(t) ==
    /\ t.exp > t.iat /\ (t.nbf # None => t.nbf <= now + Skew)
    /\ t.iat <= now + Skew /\ t.exp > now

Ended(c, why) == [c EXCEPT !.pc = IF why = "ok" THEN "accepted" ELSE "rejected",
                           !.why = why, !.done = now]

\* The claims and the header, before anything is fetched.
Begin(v, t, subject) ==
    /\ call[v].pc = "idle" /\ token[t].st = "issued"
    /\ LET c == [NewCall EXCEPT !.token = t, !.subject = subject, !.began = now]
       IN call' = [call EXCEPT ![v] = IF TimesHold(token[t]) THEN [c EXCEPT !.pc = "discover"]
                                      ELSE Ended(c, "time")]
    /\ UNCHANGED <<now, ahead, key, jwks, removed, token>>

Discovered(v) ==
    /\ call[v].pc = "discover"
    /\ call' = [call EXCEPT ![v].pc = "jwks"]
    /\ UNCHANGED <<now, ahead, key, jwks, removed, token>>

\* _key_by_id and the signature under that key.
KeyFound(t) == t.kid \in jwks /\ t.by = t.kid

\* The JWKS answers: key, signature, the times again, and then the subject.
KeysFetched(v) ==
    /\ call[v].pc = "jwks"
    /\ LET c == call[v]
           t == token[c.token]
       IN call' = [call EXCEPT ![v] =
            IF ~KeyFound(t) THEN Ended(c, "key")
            ELSE IF ~TimesHold(t) THEN Ended(c, "time")
            ELSE IF c.subject THEN [c EXCEPT !.pc = "subject"]
            ELSE Ended(c, "ok")]
    /\ UNCHANGED <<now, ahead, key, jwks, removed, token>>

\* resolver.verify_domain answers for the subject.
SubjectVerified(v) ==
    /\ call[v].pc = "subject"
    /\ call' = [call EXCEPT ![v] =
            Ended(@, IF TimesHold(token[call[v].token]) THEN "ok" ELSE "time")]
    /\ UNCHANGED <<now, ahead, key, jwks, removed, token>>

\* A fetch or the resolver fails, or a document is not acceptable.
Fail(v) ==
    /\ call[v].pc \in {"discover", "jwks", "subject"}
    /\ call' = [call EXCEPT ![v] = Ended(@, "failure")]
    /\ UNCHANGED <<now, ahead, key, jwks, removed, token>>

Next ==
    \/ Tick \/ NextKey \/ \E k \in 1..MaxKey : Remove(k)
    \/ \E t \in Token, l \in Lifetimes, d \in Delays : Issue(t, l, d)
    \/ \E v \in Call : \/ \E t \in Token, s \in Subjects : Begin(v, t, s)
                       \/ Discovered(v) \/ KeysFetched(v) \/ SubjectVerified(v) \/ Fail(v)

Spec == Init /\ [][Next]_vars

---------------------------------------------------------------------------
(* Properties *)

Accepted == {v \in Call : call[v].pc = "accepted"}

\* A token that has expired is never returned, whichever of the three waits it
\* expired in.
NotExpiredOnReturn == \A v \in Accepted : token[call[v].token].exp > call[v].done

\* A token is accepted only under a key that its issuer still published when the
\* verification began: nothing is taken from an earlier verification.
KeyPublishedInCall ==
    \A v \in Accepted :
        LET k == token[call[v].token].kid
        IN removed[k] # None => removed[k] >= call[v].began

\* With clocks no further apart than the tolerance, a token that has not expired
\* is refused for its times only before it becomes valid.
HonestInTime ==
    \A v \in Call :
        call[v].why = "time" /\ ahead <= Skew
            => LET t == token[call[v].token]
               IN t.exp <= call[v].done \/ (t.nbf # None /\ t.nbf > call[v].done + Skew)

=============================================================================
