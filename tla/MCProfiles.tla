------------------------------ MODULE MCProfiles ------------------------------
(***************************************************************************)
(* The profiles by which agents sign requests, responses and tokens, in    *)
(* small instances: `part` says which of them a behaviour is about.  They  *)
(* share variables of the same name; those a part does not use are <<>>.   *)
(*   "gate"       three threads, two domains, room for one                 *)
(*   "request"    two signers of one request                               *)
(*   "age"        one signer with a clock of its own                       *)
(*   "response"   two calls at a time, responses altered on the way        *)
(*   "lifetime"   one call, and time                                       *)
(*   "bot"        two verifications of a request while its key is rotated  *)
(*   "variants"   every signing variant, under a clock offset              *)
(*   "token"      one token, two verifications, half-second ticks          *)
(*   "exchange"   every combination of options and documents               *)
(*   "oidc"       one verification while the issuer changes its keys       *)
(***************************************************************************)
EXTENDS RefreshCooldown, TLC

CONSTANTS a1, a2, b1, b2, c1, c2, d1, d2, e1, e2, None, Gateway, Malformed

VARIABLES
    part, clock,
    active, rotated, required_tag, drift, msg, signing, altered, check,
    served, wire, opened, streams, alterations, rotations,
    call, closed,
    ahead, key, retired, known, req, dir, serving, gate, seen,
    token, jwks, removed

requestVars == <<rotated, required_tag, drift, msg, signing, altered, check>>
responseVars == <<served, wire, opened, streams, alterations, rotations>>
botVars == <<req, dir, serving, gate, seen>>
issuerVars == <<ahead, key>>
oidcVars == <<jwks, removed>>
vars_ == <<part, clock, gateVars, requestVars, responseVars, botVars, issuerVars, oidcVars,
           active, call, closed, retired, known, token>>

\* Calls, threads and contents are interchangeable.
Symmetric == Permutations({a1, a2}) \cup Permutations({b1, b2})

MCDomain == {e1, e2}
MCThread == {a1, a2, e1}
Calls == {a1, a2}
Parties == {d1, d2}
Contents == {b1, b2}
Places == {c1, c2}
Keys == {1, 2}
One == {e1}
Other == {e2}
Nothing == {}
NoneOrFirst == {None, e1}
JustNone == {None}
Zero == {0}
Ends == {-1, 1}
Plain == {"active"}
AllVariants == {"active", "revoked", "key-mismatch", "no-sig", "tampered", "expired"}
Sdk == {"sdk"}
AnyServer == {"sdk", "other"}
With == {TRUE}
Without == {FALSE}
Either == BOOLEAN
AllKinds == {"jwt", "jws", "bot"}
Expiries == {1, 2, 4, 5}
TokenOffsets == {-1, 2}
Lifetimes == {1, 3}
Delays == {None, 0, 2}

Request == INSTANCE RequestSignatures WITH
    Domain <- Parties, Key <- Keys, Body <- Contents, Target <- Places, Tag <- MCDomain,
    RequiredTags <- NoneOrFirst, RequiredComponents <- Nothing, MaxAge <- 1, Skew <- 0,
    MaxExpiry <- 1, MaxTime <- 0, Drifts <- Zero, now <- clock
RequestAge == INSTANCE RequestSignatures WITH
    Domain <- One, Key <- Keys, Body <- One, Target <- One, Tag <- Other,
    RequiredTags <- JustNone, RequiredComponents <- Nothing, MaxAge <- 2, Skew <- 1,
    MaxExpiry <- 2, MaxTime <- 5, Drifts <- Ends, now <- clock

Response == INSTANCE NegotiatedResponses WITH
    Call <- Calls, Key <- Keys, FirstKey <- 1, Content <- Contents, Lifetime <- 1, Skew <- 0,
    MaxAge <- 2, Budget <- 3, MaxTime <- 0, MaxAlterations <- 1, MaxRotations <- 1, now <- clock
ResponseLifetime == INSTANCE NegotiatedResponses WITH
    Call <- One, Key <- Keys, FirstKey <- 1, Content <- Contents, Lifetime <- 2, Skew <- 1,
    MaxAge <- 4, Budget <- 5, MaxTime <- 6, MaxAlterations <- 1, MaxRotations <- 1, now <- clock

Bot == INSTANCE WebBotAuth WITH
    Req <- One, Call <- Calls, Variants <- Plain, Policies <- With, Servers <- Sdk,
    Offsets <- Zero, Ttl <- 1, DirTtl <- 4, Backdate <- 1, MaxLifetime <- 4, Skew <- 1, Late <- 3,
    DnsTtl <- 1, Cool <- 2, MayClose <- FALSE, MaxKey <- 2, MaxNow <- 2, now <- clock
BotVariants == INSTANCE WebBotAuth WITH
    Req <- One, Call <- Other, Variants <- AllVariants, Policies <- Without, Servers <- AnyServer,
    Offsets <- Ends, Ttl <- 1, DirTtl <- 3, Backdate <- 1, MaxLifetime <- 3, Skew <- 1,
    Late <- 3, DnsTtl <- 0, Cool <- 2, MayClose <- TRUE, MaxKey <- 2, MaxNow <- 2, now <- clock

Tokens == INSTANCE SignedTokens WITH
    Token <- One, Call <- Calls, Kinds <- AllKinds, Expiries <- Expiries, MaxLifetime <- 4,
    Skew <- 2, Audience <- Contents, DnsTtl <- 2, Offsets <- TokenOffsets, Res <- 2, MaxKey <- 2,
    MaxNow <- 8, now <- clock

Exchange == INSTANCE OidcExchange WITH Exchange <- One, Issuer <- Contents

Oidc == INSTANCE OidcVerification WITH
    Token <- One, Call <- Other, Lifetimes <- Lifetimes, Delays <- Delays, Skew <- 1,
    Offsets <- Ends, Subjects <- Either, MaxKey <- 2, MaxNow <- 5, now <- clock

ASSUME ProfileInstances ==
    /\ Bot!WbaAssumption /\ BotVariants!WbaAssumption
    /\ Tokens!TokenAssumption /\ Exchange!ExchangeAssumption

-----------------------------------------------------------------------------

NoRequest ==
    /\ rotated = <<>> /\ required_tag = <<>> /\ drift = <<>> /\ msg = <<>> /\ signing = <<>>
    /\ altered = <<>> /\ check = <<>>
NoResponse ==
    /\ served = <<>> /\ wire = <<>> /\ opened = <<>> /\ streams = <<>> /\ alterations = <<>>
    /\ rotations = <<>>
NoBot == req = <<>> /\ dir = <<>> /\ serving = <<>> /\ gate = <<>> /\ seen = <<>>
NoIssuer == ahead = <<>> /\ key = <<>>
NoOidc == jwks = <<>> /\ removed = <<>>

\* One of the initial requests that differ only in the names of their values.
FirstOfEach == \A d \in DOMAIN active : active[d] = 1

MCInit ==
    /\ part \in {"gate", "request", "age", "response", "lifetime", "bot", "variants", "token",
                 "exchange", "oidc"}
    /\ GateInit /\ (part # "gate" => thread = [c \in Thread |-> [pc |-> "idle", domain |-> e1, at |-> 0]])
    /\ CASE part = "request" -> Request!Init /\ FirstOfEach /\ msg.target = c1
         [] part = "age" -> RequestAge!Init /\ FirstOfEach
         [] OTHER -> NoRequest
    /\ CASE part = "response" -> Response!Init [] part = "lifetime" -> ResponseLifetime!Init
         [] OTHER -> NoResponse
    /\ CASE part = "bot" -> Bot!Init [] part = "variants" -> BotVariants!Init [] OTHER -> NoBot
    /\ CASE part = "token" -> Tokens!Init [] part = "exchange" -> Exchange!Init [] OTHER -> TRUE
    /\ IF part = "oidc" THEN Oidc!Init ELSE NoOidc
    /\ part \notin {"bot", "variants", "token", "oidc"} => NoIssuer
    /\ part \notin {"request", "age", "response", "lifetime"} => active = <<>>
    /\ part \notin {"bot", "variants", "token"} => retired = <<>> /\ known = <<>>
    /\ part \notin {"token", "oidc"} => token = <<>>
    /\ part \notin {"response", "lifetime", "bot", "variants"} => closed = <<>>
    /\ part \in {"gate", "request", "age"} => call = <<>>
    /\ part \in {"gate", "exchange"} => clock = 0

MCNext ==
    \/ /\ part = "gate" /\ GateNext
       /\ UNCHANGED <<part, clock, requestVars, responseVars, botVars, issuerVars, oidcVars, active,
                      call, closed, retired, known, token>>
    \/ /\ \/ part = "request" /\ Request!Next
          \/ part = "age" /\ RequestAge!Next
       /\ UNCHANGED <<part, gateVars, responseVars, botVars, issuerVars, oidcVars, call, closed,
                      retired, known, token>>
    \/ /\ \/ part = "response" /\ Response!Next
          \/ part = "lifetime" /\ ResponseLifetime!Next
       /\ UNCHANGED <<part, gateVars, requestVars, botVars, issuerVars, oidcVars, retired, known,
                      token>>
    \/ /\ \/ part = "bot" /\ Bot!Next
          \/ part = "variants" /\ BotVariants!Next
       /\ UNCHANGED <<part, gateVars, requestVars, responseVars, oidcVars, active, token>>
    \/ /\ part = "token" /\ Tokens!Next
       /\ UNCHANGED <<part, gateVars, requestVars, responseVars, botVars, oidcVars, active, closed>>
    \/ /\ part = "exchange" /\ Exchange!Next
       /\ UNCHANGED <<part, clock, gateVars, requestVars, responseVars, botVars, issuerVars, oidcVars,
                      active, closed, retired, known, token>>
    \/ /\ part = "oidc" /\ Oidc!Next
       /\ UNCHANGED <<part, gateVars, requestVars, responseVars, botVars, active, closed, retired,
                      known>>

MCSpec == MCInit /\ [][MCNext]_vars_

-----------------------------------------------------------------------------

\* What a verifier accepts is what the key's holder signed: a request with the
\* body, the target and the tag of the signature, and a single signature that
\* qualifies (http_signatures.py); a Web Bot Auth request that was not tampered
\* with, and with a replay policy only once (wba_verifier.py); a token with the
\* issuer, the key and the audience it was issued with (jose.py).
AcceptedAsSigned ==
    /\ part = "request" => /\ Request!TypeOK
                           /\ Request!AcceptedAsSigned
                           /\ Request!NeverAmbiguous
    /\ part = "variants" => BotVariants!TypeOK /\ BotVariants!AcceptedAsSigned
    /\ part = "bot" => Bot!TypeOK /\ Bot!AcceptedOnce
    /\ part = "token" => Tokens!TypeOK /\ Tokens!AcceptedAsIssued

\* Acceptance ends in time, though the clock runs between the first check and the
\* last one: a signature, a response or a token is accepted only within its
\* lifetime; a key that was replaced is accepted for no longer than the caches
\* between its domain and the verifier last, and the key of an OIDC token was
\* still published when its verification began.
AcceptedInTime ==
    /\ part = "age" => RequestAge!TypeOK /\ RequestAge!AcceptedInTime
    /\ part = "variants" => BotVariants!AcceptedInTime
    /\ part = "lifetime" => ResponseLifetime!ReturnedInTime
    /\ part = "bot" => Bot!RetiredKeyAges
    /\ part = "token" => Tokens!RetiredKeyAges /\ Tokens!NotExpiredOnReturn
    /\ part = "oidc" => /\ Oidc!TypeOK
                        /\ Oidc!NotExpiredOnReturn
                        /\ Oidc!KeyPublishedInCall

\* Honest parties are not refused: a request or a token signed and checked within
\* the permitted age and clock skew is not refused for its times, a key that the
\* Web Bot Auth verifier refuses as unknown is no longer the active one, and a new
\* key is known to the token verifier once the old one has left its cache.
HonestAccepted ==
    /\ part = "age" => RequestAge!HonestAccepted
    /\ part = "bot" => Bot!RefusedKeyIsOld
    /\ part = "token" => Tokens!HonestInTime /\ Tokens!NewKeyKnownInTime
    /\ part = "oidc" => Oidc!HonestInTime

\* What leaves an agent is whole, though it may rotate its key meanwhile: the
\* server's response is as the application made it, or carries digest, no-store
\* and a signature by the key it names; the client returns the very response made
\* for its call, and closes every other one it opened; a signed request names the
\* key that signed it, and a served directory is accepted until it leaves the
\* caches; a client assertion is addressed to its issuer, and goes to the
\* configured endpoint or to the issuer's own origin.
SentWhole ==
    /\ part = "response" => /\ Response!TypeOK
                            /\ Response!ReturnedIsAnswer
                            /\ Response!ResponsesClosed
    /\ part = "lifetime" => ResponseLifetime!TypeOK /\ ResponseLifetime!CommitsWhole
    /\ part = "variants" => BotVariants!SignedByNamedKey /\ BotVariants!DirectoryUsable
    /\ part = "exchange" => /\ Exchange!TypeOK
                            /\ Exchange!AssertionGoesHome
                            /\ Exchange!AddressedToIssuer

===============================================================================
