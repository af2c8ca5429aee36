--------------------------- MODULE OidcExchange ---------------------------
(***************************************************************************)
(* The token exchange of the OIDC profile (src/dnsid/oidc.py):             *)
(* exchange_oidc_token finds the issuer and the token endpoint from the    *)
(* options, the defaults or discovery, takes the caller's assertion or     *)
(* signs one, and posts it.                                                *)
(*                                                                         *)
(* An issuer and the origin it lives on are one value.  The server URL,    *)
(* the discovery URL and the token endpoint that a caller configures live  *)
(* on Gateway, an origin of the caller's choice.  What a discovery         *)
(* endpoint answers is up to it.                                           *)
(***************************************************************************)
EXTENDS Naturals, FiniteSets

CONSTANTS Exchange,     \* calls
          Issuer,       \* issuers, each its own origin
          Gateway,      \* origin of the configured URLs
          Malformed,    \* an issuer value that is not a valid issuer URL
          None

\* What the constants must be.
ExchangeAssumption == Gateway \notin Issuer /\ Malformed \notin Issuer

VARIABLES call

\* What the options and the configuration give, after their defaults.
Options == [issuer : Issuer \cup {None}, server : BOOLEAN, discovery : BOOLEAN,
            endpoint : BOOLEAN, assertion : Issuer \cup {None}]

\* A discovery document.
Document == [issuer : Issuer \cup {Malformed},
             token : Issuer \cup {Gateway}, jwks : Issuer \cup {Gateway}]

NewCall == [pc |-> "idle", opts |-> None, issuer |-> None, endpoint |-> None,
            asked |-> None, posted |-> None]

TypeOK ==
    \A x \in Exchange :
        /\ call[x].pc \in {"idle", "discover", "post", "answer", "done", "error"}
        /\ call[x].issuer \in Issuer \cup {None}
        /\ call[x].endpoint \in Issuer \cup {Gateway, None}

Init == call = [x \in Exchange |-> NewCall]

Error(c) == [c EXCEPT !.pc = "error"]

\* Which discovery the target needs: of the issuer alone, of the whole document,
\* none, or the options do not say enough.
Lookup(o) ==
    IF o.server /\ o.issuer = None THEN "issuer"
    ELSE IF o.discovery THEN "document"
    ELSE IF o.issuer = None THEN "missing"
    ELSE IF ~o.endpoint /\ ~o.server THEN "document"
    ELSE "none"

\* Where the assertion goes: the configured endpoint first, then the configured
\* server, then the endpoint that was discovered.
Endpoint(o, discovered) == IF o.endpoint \/ o.server THEN Gateway ELSE discovered

\* _discover_oidc_document: the issuer is well formed and the expected one, and
\* both endpoints are on its origin.
Sound(o, d) ==
    /\ d.issuer # Malformed
    /\ o.issuer \in {None, d.issuer}
    /\ d.token = d.issuer /\ d.jwks = d.issuer

\* exchange_oidc_token until a discovery document is needed.
Begin(x, o) ==
    /\ call[x].pc = "idle"
    /\ LET c == [NewCall EXCEPT !.opts = o, !.asked = Lookup(o)]
       IN call' = [call EXCEPT ![x] =
            CASE Lookup(o) = "missing" -> Error(c)
              [] Lookup(o) = "none" -> [c EXCEPT !.pc = "post", !.issuer = o.issuer,
                                                 !.endpoint = Endpoint(o, None)]
              [] OTHER -> [c EXCEPT !.pc = "discover"]]

\* mint_oidc_token and get_oidc_token: a supplied assertion is ignored.
Mint(x, o) == o.assertion # None /\ Begin(x, [o EXCEPT !.assertion = None])

\* The document answers; only its issuer is read when a server URL is configured.
IssuerOnly(x, d) ==
    /\ call[x].pc = "discover" /\ call[x].asked = "issuer"
    /\ LET c == call[x]
       IN call' = [call EXCEPT ![x] =
            IF d.issuer = Malformed THEN Error(c)
            ELSE [c EXCEPT !.pc = "post", !.issuer = d.issuer,
                           !.endpoint = Endpoint(c.opts, None)]]

Discovered(x, d) ==
    /\ call[x].pc = "discover" /\ call[x].asked = "document"
    /\ LET c == call[x]
       IN call' = [call EXCEPT ![x] =
            IF Sound(c.opts, d)
            THEN [c EXCEPT !.pc = "post", !.issuer = d.issuer,
                           !.endpoint = Endpoint(c.opts, d.token)]
            ELSE Error(c)]

\* The audience of the assertion to send: the caller's, if it is the issuer, or
\* a new one made for the issuer; None is an ArgumentError.
Assertion(c) ==
    IF c.opts.assertion = None THEN c.issuer
    ELSE IF c.opts.assertion = c.issuer THEN c.opts.assertion ELSE None

Post(x) ==
    /\ call[x].pc = "post"
    /\ LET c == call[x]
       IN call' = [call EXCEPT ![x] =
            IF Assertion(c) = None THEN Error(c)
            ELSE [c EXCEPT !.pc = "answer",
                           !.posted = [aud |-> Assertion(c), to |-> c.endpoint]]]

\* A bearer token comes back; everything else is an error.
Answer(x, answer) ==
    /\ call[x].pc = "answer"
    /\ call' = [call EXCEPT ![x].pc = IF answer = "bearer" THEN "done" ELSE "error"]

\* Discovery cannot be reached, redirects or is not a JSON object.
Unreachable(x) ==
    /\ call[x].pc = "discover"
    /\ call' = [call EXCEPT ![x] = Error(@)]

Next ==
    \E x \in Exchange :
        \/ \E o \in Options : Begin(x, o) \/ Mint(x, o)
        \/ \E d \in Document : IssuerOnly(x, d) \/ Discovered(x, d)
        \/ Post(x) \/ Unreachable(x)
        \/ \E a \in {"bearer", "oauth-error", "malformed"} : Answer(x, a)

Spec == Init /\ [][Next]_call

---------------------------------------------------------------------------
(* Properties *)

Sent == {x \in Exchange : call[x].posted # None}

\* An assertion is posted only to an endpoint the caller configured or one on
\* the origin of the issuer it is addressed to: no document can send it on.
AssertionGoesHome ==
    \A x \in Sent :
        LET p == call[x].posted
        IN IF call[x].opts.endpoint \/ call[x].opts.server THEN p.to = Gateway
           ELSE p.to = p.aud

\* What is posted is addressed to one well-formed issuer, which is the caller's
\* whenever the caller names one.
AddressedToIssuer ==
    \A x \in Sent :
        /\ call[x].posted.aud = call[x].issuer
        /\ call[x].opts.issuer \in {None, call[x].posted.aud}

=============================================================================
