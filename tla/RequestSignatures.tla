-------------------------- MODULE RequestSignatures --------------------------
(***************************************************************************)
(* Signed HTTP requests (HttpSignatureProfile, dnsid/http_signatures.py).  *)
(* A signer stamps a request with the clock, the id of its active key and  *)
(* the components it covers; a second party may add a signature of its own *)
(* under another label and tag.  The request is changed on its way or not, *)
(* and the verifier tries every candidate signature: local checks first,   *)
(* then the identity of the signer, which takes time, then the signature.  *)
(***************************************************************************)
EXTENDS Integers, Sequences, FiniteSets

CONSTANTS
    Domain,      \* signers
    Key,         \* key ids; a domain's keys are <<domain, key>>
    Body,        \* contents of a request
    Target,      \* method, authority and target URI
    Tag,         \* tags that signers use
    RequiredTags, \* values of the verifier's required_tag: tags or None
    RequiredComponents,
    MaxAge, Skew, MaxExpiry, MaxTime,
    Drifts,      \* a signer's clock minus the verifier's clock
    None

VARIABLES
    now,         \* the verifier's clock
    active,      \* domain -> its active key
    rotated,     \* domains that have rotated
    required_tag,
    drift,       \* domain -> how far its clock is ahead
    msg,         \* the request
    signing,     \* the signature being made, or NoSigning
    altered,     \* the request was changed after a signature
    check        \* the verification under way

vars == <<now, active, rotated, required_tag, drift, msg, signing, altered, check>>

NoSigning == [at |-> "none"]
Base == {"target"}

\* What a covered component stands for; the digest is a function of the body
\* that no two bodies share.
Value(m, c) ==
    CASE c = "target" -> m.target
      [] c = "content-digest" -> m.digest
      [] c = "field" -> m.field
Digest(b) == <<"sha-256", b>>

\* The components, their values and the parameters a signature is made over.
SignatureBase(m, p) == [values |-> [c \in p.components |-> Value(m, c)], params |-> p]

Ready == [at |-> "idle", todo |-> <<>>, found |-> None, last |-> None, cand |-> None,
          since |-> 0, until |-> 0]

Init ==
    /\ now = 0 /\ rotated = {} /\ drift \in [Domain -> Drifts] /\ required_tag \in RequiredTags
    /\ active \in {[d \in Domain |-> k] : k \in Key}
    /\ \E b \in Body \cup {None}, t \in Target :
         msg = [target |-> t, body |-> b, digest |-> None, field |-> "x", signatures |-> <<>>]
    /\ signing = NoSigning /\ altered = "no" /\ check = Ready

-----------------------------------------------------------------------------
(* create_signed_http_request                                              *)

Covered(body, extra) ==
    Base \cup extra \cup (IF body = None THEN {} ELSE {"content-digest"})

\* The key id, the time and the components are fixed; a digest header is set.
SignBegin(d, tag, expiry, extra) ==
    /\ signing = NoSigning /\ altered = "no" /\ check = Ready
    /\ expiry \in 1..MaxExpiry /\ expiry <= MaxAge /\ now + drift[d] >= 0
    /\ \A i \in DOMAIN msg.signatures : msg.signatures[i].params.tag # tag
    /\ signing' = [at |-> "begun", params |->
                     [label |-> tag, domain |-> d, kid |-> active[d], created |-> now + drift[d],
                      expires |-> now + drift[d] + expiry, tag |-> tag,
                      components |-> Covered(msg.body, extra)]]
    /\ msg' = IF msg.body = None THEN msg ELSE [msg EXCEPT !.digest = Digest(msg.body)]
    /\ UNCHANGED <<now, active, rotated, required_tag, drift, altered, check>>

\* The provider signs with the key that is active by now; the member of the
\* label is added to the two headers.
SignEnd ==
    /\ signing.at = "begun"
    /\ LET p == signing.params
           s == [params |-> p, by |-> <<p.domain, active[p.domain]>>, over |-> SignatureBase(msg, p)]
       IN  msg' = [msg EXCEPT !.signatures = Append(@, s)]
    /\ signing' = NoSigning
    /\ UNCHANGED <<now, active, rotated, required_tag, drift, altered, check>>

Rotate(d, k) ==
    /\ d \notin rotated /\ k # active[d]
    /\ active' = [active EXCEPT ![d] = k] /\ rotated' = rotated \cup {d}
    /\ UNCHANGED <<now, required_tag, drift, msg, signing, altered, check>>

\* An intermediary rewrites the target, the body, the body with its digest, or
\* drops a field.
Alter ==
    /\ signing = NoSigning /\ altered = "no" /\ check = Ready /\ msg.signatures # <<>>
    /\ altered' = "yes"
    /\ msg' \in {[msg EXCEPT !.target = t] : t \in Target \ {msg.target}}
           \cup {[msg EXCEPT !.body = b] : b \in (Body \cup {None}) \ {msg.body}}
           \cup {[msg EXCEPT !.body = b, !.digest = Digest(b)] : b \in Body \ {msg.body}}
           \cup {[msg EXCEPT !.field = None]}
    /\ UNCHANGED <<now, active, rotated, required_tag, drift, signing, check>>

Tick ==
    /\ now < MaxTime /\ now' = now + 1
    /\ UNCHANGED <<active, rotated, required_tag, drift, msg, signing, altered, check>>

-----------------------------------------------------------------------------
(* verify_signed_http_request                                              *)

\* _signature_candidates: those with the required tag, of which there must be one.
Candidates(m) ==
    SelectSeq(m.signatures, LAMBDA s : required_tag # None => s.params.tag = required_tag)

VerifyBegin ==
    /\ check = Ready /\ signing = NoSigning /\ msg.signatures # <<>>
    /\ check' = IF Candidates(msg) = <<>> THEN [Ready EXCEPT !.at = "raised", !.last = "candidates"]
                ELSE [Ready EXCEPT !.at = "next", !.todo = Candidates(msg)]
    /\ UNCHANGED <<now, active, rotated, required_tag, drift, msg, signing, altered>>

\* _check_freshness
Fresh(p) ==
    /\ now - p.created <= MaxAge /\ p.created <= now + Skew
    /\ p.expires >= p.created /\ now <= p.expires + Skew /\ p.expires - p.created <= MaxAge

\* _check_content_digest
DigestHolds(m, p) ==
    /\ m.body # None => "content-digest" \in p.components
    /\ "content-digest" \in p.components =>
         m.body # None /\ m.digest # None /\ m.digest = Digest(m.body)

\* _verify_candidate_input, for the next candidate.
CandidateInput ==
    /\ check.at = "next" /\ check.todo # <<>>
    /\ LET s == Head(check.todo)
           ok == RequiredComponents \subseteq s.params.components
                 /\ Fresh(s.params) /\ DigestHolds(msg, s.params)
       IN  check' = IF ok THEN [check EXCEPT !.at = "resolving", !.cand = s, !.since = now]
                    ELSE [check EXCEPT !.todo = Tail(@), !.last = "input"]
    /\ UNCHANGED <<now, active, rotated, required_tag, drift, msg, signing, altered>>

\* _verify_candidate_signature: the key is in the signer's key set, every
\* covered component is there, and the key made the signature over them.
SignatureHolds(m, s, keys) ==
    /\ s.params.kid \in keys
    /\ \A c \in s.params.components : Value(m, c) # None
    /\ s.by = <<s.params.domain, s.params.kid>> /\ s.over = SignatureBase(m, s.params)

\* Mutant: a second valid signature is taken as well.
JudgedAny(s) == [check EXCEPT !.at = "next", !.todo = Tail(@), !.found = s, !.cand = None]

\* A candidate holds: two that do are refused.
Judged(s) ==
    IF check.found # None THEN [check EXCEPT !.at = "raised", !.last = "multiple", !.cand = None]
    ELSE [check EXCEPT !.at = "next", !.todo = Tail(@), !.found = s, !.cand = None]

\* The signer's identity is resolved, with its active key, or with the one
\* before where the result was cached; or it is not.
CandidateResolved ==
    /\ check.at = "resolving"
    /\ LET s == check.cand
       IN  \/ \E keys \in {{active[s.params.domain]}} \cup
                          (IF s.params.domain \in rotated THEN {{s.params.kid}} ELSE {}) :
                check' = IF SignatureHolds(msg, s, keys) THEN Judged(s)
                         ELSE [check EXCEPT !.at = "next", !.todo = Tail(@), !.last = "signature",
                                            !.cand = None]
           \/ check' = [check EXCEPT !.at = "next", !.todo = Tail(@), !.last = "resolver",
                                     !.cand = None]
    /\ UNCHANGED <<now, active, rotated, required_tag, drift, msg, signing, altered>>

VerifyEnd ==
    /\ check.at = "next" /\ check.todo = <<>>
    /\ check' = [check EXCEPT !.at = IF check.found # None THEN "returned" ELSE "raised",
                              !.until = now]
    /\ UNCHANGED <<now, active, rotated, required_tag, drift, msg, signing, altered>>

Next ==
    \/ \E d \in Domain, tag \in Tag, e \in 1..MaxExpiry, extra \in SUBSET {"field"} :
         SignBegin(d, tag, e, extra)
    \/ \E d \in Domain, k \in Key : Rotate(d, k)
    \/ SignEnd \/ Alter \/ Tick
    \/ VerifyBegin \/ CandidateInput \/ CandidateResolved \/ VerifyEnd

Spec == Init /\ [][Next]_vars

-----------------------------------------------------------------------------

TypeOK ==
    /\ now \in 0..MaxTime /\ active \in [Domain -> Key] /\ altered \in {"no", "yes"}
    /\ check.at \in {"idle", "next", "resolving", "returned", "raised"}
    /\ msg.body \in Body \cup {None} /\ Len(msg.signatures) <= Cardinality(Tag)
    /\ check.at = "raised" => check.last # None

\* A request that verifies is the one its signer signed: the same target and
\* the same content, and no content that the signer did not cover.
AcceptedAsSigned ==
    check.at = "returned" =>
        LET s == check.found
        IN  /\ s.by[1] = s.params.domain
            /\ s.over.values["target"] = msg.target
            /\ IF "content-digest" \in s.params.components
               THEN msg.body # None /\ s.over.values["content-digest"] = Digest(msg.body)
               ELSE msg.body = None

\* The age of the signature is at most the configured maximum when the
\* identity is looked up, by the clock of the verifier.
AcceptedInTime == check.at = "returned" => check.since - check.found.params.created <= MaxAge

\* Where the verifier asks for no tag and a request carries the valid
\* signatures of two parties, it accepts neither.
NeverAmbiguous == check.at = "returned" /\ check.last = None => Len(Candidates(msg)) = 1

\* A request that nobody changed, whose only candidate was signed with the
\* key it names and reached the verifier before it expired, is refused only
\* because its signer cannot be resolved or has another key by then; the
\* clocks may differ by the skew.
HonestAccepted ==
    check.at = "raised" /\ altered = "no" /\ Len(Candidates(msg)) = 1 =>
        LET s == Candidates(msg)[1]
        IN  s.by[2] = s.params.kid /\ RequiredComponents \subseteq s.params.components
            /\ now - s.params.created <= MaxAge /\ now <= s.params.expires + Skew
            => check.last = "resolver" \/ s.params.domain \in rotated

===============================================================================
