-------------------------- MODULE NegotiatedResponses --------------------------
(***************************************************************************)
(* Negotiated response signatures (dnsid/http_signatures.py and            *)
(* dnsid/_negotiated_http_client.py).  A client signs a request that asks  *)
(* for a signed answer to a fresh nonce, and keeps a snapshot of it.  The  *)
(* server stages a signed copy of its response and commits it at the end.  *)
(* Answers may be exchanged between calls, repeated or changed on the way; *)
(* the client returns one only after verifying it against its snapshot,    *)
(* and closes every other.  Time passes at every step and keys rotate.     *)
(***************************************************************************)
EXTENDS Integers, Sequences, FiniteSets

CONSTANTS
    Call,        \* requests of the client; a call stands for its nonce and target
    Key, FirstKey, \* the server's keys and the first active one
    Content,     \* bodies of responses
    Lifetime,    \* _RESPONSE_SIGNATURE_LIFETIME
    Skew, MaxAge, Budget,
    MaxTime, MaxAlterations, MaxRotations,
    None

VARIABLES
    now,
    active,      \* the server's active key
    served,      \* call -> the response of the server, while it is made
    wire,        \* responses on their way
    call,        \* call -> the state of the client's invocation
    opened, closed, \* calls that received a response, and that closed it
    streams,     \* calls whose request stream is still open
    alterations, rotations

vars == <<now, active, served, wire, call, opened, closed, streams, alterations, rotations>>

\* The client's policy: does it cover Content-Encoding?
Policy == {"plain", "coded"}

Unsigned(c, content) ==
    [content |-> content, coding |-> "identity", digest |-> None, cache |-> "plain", sig |-> None]

\* The signature over the request that asked for it and the covered fields.
Over(c, r, components) ==
    [nonce |-> c, digest |-> r.digest, cache |-> r.cache,
     coding |-> IF "content-encoding" \in components THEN r.coding ELSE None]

Waiting == [at |-> "idle", since |-> 0, policy |-> None, response |-> None]

Init ==
    /\ now = 0 /\ active = FirstKey
    /\ served = [c \in Call |-> [at |-> "idle"]] /\ wire = {}
    /\ call = [c \in Call |-> Waiting] /\ opened = {} /\ closed = {} /\ streams = {}
    /\ alterations = 0 /\ rotations = 0

client == <<call, opened, closed, streams>>

-----------------------------------------------------------------------------
(* The client prepares and sends                                           *)

\* The policy is copied, the request is signed with Accept-Signature and a
\* fresh nonce, and a copy of it is kept.
Send(c, p) ==
    /\ call[c].at = "idle"
    /\ call' = [call EXCEPT ![c] = [at |-> "sent", since |-> now, policy |-> p, response |-> None]]
    /\ streams' = streams \cup {c}
    /\ UNCHANGED <<now, active, served, wire, opened, closed, alterations, rotations>>

Components(c) == IF call[c].policy = "coded" THEN {"content-encoding"} ELSE {}

\* What both sides read in the Accept-Signature field of the request.
Challenge(c) == [nonce |-> c, components |-> Components(c)]

-----------------------------------------------------------------------------
(* sign_requested_http_response                                            *)

\* The request arrives; the response is staged with its digest and no-store,
\* and the key is read.
Stage(c, content, coding) ==
    /\ call[c].at # "idle" /\ served[c].at = "idle"
    /\ LET r == [Unsigned(c, content) EXCEPT !.coding = coding]
           staged == [r EXCEPT !.digest = <<"sha-256", content>>, !.cache = "no-store"]
       IN  served' = [served EXCEPT ![c] =
               [at |-> "staged", response |-> r, staged |-> staged, kid |-> active, created |-> now,
                components |-> Challenge(c).components]]
    /\ UNCHANGED <<now, active, wire, client, alterations, rotations>>

\* Mutant: the signature is not verified with the key that was read.
KeyKeptAny(s) == TRUE

\* The key that signs is the key that was read: the signature verifies with it.
KeyKept(s) == active = s.kid

\* The provider signs. When the key changed or the signature has expired by
\* then, the call raises and the response stays as it was.
Sign(c) ==
    /\ served[c].at = "staged"
    /\ LET s == served[c]
           sig == [kid |-> s.kid, by |-> active, created |-> s.created,
                   expires |-> s.created + Lifetime, components |-> s.components,
                   over |-> Over(c, s.staged, s.components)]
       IN  IF KeyKept(s) /\ now < s.created + Lifetime
           THEN served' = [served EXCEPT ![c] =
                  [at |-> "final", response |-> [s.staged EXCEPT !.sig = sig]]]
           ELSE served' = [served EXCEPT ![c] = [at |-> "final", response |-> s.response]]
    /\ UNCHANGED <<now, active, wire, client, alterations, rotations>>

\* The response is sent, signed or not.
Respond(c) ==
    /\ served[c].at = "final"
    /\ wire' = wire \cup {served[c].response}
    /\ served' = [served EXCEPT ![c] = [at |-> "done"]]
    /\ UNCHANGED <<now, active, client, alterations, rotations>>

Rotate(k) ==
    /\ rotations < MaxRotations /\ k # active
    /\ active' = k /\ rotations' = rotations + 1
    /\ UNCHANGED <<now, served, wire, client, alterations>>

\* An intermediary changes the body, the coding or the cache field.
Alter(r) ==
    /\ alterations < MaxAlterations /\ alterations' = alterations + 1
    /\ \E x \in {[r EXCEPT !.content = b] : b \in Content} \cup
                {[r EXCEPT !.coding = "gzip"], [r EXCEPT !.cache = "plain"]} :
         wire' = wire \cup {x}
    /\ UNCHANGED <<now, active, served, client, rotations>>

Tick ==
    /\ now < MaxTime /\ now' = now + 1
    /\ UNCHANGED <<active, served, wire, client, alterations, rotations>>

-----------------------------------------------------------------------------
(* The client receives and verifies                                        *)

\* An error closes the response, if there is one, and the request stream.
Fail(c) ==
    /\ call' = [call EXCEPT ![c].at = "failed"]
    /\ closed' = IF c \in opened THEN closed \cup {c} ELSE closed
    /\ streams' = streams \ {c} /\ UNCHANGED opened

InBudget(c) == now - call[c].since < Budget

\* A response comes back: the one of this call, of another, or a repeated one.
Receive(c, r) ==
    /\ call[c].at = "sent" /\ InBudget(c)
    /\ call' = [call EXCEPT ![c].at = "received", ![c].response = r]
    /\ opened' = opened \cup {c}
    /\ UNCHANGED <<now, active, served, wire, closed, streams, alterations, rotations>>

\* _check_response_freshness
Fresh(sig) ==
    /\ sig.expires - sig.created \in 1..Lifetime
    /\ now - sig.created <= MaxAge /\ sig.created <= now + Skew
    /\ now <= sig.expires + Skew

\* _response_verification_input: the requested signature is there, covers what
\* the saved challenge asks for, with its nonce, and is fresh.
InputHolds(c, r) ==
    /\ r.sig # None /\ Fresh(r.sig)
    /\ Challenge(c) = [nonce |-> r.sig.over.nonce, components |-> r.sig.components]

CheckInput(c) ==
    /\ call[c].at = "received"
    /\ IF InBudget(c) /\ InputHolds(c, call[c].response)
       THEN call' = [call EXCEPT ![c].at = "resolving"] /\ UNCHANGED <<opened, closed, streams>>
       ELSE Fail(c)
    /\ UNCHANGED <<now, active, served, wire, alterations, rotations>>

\* _finish_response_verification; the request part of the base is the
\* client's snapshot.
FinishHolds(c, r, keys) ==
    /\ r.sig.kid \in keys /\ r.sig.by = r.sig.kid
    /\ r.sig.over = Over(c, r, r.sig.components)
    /\ r.digest = <<"sha-256", r.content>> /\ r.cache = "no-store"
    /\ Fresh(r.sig)

\* _restore decodes the body only where the signature covers its coding.
Restored(c, r) == r.coding = "identity" \/ "content-encoding" \in Components(c)

\* The server's identity is resolved, with the current or a cached key set.
CheckSignature(c) ==
    /\ call[c].at = "resolving"
    /\ \E keys \in {{active}, {FirstKey}} :
         LET r == call[c].response
         IN  IF FinishHolds(c, r, keys) /\ Restored(c, r) /\ InBudget(c)
             THEN /\ call' = [call EXCEPT ![c].at = "returned", ![c].since = now]
                  /\ streams' = streams \ {c} /\ UNCHANGED <<opened, closed>>
             ELSE Fail(c)
    /\ UNCHANGED <<now, active, served, wire, alterations, rotations>>

\* The transport fails, the resolver fails, the budget is spent or the task is
\* cancelled.
Abort(c) ==
    /\ call[c].at \in {"sent", "received", "resolving"}
    /\ Fail(c)
    /\ UNCHANGED <<now, active, served, wire, alterations, rotations>>

Next ==
    \/ \E c \in Call :
         \/ \E p \in Policy : Send(c, p)
         \/ \E b \in Content, g \in {"identity", "gzip"} : Stage(c, b, g)
         \/ Sign(c) \/ Respond(c) \/ CheckInput(c) \/ CheckSignature(c) \/ Abort(c)
         \/ \E r \in wire : Receive(c, r)
    \/ \E k \in Key : Rotate(k)
    \/ \E r \in wire : Alter(r)
    \/ Tick

Spec == Init /\ [][Next]_vars

-----------------------------------------------------------------------------

TypeOK ==
    /\ now \in 0..MaxTime /\ active \in Key
    /\ \A c \in Call : call[c].at \in {"idle", "sent", "received", "resolving", "returned", "failed"}
    /\ closed \subseteq opened /\ opened \subseteq Call

\* The response a call returns was signed for that call and no other, and has
\* the content, and where it is decoded the coding, that the server signed.
ReturnedIsAnswer ==
    \A c \in Call : call[c].at = "returned" =>
        LET r == call[c].response
        IN  /\ r.sig.over.nonce = c
            /\ r.sig.over.digest = <<"sha-256", r.content>>
            /\ r.coding # "identity" => r.sig.over.coding = r.coding

\* The signature had not expired, with the skew, when the response was
\* returned, however long the resolver took.
ReturnedInTime ==
    \A c \in Call : call[c].at = "returned" =>
        call[c].since <= call[c].response.sig.expires + Skew

\* A call that does not return its response has closed it ("Rejected/cancelled
\* responses are closed"), a response that is returned is open, and the
\* request stream is closed with the call.
ResponsesClosed ==
    \A c \in Call :
        /\ call[c].at = "failed" => (c \in opened => c \in closed)
        /\ call[c].at = "returned" => c \in opened \ closed
        /\ call[c].at \in {"failed", "returned"} => c \notin streams

\* What the server commits is all or nothing: a response is as the application
\* made it, or has a digest, no-store and a signature that verifies with the
\* key it names, although the key may rotate meanwhile.
CommitsWhole ==
    \A c \in Call : served[c].at = "final" =>
        LET r == served[c].response
        IN  IF r.sig = None THEN r.digest = None /\ r.cache = "plain"
            ELSE /\ r.sig.by = r.sig.kid /\ r.digest # None /\ r.cache = "no-store"
                 /\ r.sig.over = Over(c, r, r.sig.components)

===============================================================================
