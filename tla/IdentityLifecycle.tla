--------------------------- MODULE IdentityLifecycle ---------------------------
(***************************************************************************)
(* What the verified history of one identity may look like, whatever log   *)
(* it was read from: the identity is established once, under the key the   *)
(* verifier trusts for its entity; its operational key then moves only     *)
(* from the active key to a different one, never to the entity key; and    *)
(* revocation and retirement are final.                                    *)
(***************************************************************************)
CONSTANTS
    Key,      \* public keys
    None

VARIABLES
    trusted,      \* the entity key the verifier pins, or None: given, not changed
    status,       \* "none", "ACTIVE", "REVOKED" or "RETIRED"
    entity,       \* the entity key, None until established
    operational   \* the active operational key, None until established

lifecycleVars == <<trusted, status, entity, operational>>

Init == status = "none" /\ entity = None /\ operational = None

\* An ISSUANCE, or a MIGRATION that hands over an ACTIVE identity.
Establish(k, o) ==
    /\ status = "none"
    /\ trusted \in {None, k}
    /\ k # o
    /\ status' = "ACTIVE" /\ entity' = k /\ operational' = o /\ UNCHANGED trusted

Rotate(o) ==
    /\ status = "ACTIVE"
    /\ o \notin {operational, entity}
    /\ operational' = o
    /\ UNCHANGED <<trusted, status, entity>>

End(s) ==
    /\ status = "ACTIVE"
    /\ status' = s
    /\ UNCHANGED <<trusted, entity, operational>>

Next ==
    \/ \E k, o \in Key : Establish(k, o)
    \/ \E o \in Key : Rotate(o)
    \/ End("REVOKED")
    \/ End("RETIRED")

Spec == Init /\ [][Next]_lifecycleVars

===============================================================================
