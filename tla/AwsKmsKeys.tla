------------------------------ MODULE AwsKmsKeys ------------------------------
(***************************************************************************)
(* AwsKmsKeyProvider (dnsid/aws_kms_key_provider.py): keys live in AWS KMS *)
(* under canonical ids, are named by aliases that operators re-point, and  *)
(* are published under their thumbprint.  The provider keeps the roles of  *)
(* the keys and two caches; the caller persists the roles.  One thread     *)
(* signs while another manages keys, KMS calls fail or lose their answer,  *)
(* and the process restarts from what the caller saved.                    *)
(***************************************************************************)
EXTENDS Naturals, FiniteSets

CONSTANTS
    KmsKey, Alias,
    Thumb,        \* KMS key -> thumbprint of its public key
    None,
    Initial,      \* configurations: roles of aliases and KMS keys
    Enabled,      \* KMS keys that exist at first
    FirstAlias,   \* alias -> KMS key, at first
    MaxCrashes, MaxRepoints, MaxSignatures  \* bounds

Kid == {Thumb[k] : k \in KmsKey}

\* References and roles.
Ref == KmsKey \cup Alias
Roles == [active : Ref \cup {None}, retained : SUBSET Ref, pending : SUBSET Ref]
Refs(s) == ({s.active} \ {None}) \cup s.retained \cup s.pending
OneRole(s) == s.active \notin s.retained \cup s.pending /\ s.retained \cap s.pending = {}

\* The KMS key a reference stands for, the aliases standing for the keys in at.
Target(at, r) == IF r \in Alias THEN at[r] ELSE r

\* What is configured first names KMS keys that exist, each public key once.
AwsAssumption ==
    /\ None \notin Ref \cup Kid /\ KmsKey \cap Alias = {} /\ Enabled \subseteq KmsKey
    /\ FirstAlias \in [Alias -> Enabled]
    /\ \A s \in Initial :
         /\ s \in Roles /\ OneRole(s)
         /\ \A r, q \in Refs(s) :
              /\ Target(FirstAlias, r) \in Enabled
              /\ Thumb[Target(FirstAlias, r)] = Thumb[Target(FirstAlias, q)] => r = q

VARIABLES
    schedule, \* schedule_key_deletion_on_supersede: "delete" or "keep"
    kms,      \* KMS key -> "absent", "enabled", "deleting"
    alias,    \* alias -> the KMS key it stands for now
    state,    \* the roles, of references (AwsKmsKeyState)
    jwks,     \* _jwk_cache: reference -> thumbprint of the cached public key
    bound,    \* _kms_key_ids: thumbprint -> KMS key
    saved,    \* the roles the caller passes to the next load
    admin,    \* the management call under way
    signer,   \* the signing call under way
    \* what happened, for the properties
    savedKids, \* thumbprints in saved, by role, when the caller saved it
    given,    \* signatures returned: thumbprint asked for and KMS key used
    named,    \* created KMS keys an error told the caller of
    gone,     \* KMS keys superseded, or forgotten in a restart
    forced,   \* KMS keys superseded as the active key
    crashes, repoints

settled == <<schedule, crashes, repoints>>
work == <<state, jwks, bound, admin>>
ghosts == <<savedKids, given, named, gone, forced>>
vars == <<kms, alias, saved, signer, settled, work, ghosts>>

Call(op, kid, key) == [op |-> op, kid |-> kid, key |-> key]
Idle == Call("idle", None, None)
Unsaved == Call("unsaved", None, None)
Loading == Call("load", None, None)
Quiet == [at |-> "idle", kid |-> None, key |-> None]

Canonical(r) == Target(alias, r)

\* The thumbprints of the keys that the roles name at present.
KidOf(k) == IF k = None THEN None ELSE Thumb[Canonical(k)]
Kids(s) == [active |-> KidOf(s.active), retained |-> {KidOf(k) : k \in s.retained},
            pending |-> {KidOf(k) : k \in s.pending}]

Init ==
    /\ schedule \in {"delete", "keep"}
    /\ kms = [k \in KmsKey |-> IF k \in Enabled THEN "enabled" ELSE "absent"]
    /\ alias = FirstAlias
    /\ saved \in Initial /\ state = saved
    /\ jwks = <<>> /\ bound = <<>> /\ admin = Loading /\ signer = Quiet
    /\ savedKids = IF Refs(saved) \subseteq KmsKey THEN Kids(saved) ELSE None
    /\ given = {} /\ named = {} /\ gone = {} /\ forced = {}
    /\ crashes = 0 /\ repoints = 0

-----------------------------------------------------------------------------
(* load and the public key cache                                           *)

\* _public_jwk accepts what KMS answers for the key, unless its thumbprint is
\* bound to another KMS key.
MayBind(k) ==
    /\ kms[k] = "enabled"
    /\ Thumb[k] \in DOMAIN bound => bound[Thumb[k]] = k

Bind(r, k) ==
    /\ jwks' = [x \in DOMAIN jwks \cup {r, k} |-> IF x \in {r, k} THEN Thumb[k] ELSE jwks[x]]
    /\ bound' = [i \in DOMAIN bound \cup {Thumb[k]} |-> IF i = Thumb[k] THEN k ELSE bound[i]]

\* Mutant: the reference stays as it was configured.
ResolvedNot(s, r, k) == s

\* The roles with the reference replaced by its canonical id.
Resolved(s, r, k) ==
    LET to(x) == IF x = r THEN k ELSE x
    IN  [active |-> to(s.active), retained |-> {to(x) : x \in s.retained},
         pending |-> {to(x) : x \in s.pending}]

\* load asks KMS for one configured reference after another; one that is in the
\* cache needs no call.
LoadOne(r) ==
    /\ admin.op = "load" /\ r \in Refs(state) \ DOMAIN jwks
    /\ MayBind(Canonical(r)) /\ Bind(r, Canonical(r))
    /\ state' = Resolved(state, r, Canonical(r))
    /\ UNCHANGED <<kms, alias, saved, admin, signer, settled, ghosts>>

Loaded ==
    /\ admin.op = "load" /\ Refs(state) \subseteq DOMAIN jwks
    /\ admin' = Idle
    /\ UNCHANGED <<kms, alias, state, jwks, bound, saved, signer, settled, ghosts>>

\* An answer is missing or refused, and load raises; the caller loads again.
LoadFails ==
    /\ admin.op = "load" /\ DOMAIN jwks # {}
    /\ admin' = Loading /\ state' = saved /\ jwks' = <<>> /\ bound' = <<>>
    /\ UNCHANGED <<kms, alias, saved, signer, settled, ghosts>>

\* The caller persists state_snapshot(), after every change and when it likes.
Save ==
    /\ admin \in {Idle, Unsaved} /\ saved # state
    /\ saved' = state /\ savedKids' = Kids(state) /\ admin' = Idle
    /\ UNCHANGED <<kms, alias, state, jwks, bound, signer, given, named, gone, forced, settled>>

-----------------------------------------------------------------------------
(* generate_key, activate, supersede                                       *)

\* create_signing_key; its answer may be lost.
Create(k) ==
    /\ admin = Idle /\ kms[k] = "absent"
    /\ kms' = [kms EXCEPT ![k] = "enabled"]
    /\ \/ admin' = Call("generate_key", None, k) /\ UNCHANGED gone
       \/ UNCHANGED admin /\ gone' = gone \cup {k}
    /\ UNCHANGED <<alias, state, jwks, bound, saved, signer, savedKids, given, named, forced,
                   settled>>

\* The public key of the new KMS key is read and the key is pending, or the
\* call raises with its id.
ReadCreated ==
    /\ admin.op = "generate_key"
    /\ \/ /\ MayBind(admin.key) /\ Bind(admin.key, admin.key)
          /\ admin' = Unsaved /\ state' = [state EXCEPT !.pending = @ \cup {admin.key}]
          /\ UNCHANGED named
       \/ named' = named \cup {admin.key} /\ admin' = Idle /\ UNCHANGED <<state, jwks, bound>>
    /\ UNCHANGED <<kms, alias, saved, signer, savedKids, given, gone, forced, settled>>

Activate(k) ==
    /\ admin = Idle /\ k \in state.pending
    /\ state' = [active |-> bound[jwks[k]],
                 retained |-> state.retained \cup ({state.active} \ {None}),
                 pending |-> state.pending \ {k}]
    /\ admin' = Unsaved
    /\ UNCHANGED <<kms, alias, jwks, bound, saved, signer, settled, ghosts>>

\* The active key only where the caller allows it.
MaySupersede(k, allow_active) ==
    \/ k = state.active /\ allow_active
    \/ k # state.active /\ k \in state.retained

Supersede(k, allow_active) ==
    /\ admin = Idle /\ MaySupersede(k, allow_active)
    /\ admin' = Call(IF schedule = "delete" THEN "schedule" ELSE "drop", jwks[k], k)
    /\ forced' = IF allow_active THEN forced \cup {k} ELSE forced
    /\ UNCHANGED <<kms, alias, state, jwks, bound, saved, signer, savedKids, given, named, gone,
                   settled>>

\* schedule_key_deletion, before the roles change; when it raises, done or
\* not, they do not.
ScheduleDeletion ==
    /\ admin.op = "schedule"
    /\ \/ /\ kms[bound[admin.kid]] = "enabled"
          /\ kms' = [kms EXCEPT ![bound[admin.kid]] = "deleting"]
          /\ admin' \in {[admin EXCEPT !.op = "drop"], Idle}
       \/ UNCHANGED kms /\ admin' = Idle
    /\ UNCHANGED <<alias, state, jwks, bound, saved, signer, settled, ghosts>>

Drop ==
    /\ admin.op = "drop"
    /\ state' = IF state.active = admin.key THEN [state EXCEPT !.active = None]
                ELSE [state EXCEPT !.retained = @ \ {admin.key}]
    /\ jwks' = [r \in DOMAIN jwks \ {admin.key, bound[admin.kid]} |-> jwks[r]]
    /\ bound' = [i \in DOMAIN bound \ {admin.kid} |-> bound[i]]
    /\ admin' = Unsaved /\ gone' = gone \cup {admin.key}
    /\ UNCHANGED <<kms, alias, saved, signer, savedKids, given, named, forced, settled>>

-----------------------------------------------------------------------------
(* sign and sign_key                                                       *)

\* sign takes the thumbprint of the active key; sign_key gets it.
SignBegin(kid) ==
    /\ admin.op # "load" /\ signer = Quiet /\ Cardinality(given) < MaxSignatures
    /\ signer' = [Quiet EXCEPT !.at = "begun", !.kid = kid]
    /\ UNCHANGED <<kms, alias, saved, work, settled, ghosts>>

SigningKey(kid) == bound[kid]

\* The key must be active or pending now.
SignSend ==
    /\ signer.at = "begun"
    /\ \E k \in ({state.active} \ {None}) \cup state.pending : jwks[k] = signer.kid
    /\ signer' = [signer EXCEPT !.at = "sent", !.key = SigningKey(signer.kid)]
    /\ UNCHANGED <<kms, alias, saved, work, settled, ghosts>>

SignAnswered ==
    /\ signer.at = "sent" /\ kms[signer.key] = "enabled"
    /\ given' = given \cup {<<signer.kid, signer.key>>} /\ signer' = Quiet
    /\ UNCHANGED <<kms, alias, saved, work, savedKids, named, gone, forced, settled>>

\* No key in a signing role, a payload too large, a failed or refused answer.
SignRaises ==
    /\ signer.at # "idle" /\ signer' = Quiet
    /\ UNCHANGED <<kms, alias, saved, work, settled, ghosts>>

-----------------------------------------------------------------------------
(* The operator points an alias at a key that has no role yet; the process *)
(* ends and is started again.                                              *)

Repoint(a, k) ==
    /\ repoints < MaxRepoints /\ kms[k] = "enabled" /\ alias[a] # k
    /\ k \notin {Canonical(r) : r \in Refs(state) \cup Refs(saved)} \cup {admin.key}
    /\ alias' = [alias EXCEPT ![a] = k] /\ repoints' = repoints + 1
    /\ UNCHANGED <<schedule, kms, saved, work, signer, ghosts, crashes>>

Restart ==
    /\ crashes < MaxCrashes /\ crashes' = crashes + 1
    /\ state' = saved /\ jwks' = <<>> /\ bound' = <<>> /\ admin' = Loading /\ signer' = Quiet
    /\ gone' = gone \cup Refs(state) \cup ({admin.key} \ {None})
    /\ UNCHANGED <<schedule, kms, alias, saved, savedKids, given, named, forced, repoints>>

Next ==
    \/ \E r \in Refs(state) : LoadOne(r)
    \/ Loaded \/ LoadFails \/ Save \/ ReadCreated \/ ScheduleDeletion \/ Drop
    \/ \E k \in KmsKey : Create(k) \/ Activate(k) \/ \E a \in BOOLEAN : Supersede(k, a)
    \/ \E kid \in Kid : SignBegin(kid)
    \/ SignSend \/ SignAnswered \/ SignRaises
    \/ \E a \in Alias, k \in KmsKey : Repoint(a, k)
    \/ Restart

Spec == Init /\ [][Next]_vars

-----------------------------------------------------------------------------

TypeOK ==
    /\ \A k \in KmsKey : kms[k] \in {"absent", "enabled", "deleting"}
    /\ Refs(state) \subseteq KmsKey \cup Alias /\ Refs(saved) \subseteq KmsKey \cup Alias
    /\ DOMAIN jwks \subseteq KmsKey \cup Alias /\ DOMAIN bound \subseteq Kid

\* A signature returned for a thumbprint was made by the KMS key with that
\* public key, wherever the aliases point by then (sign_key, _public_jwk).
SignedByKid == \A g \in given : Thumb[g[2]] = g[1]

\* A restart finds the keys that were saved in their roles, whatever aliases
\* were re-pointed since: load leaves canonical ids in the state.
RestartKeepsKeys ==
    admin.op = "idle" /\ state = saved /\ savedKids # None => Kids(state) = savedKids

\* Outside load the roles hold only KMS keys that the cache can name, each
\* bound to its own thumbprint: no role costs another KMS call, and two KMS
\* keys with the same public key are never held at once.
RolesAreBound ==
    admin.op # "load" =>
        \A k \in Refs(state) : k \in KmsKey /\ k \in DOMAIN jwks /\ jwks[k] \in DOMAIN bound
                               /\ bound[jwks[k]] = k

\* A KMS key that was created and told to the provider is in a role, was named
\* to the caller, or was superseded (generate_key).
KeysAccounted ==
    \A k \in KmsKey \ Enabled :
        kms[k] # "absent" => k \in Refs(state) \cup named \cup gone \cup {admin.key}

\* The deletion of a key that signs is never scheduled, unless the caller
\* allowed it for the active key (supersede).
DeletesOnlyRetired ==
    \A k \in KmsKey : kms[k] = "deleting" =>
        k \notin state.pending /\ (k = state.active => k \in forced)

\* The roles, by thumbprint, behave as every provider promises, once the caller
\* has saved them under the canonical ids that load left in them.
KR == INSTANCE KeyRing WITH Kid <- Kid, None <- None, ring <- Kids(state), saved <- Kids(saved)
Plain == Refs(saved) \subseteq KmsKey
RefinesKeyRing == (Plain => KR!Init) /\ [][Plain => KR!Next]_<<Kids(state), Kids(saved)>>

===============================================================================
