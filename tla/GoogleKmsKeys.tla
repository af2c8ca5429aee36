----------------------------- MODULE GoogleKmsKeys -----------------------------
(***************************************************************************)
(* GoogleKmsKeyProvider (dnsid/google_kms_key_provider.py): immutable key  *)
(* versions in Google Cloud KMS, each known by its thumbprint.  Threads    *)
(* share the provider; every call holds its lock from the first test to    *)
(* the last answer of the service.  Nothing is persisted: a process that   *)
(* starts again opens the version it was configured with.                  *)
(***************************************************************************)
EXTENDS Naturals, FiniteSets

CONSTANTS
    Thread, Version, None,
    First,      \* the configured version
    Thumb,      \* version -> thumbprint of its public key
    MaxStarts   \* bound: starts of the process after the first

VARIABLES
    service,    \* versions that exist in the service
    versions,   \* _versions and _keys: thumbprint -> version
    active, retained, pending,
    lock,       \* holder of the RLock
    job,        \* thread -> the call it is in
    signed,     \* signatures returned: thumbprint and version
    starts

vars == <<service, versions, active, retained, pending, lock, job, signed, starts>>
roles == <<active, retained, pending>>

Free == "free"
Idle == [op |-> "idle", kid |-> None, version |-> None]
Kid == {Thumb[v] : v \in Version}

GoogleAssumption == First \in Version /\ None \notin Kid /\ Free \notin Thread

Init ==
    /\ service = {First} /\ versions = [kid \in {Thumb[First]} |-> First]
    /\ active = Thumb[First] /\ retained = {} /\ pending = {}
    /\ lock = Free /\ job = [t \in Thread |-> Idle] /\ signed = {} /\ starts = 0

Enters(t, op, kid, v) ==
    /\ lock = Free /\ job[t] = Idle /\ lock' = t
    /\ job' = [job EXCEPT ![t] = [op |-> op, kid |-> kid, version |-> v]]

Leaves(t) == lock' = Free /\ job' = [job EXCEPT ![t] = Idle]

Known(v) == \E kid \in DOMAIN versions : versions[kid] = v

\* create_crypto_key_version: the answer names a version, or is lost.
Create(t, v) ==
    /\ v \notin service /\ service' = service \cup {v}
    /\ \/ Enters(t, "generate_key", None, v)
       \/ lock = Free /\ job[t] = Idle /\ UNCHANGED <<lock, job>>
    /\ UNCHANGED <<versions, roles, signed, starts>>

\* The version is new, and so is its public key.
MayRegister(v) == ~Known(v) /\ Thumb[v] \notin DOMAIN versions

\* The public key is read and the key is pending; a failed or refused answer
\* leaves the provider as it was.
Register(t) ==
    /\ job[t].op = "generate_key"
    /\ \/ /\ MayRegister(job[t].version)
          /\ versions' = [kid \in DOMAIN versions \cup {Thumb[job[t].version]} |->
                           IF kid \in DOMAIN versions THEN versions[kid] ELSE job[t].version]
          /\ pending' = pending \cup {Thumb[job[t].version]}
       \/ UNCHANGED <<versions, pending>>
    /\ Leaves(t)
    /\ UNCHANGED <<service, active, retained, signed, starts>>

\* Mutant: the key stays pending.
ActivateKeepsPending(t, kid) ==
    /\ lock = Free /\ job[t] = Idle /\ kid \in pending
    /\ retained' = retained \cup ({active} \ {None})
    /\ active' = kid
    /\ UNCHANGED <<service, versions, pending, lock, job, signed, starts>>

Activate(t, kid) ==
    /\ lock = Free /\ job[t] = Idle /\ kid \in pending
    /\ retained' = retained \cup ({active} \ {None})
    /\ pending' = pending \ {kid} /\ active' = kid
    /\ UNCHANGED <<service, versions, lock, job, signed, starts>>

Supersede(t, kid, allow_active) ==
    /\ lock = Free /\ job[t] = Idle
    /\ \/ kid = active /\ allow_active /\ active' = None /\ UNCHANGED retained
       \/ kid # active /\ kid \in retained /\ retained' = retained \ {kid} /\ UNCHANGED active
    /\ UNCHANGED <<service, versions, pending, lock, job, signed, starts>>

\* Mutant: the lock is not held while the service signs.
SignUnlocked(t, kid) ==
    /\ lock = Free /\ job[t] = Idle
    /\ kid \in ({active} \ {None}) \cup pending
    /\ job' = [job EXCEPT ![t] = [op |-> "sign", kid |-> kid, version |-> versions[kid]]]
    /\ UNCHANGED <<service, versions, roles, lock, signed, starts>>

\* sign with the active key, sign_key with it or a pending one.
Sign(t, kid) ==
    /\ kid \in ({active} \ {None}) \cup pending
    /\ Enters(t, "sign", kid, versions[kid])
    /\ UNCHANGED <<service, versions, roles, signed, starts>>

\* The answer names the version and its checksums hold, or the call raises.
Signed(t) ==
    /\ job[t].op = "sign"
    /\ \/ signed' = signed \cup {<<job[t].kid, job[t].version>>}
       \/ UNCHANGED signed
    /\ Leaves(t)
    /\ UNCHANGED <<service, versions, roles, starts>>

Start ==
    /\ starts < MaxStarts /\ starts' = starts + 1
    /\ versions' = [kid \in {Thumb[First]} |-> First]
    /\ active' = Thumb[First] /\ retained' = {} /\ pending' = {}
    /\ lock' = Free /\ job' = [t \in Thread |-> Idle]
    /\ UNCHANGED <<service, signed>>

Next ==
    \/ \E t \in Thread :
         \/ \E v \in Version : Create(t, v)
         \/ \E kid \in Kid : Activate(t, kid) \/ Sign(t, kid)
                             \/ \E a \in BOOLEAN : Supersede(t, kid, a)
         \/ Register(t) \/ Signed(t)
    \/ Start

Spec == Init /\ [][Next]_vars

-----------------------------------------------------------------------------

TypeOK ==
    /\ active \in Kid \cup {None} /\ retained \subseteq Kid /\ pending \subseteq Kid
    /\ DOMAIN versions \subseteq Kid /\ lock \in Thread \cup {Free}
    /\ active \notin retained \cup pending /\ retained \cap pending = {}

\* While the service signs, the key is active or pending: "previous keys
\* immediately lose signing eligibility" (activate, sign_key).
NoRetiredSignature ==
    \A t \in Thread : job[t].op = "sign" => job[t].kid \in {active} \cup pending

\* One public key stands for one version as long as the process lives, also
\* after it was superseded, so that a thumbprint never changes its version.
VersionsKeep ==
    [][starts' = starts => \A kid \in DOMAIN versions : kid \in DOMAIN versions'
                                                  /\ versions'[kid] = versions[kid]]_vars

\* The roles behave as every provider promises, and a restart finds the
\* configured version only.
KR == INSTANCE KeyRing WITH
          ring <- [active |-> active, retained |-> retained, pending |-> pending],
          saved <- [active |-> Thumb[First], retained |-> {}, pending |-> {}]
RefinesKeyRing == KR!Spec

===============================================================================
