---------------------------- MODULE MCKeyProviders ----------------------------
(***************************************************************************)
(* The three key providers, each on its own: `part` says which of them a   *)
(* behaviour is about, the others stay as they begin.                      *)
(*   "file"      two processes on one key file                             *)
(*   "aws"       three KMS keys, of which k3 is a replica of k1, and an    *)
(*               alias                                                     *)
(*   "google"    four versions, two of which share a public key            *)
(* The theorems of KeyProvidersProofs hold for any KMS keys, aliases,      *)
(* configurations, threads and versions that satisfy CloudAssumption.      *)
(***************************************************************************)
EXTENDS KeyFile, TLC

CONSTANTS
    noKey,
    KmsKey, Alias, KmsThumb, Initial, Enabled, FirstAlias,  \* AwsKmsKeys
    MaxRestarts, MaxRepoints, MaxSignatures,                \* bounds
    Thread, Version, First, VersionThumb,                   \* GoogleKmsKeys
    MaxStarts                                               \* bound

VARIABLES
    part,
    schedule, kms, alias, state, jwks, bound, saved, admin, signer, savedKids, given, named, gone, forced,
    kmsCrashes, repoints,
    service, versions, active, retained, pending, gLock, gJob, signed, starts

Aws == INSTANCE AwsKmsKeys WITH
    None <- noKey, Thumb <- KmsThumb, MaxCrashes <- MaxRestarts, crashes <- kmsCrashes

Google == INSTANCE GoogleKmsKeys WITH
    None <- noKey, Thumb <- VersionThumb, lock <- gLock, job <- gJob

ASSUME CloudAssumption == Aws!AwsAssumption /\ Google!GoogleAssumption

fileVars == <<file, durable, lock, snap, job, promised, removed, stored, crashes>>
awsVars == <<schedule, kms, alias, state, jwks, bound, saved, admin, signer, savedKids, given,
             named, gone, forced, kmsCrashes, repoints>>
googleVars == <<service, versions, active, retained, pending, gLock, gJob, signed, starts>>

MCInit ==
    /\ part \in {"file", "aws", "google"}
    /\ Init /\ (part = "file" \/ file = NoStore)
    /\ Aws!Init /\ (part = "aws" \/ <<schedule, saved>> = <<"keep", CHOOSE s \in Initial : TRUE>>)
    /\ Google!Init

MCNext ==
    /\ UNCHANGED part
    /\ \/ part = "file" /\ Next /\ UNCHANGED <<awsVars, googleVars>>
       \/ part = "aws" /\ Aws!Next /\ UNCHANGED <<fileVars, googleVars>>
       \/ part = "google" /\ Google!Next /\ UNCHANGED <<fileVars, awsVars>>

MCSpec == MCInit /\ [][MCNext]_<<part, fileVars, awsVars, googleVars>>

-----------------------------------------------------------------------------

\* The cloud providers lose no key.  A restart finds the keys that were saved in
\* their roles, whatever aliases were re-pointed since (load); a KMS key that was
\* created and told to the provider is in a role, was named to the caller, or was
\* superseded (generate_key); the deletion of a key that signs is never scheduled,
\* unless the caller allowed it for the active key (supersede); and two KMS keys
\* with the same public key are never held at once (_public_jwk).
CloudKeysKept ==
    /\ Google!TypeOK
    /\ Aws!TypeOK /\ Aws!RestartKeepsKeys /\ Aws!KeysAccounted
    /\ Aws!DeletesOnlyRetired /\ Aws!RolesAreBound

\* A signature returned for a thumbprint was made by the KMS key with that
\* public key, wherever the aliases point by then (sign_key, _public_jwk).  While
\* Google's service signs, the key is active or pending: "previous keys
\* immediately lose signing eligibility" (activate, sign_key).
CloudSignsWithLiveKey == Aws!SignedByKid /\ Google!NoRetiredSignature

\* AwsKmsKeyProvider and GoogleKmsKeyProvider behave as every provider promises,
\* by thumbprint.  A restart of the latter finds the configured version only, and
\* one public key stands for one version as long as its process lives.
CloudRefinesKeyRing == Aws!RefinesKeyRing /\ Google!RefinesKeyRing /\ Google!VersionsKeep

-----------------------------------------------------------------------------
(* Small instances *)

CONSTANTS p1, p2, k1, k2, k3, old, cur, t1, t2, t3, v0, v1, v2, v3

MCProc == {p1, p2}
MCKey == {k1, k2}
MCKmsKey == {k1, k2, k3}
MCAlias == {cur}
MCKmsThumb == k1 :> t1 @@ k2 :> t2 @@ k3 :> t1
MCInitial ==
    {[active |-> cur, retained |-> {}, pending |-> {}],
     [active |-> k1, retained |-> {cur}, pending |-> {}],
     [active |-> k1, retained |-> {}, pending |-> {cur}],
     [active |-> k1, retained |-> {}, pending |-> {}],
     [active |-> k1, retained |-> {}, pending |-> {k2}]}
MCFirstAlias == cur :> k2
MCVersion == {v0, v1, v2, v3}
MCVersionThumb == v0 :> t1 @@ v1 :> t2 @@ v2 :> t3 @@ v3 :> t2

Symmetric == Permutations(MCProc)

===============================================================================
