-------------------------------- MODULE KeyRing --------------------------------
(***************************************************************************)
(* What every key provider promises (KeyProvider, dnsid/interfaces.py):    *)
(* keys are generated as pending, a pending key becomes the active one,    *)
(* the key it replaces is retained, and a retained key, or on request the  *)
(* active one, is superseded.  A change is saved at some time after it was *)
(* made, and a restart goes back to what was saved.                        *)
(***************************************************************************)
CONSTANTS Kid, None

VARIABLES
    ring,   \* the keys of the provider, by role
    saved   \* the keys a restart finds

ringVars == <<ring, saved>>

Ring == [active : Kid \cup {None}, retained : SUBSET Kid, pending : SUBSET Kid]
Empty == [active |-> None, retained |-> {}, pending |-> {}]
Held(r) == ({r.active} \ {None}) \cup r.retained \cup r.pending

Init == ring \in Ring /\ saved = ring
        /\ ring.active \notin ring.retained \cup ring.pending
        /\ ring.retained \cap ring.pending = {}

Create(k) ==
    /\ ring = Empty
    /\ ring' = [Empty EXCEPT !.active = k]
    /\ UNCHANGED saved

Generate(k) ==
    /\ k \notin Held(ring)
    /\ ring' = [ring EXCEPT !.pending = @ \cup {k}]
    /\ UNCHANGED saved

Activate(k) ==
    /\ k \in ring.pending
    /\ ring' = [active |-> k, retained |-> ring.retained \cup ({ring.active} \ {None}),
                pending |-> ring.pending \ {k}]
    /\ UNCHANGED saved

Supersede(k) ==
    /\ k \in ring.retained
    /\ ring' = [ring EXCEPT !.retained = @ \ {k}]
    /\ UNCHANGED saved

SupersedeActive(k) ==
    /\ k = ring.active
    /\ ring' = [ring EXCEPT !.active = None]
    /\ UNCHANGED saved

Save == saved' = ring /\ UNCHANGED ring

Restart == ring' = saved /\ UNCHANGED saved

Next ==
    \/ \E k \in Kid : Create(k) \/ Generate(k) \/ Activate(k) \/ Supersede(k) \/ SupersedeActive(k)
    \/ Save \/ Restart

Spec == Init /\ [][Next]_ringVars

-----------------------------------------------------------------------------

\* Every key has one role, in memory and in what was saved.
OneRole(r) == r.active \notin r.retained \cup r.pending /\ r.retained \cap r.pending = {}

RolesDisjoint ==
    /\ ring \in Ring /\ saved \in Ring
    /\ OneRole(ring) /\ OneRole(saved)

\* A retired key does not sign again: only a restart gives a retained key back
\* its role.
NoComeback ==
    [][\A k \in Kid : k \in ring.retained /\ ring' # saved =>
         k # ring'.active /\ k \notin ring'.pending]_ringVars

===============================================================================
