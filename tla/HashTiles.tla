------------------------------ MODULE HashTiles ------------------------------
(***************************************************************************)
(* consistency_tiles of dnsid/c2sp_tlog/hash_tiles.py: one verification    *)
(* that a candidate checkpoint extends the trusted one, from hash tiles a  *)
(* server hands out one request at a time and may make up.                 *)
(*                                                                         *)
(* The candidate checkpoint is of a log of Size entries, the trusted one   *)
(* of the first `trustedSize' entries of a log that differs from it at the *)
(* places in `other'.  A tile is a pair <<level, index>> and holds up to   *)
(* Width hashes (256 in the code).                                         *)
(***************************************************************************)
EXTENDS Merkle, FiniteSets

CONSTANTS
    Width,         \* hashes in a full tile
    Size,          \* entries under the candidate checkpoint
    Changes,       \* where the other log differs from the candidate's: sets of places
    MaxTreeSize,   \* max_tree_size
    MaxFaults      \* bound: tiles the server makes up

ASSUME TilesAssumption == Width \in Nat \ {0, 1} /\ Size \in Nat \ {0} /\ MaxTreeSize \in Nat

VARIABLES
    other, trustedSize,  \* the trusted checkpoint, fixed
    phase,          \* what is computed: "candidate", "trusted", "authenticate", "done"
    size, level,    \* the loop variables of root
    tail,           \* its partial root, <<>> for None
    tiles,          \* tiles read, by key
    authenticated,  \* keys of tiles the candidate root vouches for
    todo,           \* keys still to authenticate, in the order they were read
    climb,          \* keys of the nested calls of authenticate, innermost last
    oldRoot,        \* root of the trusted size according to the tiles
    made,           \* how many tiles differed from the candidate's
    verdict

world == <<other, trustedSize>>
vars == <<other, trustedSize, phase, size, level, tail, tiles, authenticated,
          todo, climb, oldRoot, made, verdict>>

\* The log that differs from the candidate's at a set of places.
Log(c) == [i \in 1..Size |-> IF i \in c THEN Size + i ELSE i]

Trusted == SubSeq(Log(other), 1, trustedSize)

\* How many hashes a level of the candidate tree has.
Count(l) == Size \div (Width^l)

\* The hashes on each level of a log (each the root of Width^l entries), and
\* the roots of its prefixes.
Hashes ==
    [c \in Changes \cup {{}} |-> [l \in {k \in 0..Size : Count(k) > 0} |->
        [i \in 1..Count(l) |-> MTH(SubSeq(Log(c), (i - 1) * Width^l + 1, i * Width^l))]]]

Roots == [c \in Changes \cup {{}} |-> [n \in 1..Size |-> MTH(SubSeq(Log(c), 1, n))]]

TileWidth(key) ==
    LET w == Count(key[1]) - key[2] * Width IN IF w < Width THEN w ELSE Width

TileOf(c, key) == [i \in 1..TileWidth(key) |-> Hashes[c][key[1]][key[2] * Width + i]]

candidate == {}

Garbage == <<0>>

\* What a server may send for a tile: the candidate's, the other log's, or the
\* candidate's with one hash changed.
Served(key) ==
    {TileOf(candidate, key), TileOf(other, key)}
      \cup {[TileOf(candidate, key) EXCEPT ![i] = Garbage] : i \in 1..TileWidth(key)}

-----------------------------------------------------------------------------

Init ==
    /\ other \in Changes
    /\ trustedSize \in 1..Size
    /\ phase = "candidate" /\ size = Size /\ level = 0 /\ tail = <<>>
    /\ tiles = << >> /\ authenticated = {} /\ todo = <<>> /\ climb = <<>>
    /\ oldRoot = <<>> /\ made = 0 /\ verdict = "none"

End(v) == verdict' = v /\ phase' = "done"

\* The guard on the two sizes, before anything is read.
Refuse ==
    /\ phase = "candidate" /\ level = 0 /\ tiles = << >>
    /\ ~(trustedSize < Size /\ Size <= MaxTreeSize)
    /\ End("invalid")
    /\ UNCHANGED <<world, size, level, tail, tiles, authenticated, todo, climb, oldRoot, made>>

Admitted == trustedSize < Size /\ Size <= MaxTreeSize

EdgeKey == <<level, size \div Width>>

Parent(key) == <<key[1] + 1, key[2] \div Width>>

\* The keys the verification waits for; there is at most one.
Wanted ==
    IF ~Admitted THEN {}
    ELSE CASE phase \in {"candidate", "trusted"} /\ size > 0 /\ size % Width # 0 -> {EdgeKey} \ DOMAIN tiles
           [] phase = "authenticate" /\ climb # <<>> /\ Last(climb) \notin authenticated
                /\ Len(tiles[Last(climb)]) = Width -> {Parent(Last(climb))} \ DOMAIN tiles
           [] OTHER -> {}

\* read: the tile arrives, as its partial file or cut from the full one.
Arrive(key, data) ==
    /\ key \in Wanted
    /\ data # TileOf(candidate, key) => made < MaxFaults
    /\ tiles' = [k \in DOMAIN tiles \cup {key} |-> IF k = key THEN data ELSE tiles[k]]
    /\ todo' = IF phase = "authenticate" THEN todo ELSE Append(todo, key)
    /\ made' = IF data # TileOf(candidate, key) THEN made + 1 ELSE made
    /\ UNCHANGED <<world, phase, size, level, tail, authenticated, climb, oldRoot, verdict>>

\* read: the tile does not arrive, neither partial nor full, or has another length.
Fail(v) ==
    /\ Wanted # {} /\ made < MaxFaults
    /\ v \in {"transport", "invalid"}
    /\ made' = made + 1
    /\ End(v)
    /\ UNCHANGED <<world, size, level, tail, tiles, authenticated, todo, climb, oldRoot>>

\* root: one turn of the loop.
Up ==
    /\ Admitted /\ phase \in {"candidate", "trusted"} /\ size > 0 /\ Wanted = {}
    /\ LET w == size % Width
       IN  /\ tail' = IF w = 0 THEN tail
                      ELSE <<hash_root(SubSeq(tiles[EdgeKey], 1, w), tail)>>
           /\ authenticated' = IF w # 0 /\ phase = "candidate"
                               THEN authenticated \cup {EdgeKey} ELSE authenticated
    /\ size' = size \div Width /\ level' = level + 1
    /\ UNCHANGED <<world, phase, tiles, todo, climb, oldRoot, made, verdict>>

\* The candidate's root is compared, and the trusted size is next.
CandidateRoot ==
    /\ Admitted /\ phase = "candidate" /\ size = 0
    /\ IF tail[1] = Roots[candidate][Size]
       THEN /\ phase' = "trusted" /\ size' = trustedSize /\ level' = 0 /\ tail' = <<>>
            /\ UNCHANGED verdict
       ELSE End("invalid") /\ UNCHANGED <<size, level, tail>>
    /\ UNCHANGED <<world, tiles, authenticated, todo, climb, oldRoot, made>>

TrustedRoot ==
    /\ phase = "trusted" /\ size = 0
    /\ oldRoot' = tail[1] /\ phase' = "authenticate"
    /\ UNCHANGED <<world, size, level, tail, tiles, authenticated, todo, climb, made, verdict>>

\* authenticate is called for the next tile of list(tiles).
NextTile ==
    /\ phase = "authenticate" /\ climb = <<>> /\ todo # <<>>
    /\ climb' = <<Head(todo)>> /\ todo' = Tail(todo)
    /\ UNCHANGED <<world, phase, size, level, tail, tiles, authenticated, oldRoot, made, verdict>>

\* authenticate calls itself for the parent.
Climb ==
    /\ phase = "authenticate" /\ climb # <<>> /\ Wanted = {}
    /\ LET key == Last(climb)
       IN  /\ key \notin authenticated
           /\ IF Len(tiles[key]) # Width
              THEN End("invalid") /\ UNCHANGED climb
              ELSE climb' = Append(climb, Parent(key)) /\ UNCHANGED <<verdict, phase>>
    /\ UNCHANGED <<world, size, level, tail, tiles, authenticated, todo, oldRoot, made>>

\* Whether the parent's hash of a tile is the one its own hashes give.
Vouched(key) == hash_root(tiles[key], <<>>) = tiles[Parent(key)][(key[2] % Width) + 1]

\* authenticate returns to the call for the child, or to the loop.
Return ==
    /\ phase = "authenticate" /\ climb # <<>> /\ Last(climb) \in authenticated
    /\ IF Len(climb) = 1 THEN climb' = <<>> /\ UNCHANGED <<authenticated, verdict, phase>>
       ELSE LET child == climb[Len(climb) - 1]
            IN  IF Vouched(child)
                THEN /\ authenticated' = authenticated \cup {child}
                     /\ climb' = Front(climb)
                     /\ UNCHANGED <<verdict, phase>>
                ELSE End("invalid") /\ UNCHANGED <<authenticated, climb>>
    /\ UNCHANGED <<world, size, level, tail, tiles, todo, oldRoot, made>>

\* Mutant: the roots are compared as soon as both are known.
CompareEarly ==
    /\ phase = "authenticate" /\ climb = <<>>
    /\ End(IF oldRoot = Roots[other][trustedSize] THEN "accepted" ELSE "log_inconsistent")
    /\ UNCHANGED <<world, size, level, tail, tiles, authenticated, todo, climb, oldRoot, made>>

Compare ==
    /\ phase = "authenticate" /\ climb = <<>> /\ todo = <<>>
    /\ End(IF oldRoot = Roots[other][trustedSize] THEN "accepted" ELSE "log_inconsistent")
    /\ UNCHANGED <<world, size, level, tail, tiles, authenticated, todo, climb, oldRoot, made>>

Next ==
    \/ Refuse \/ Up \/ CandidateRoot \/ TrustedRoot \/ NextTile \/ Climb \/ Return \/ Compare
    \/ \E key \in Wanted : \E data \in Served(key) : Arrive(key, data)
    \/ \E v \in {"transport", "invalid"} : Fail(v)

Spec == Init /\ [][Next]_vars

-----------------------------------------------------------------------------

TypeOK ==
    /\ phase \in {"candidate", "trusted", "authenticate", "done"}
    /\ size \in 0..Size /\ level \in 0..Size /\ Len(tail) <= 1
    /\ authenticated \subseteq DOMAIN tiles
    /\ \A key \in DOMAIN tiles : Len(tiles[key]) = TileWidth(key) /\ TileWidth(key) \in 1..Width
    /\ verdict \in {"none", "accepted", "invalid", "transport", "log_inconsistent"}

\* Whatever tiles the server sends, acceptance means that the trusted log is a
\* prefix of the candidate's.
AcceptedIsPrefix == verdict = "accepted" => Trusted = SubSeq(Log(candidate), 1, trustedSize)

\* "authenticating every tile before comparing trusted history": made-up tiles
\* never make an honest log look as if it contradicted the trusted checkpoint.
ContradictionIsReal ==
    verdict = "log_inconsistent" => Trusted # SubSeq(Log(candidate), 1, trustedSize)

\* With the candidate's own tiles the two logs are told apart: nothing but the
\* configured limit on sizes or a wrong tile makes the evidence invalid.
HonestTilesDecide ==
    verdict \in {"invalid", "transport"} /\ Admitted => made > 0

\* Past the candidate root, a tile counted as authenticated is the candidate's.
AuthenticatedIsCandidate ==
    phase \in {"trusted", "authenticate"} =>
        \A key \in authenticated : tiles[key] = TileOf(candidate, key)

===============================================================================
