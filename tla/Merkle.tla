-------------------------------- MODULE Merkle --------------------------------
(***************************************************************************)
(* The Merkle tree functions of dnsid/c2sp_tlog/merkle.py and              *)
(* hash_tiles.py, and the definitions of RFC 6962 they are compared with.  *)
(* A hash is the term that was hashed, so that two hashes are equal only   *)
(* if the data are: a leaf is a tuple of one, an inner node a tuple of     *)
(* two, and the hash of nothing the empty tuple.                           *)
(***************************************************************************)
EXTENDS Naturals, Sequences, SequencesExt

leaf_hash(e) == <<e>>
node_hash(l, r) == <<l, r>>
EmptyRoot == <<>>

-----------------------------------------------------------------------------
(* RFC 6962, section 2.1.                                                  *)

\* The largest power of two below n.
Split(n) == CHOOSE k \in {2^j : j \in 0..n} : k < n /\ 2 * k >= n

RECURSIVE MTH(_)
MTH(d) ==
    CASE Len(d) = 0 -> EmptyRoot
      [] Len(d) = 1 -> leaf_hash(d[1])
      [] OTHER -> LET k == Split(Len(d))
                  IN  node_hash(MTH(SubSeq(d, 1, k)), MTH(SubSeq(d, k + 1, Len(d))))

RECURSIVE Path(_, _)
Path(i, d) ==
    IF Len(d) = 1 THEN <<>>
    ELSE LET k == Split(Len(d))
             left == SubSeq(d, 1, k)
             right == SubSeq(d, k + 1, Len(d))
         IN  IF i < k THEN Append(Path(i, left), MTH(right))
             ELSE Append(Path(i - k, right), MTH(left))

RECURSIVE SubProof(_, _, _)
SubProof(m, d, whole) ==
    IF m = Len(d) THEN IF whole THEN <<>> ELSE <<MTH(d)>>
    ELSE LET k == Split(Len(d))
             left == SubSeq(d, 1, k)
             right == SubSeq(d, k + 1, Len(d))
         IN  IF m <= k THEN Append(SubProof(m, left, whole), MTH(right))
             ELSE Append(SubProof(m - k, right, FALSE), MTH(left))

RECURSIVE Nodes(_)
\* All hashes in the tree over d.
Nodes(d) ==
    IF Len(d) <= 1 THEN {MTH(d)}
    ELSE LET k == Split(Len(d))
         IN  {MTH(d)} \cup Nodes(SubSeq(d, 1, k)) \cup Nodes(SubSeq(d, k + 1, Len(d)))

-----------------------------------------------------------------------------
(* The code.                                                               *)

LevelAbove(level) ==
    [i \in 1..(Len(level) + 1) \div 2 |->
        IF 2 * i <= Len(level) THEN node_hash(level[2 * i - 1], level[2 * i])
        ELSE level[2 * i - 1]]

RECURSIVE RootOfLevel(_)
RootOfLevel(level) == IF Len(level) = 1 THEN level[1] ELSE RootOfLevel(LevelAbove(level))

merkle_root_from_entries(entries) ==
    IF entries = <<>> THEN EmptyRoot
    ELSE RootOfLevel([i \in 1..Len(entries) |-> leaf_hash(entries[i])])

\* Mutant: the last node of a level is replaced by its sibling.
InclusionStepSibling(s, sibling) ==
    [hash |-> CASE s.i % 2 = 1 -> node_hash(sibling, s.hash)
                [] s.i % 2 = 0 /\ s.i < s.n - 1 -> node_hash(s.hash, sibling)
                [] OTHER -> sibling,
     i |-> s.i \div 2, n |-> (s.n + 1) \div 2]

InclusionStep(s, sibling) ==
    [hash |-> IF s.i % 2 = 1 \/ s.i >= s.n - 1 THEN node_hash(sibling, s.hash)
              ELSE node_hash(s.hash, sibling),
     i |-> s.i \div 2, n |-> (s.n + 1) \div 2]

inclusion_root(hash, index, size, proof) ==
    FoldLeft(InclusionStep, [hash |-> hash, i |-> index, n |-> size], proof).hash

verify_inclusion(entry, index, size, root, proof) ==
    inclusion_root(leaf_hash(entry), index, size, proof) = root

RECURSIVE DropOnes(_, _)
DropOnes(old, new) == IF old % 2 = 1 THEN DropOnes(old \div 2, new \div 2) ELSE <<old, new>>

RECURSIVE DropZeros(_, _)
DropZeros(old, new) ==
    IF old > 0 /\ old % 2 = 0 THEN DropZeros(old \div 2, new \div 2) ELSE <<old, new>>

\* Mutant: an old right edge that ends together with the new one is missed.
ConsistencyStepAlone(s, node) ==
    IF ~s.ok \/ s.new = 0 THEN [s EXCEPT !.ok = FALSE]
    ELSE LET shared == s.old % 2 = 1
             at == IF shared THEN DropZeros(s.old, s.new) ELSE <<s.old, s.new>>
         IN  [ok |-> TRUE, old |-> at[1] \div 2, new |-> at[2] \div 2,
              oldHash |-> IF shared THEN node_hash(node, s.oldHash) ELSE s.oldHash,
              newHash |-> IF shared THEN node_hash(node, s.newHash)
                          ELSE node_hash(s.newHash, node)]

ConsistencyStep(s, node) ==
    IF ~s.ok \/ s.new = 0 THEN [s EXCEPT !.ok = FALSE]
    ELSE LET shared == s.old % 2 = 1 \/ s.old = s.new
             at == IF shared THEN DropZeros(s.old, s.new) ELSE <<s.old, s.new>>
         IN  [ok |-> TRUE, old |-> at[1] \div 2, new |-> at[2] \div 2,
              oldHash |-> IF shared THEN node_hash(node, s.oldHash) ELSE s.oldHash,
              newHash |-> IF shared THEN node_hash(node, s.newHash)
                          ELSE node_hash(s.newHash, node)]

IsPower(n) == \E j \in 0..n : n = 2^j

ConsistencyEnd(s, oldRoot, newRoot) ==
    s.ok /\ s.new = 0 /\ s.oldHash = oldRoot /\ s.newHash = newRoot

verify_consistency(m, n, oldRoot, newRoot, proof) ==
    IF m > n THEN FALSE
    ELSE IF m = 0 THEN proof = <<>> /\ oldRoot = EmptyRoot /\ (n > 0 \/ newRoot = oldRoot)
    ELSE IF m = n THEN proof = <<>> /\ oldRoot = newRoot
    ELSE IF ~IsPower(m) /\ proof = <<>> THEN FALSE
    ELSE LET at == DropOnes(m - 1, n - 1)
             first == IF IsPower(m) THEN oldRoot ELSE proof[1]
             rest == IF IsPower(m) THEN proof ELSE Tail(proof)
             start == [ok |-> TRUE, old |-> at[1], new |-> at[2],
                       oldHash |-> first, newHash |-> first]
         IN  ConsistencyEnd(FoldLeft(ConsistencyStep, start, rest), oldRoot, newRoot)

\* Where _hash_root splits n hashes, of which the tail is not one.
HashRootSplit(n, tail) == IF tail = <<>> THEN Split(n) ELSE Split(n + 1)

RECURSIVE hash_root(_, _)
\* tail is <<>> or a tuple of the root of the smaller tree on the right edge.
hash_root(hashes, tail) ==
    IF hashes = <<>> THEN tail[1]
    ELSE IF Len(hashes) = 1 /\ tail = <<>> THEN hashes[1]
    ELSE LET k == HashRootSplit(Len(hashes), tail)
         IN  node_hash(hash_root(SubSeq(hashes, 1, k), <<>>),
                       hash_root(SubSeq(hashes, k + 1, Len(hashes)), tail))

===============================================================================
