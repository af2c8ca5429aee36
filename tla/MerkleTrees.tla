----------------------------- MODULE MerkleTrees -----------------------------
(***************************************************************************)
(* The functions of Merkle on every log that can grow from a small set of  *)
(* entries: what verify_inclusion and verify_consistency accept of the     *)
(* proofs a log can give, and of the ones it cannot.                       *)
(***************************************************************************)
EXTENDS Merkle

CONSTANTS Entry, MaxSize, MaxProof \* bounds on the log and on a proof

\* What the constants must be.
MerkleAssumption == MaxSize \in Nat /\ MaxProof \in Nat

VARIABLE log

Init == log = <<>>

Grow(e) == Len(log) < MaxSize /\ log' = Append(log, e)

Next == \E e \in Entry : Grow(e)

Spec == Init /\ [][Next]_log

-----------------------------------------------------------------------------

Proofs(d) == UNION {[1..k -> Nodes(d)] : k \in 0..MaxProof}

\* The root computed level by level is the root RFC 6962 defines by splitting
\* (merkle_root_from_entries).
RootsAgree == merkle_root_from_entries(log) = MTH(log)

\* Every inclusion proof of RFC 6962 is accepted (inclusion_root).
InclusionComplete ==
    \A i \in 0..Len(log) - 1 :
        verify_inclusion(log[i + 1], i, Len(log), MTH(log), Path(i, log))

\* No proof made of the tree's hashes shows an entry that is not in the log
\* (verify_inclusion).
InclusionMeansMember ==
    \A i \in 0..Len(log) - 1, e \in Entry, p \in Proofs(log) :
        verify_inclusion(e, i, Len(log), MTH(log), p) => \E j \in 1..Len(log) : log[j] = e

\* Every consistency proof of RFC 6962 is accepted (verify_consistency).
ConsistencyComplete ==
    \A m \in 0..Len(log) :
        verify_consistency(m, Len(log), MTH(SubSeq(log, 1, m)), MTH(log),
            IF m = 0 THEN <<>> ELSE SubProof(m, log, TRUE))

\* No proof made of the hashes of either tree relates a log to one that is
\* not a prefix of it (verify_consistency).
ConsistencyMeansPrefix ==
    \A m \in 1..Len(log) : \A old \in [1..m -> Entry] :
        \A p \in UNION {[1..k -> Nodes(log) \cup Nodes(old)] : k \in 0..MaxProof} :
            verify_consistency(m, Len(log), MTH(old), MTH(log), p) => old = SubSeq(log, 1, m)

\* A row of equal full subtrees and a smaller one on its right make the root
\* of the whole tree (_hash_root, used level by level on tiles).
TailedRootAgrees ==
    \A size \in {1, 2, 4} :
        LET full == Len(log) \div size
            rest == SubSeq(log, full * size + 1, Len(log))
        IN  log # <<>> =>
                hash_root([i \in 1..full |-> MTH(SubSeq(log, (i - 1) * size + 1, i * size))],
                          IF rest = <<>> THEN <<>> ELSE <<MTH(rest)>>) = MTH(log)

===============================================================================
