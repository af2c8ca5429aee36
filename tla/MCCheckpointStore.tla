-------------------------- MODULE MCCheckpointStore --------------------------
(* Small instances of CheckpointStore: trees are leaf sequences.           *)
EXTENDS CheckpointStore, Sequences

S == INSTANCE SequencesExt

CONSTANTS a, b

\* The prefixes of two branches, of which the longer one may overtake the other.
Trees == UNION {S!Prefixes(s) : s \in {<<a>>, <<b, b>>}}

Sizes == [t \in Tree |-> Len(t)]

PrefixPairs == {p \in Tree \X Tree : S!IsPrefix(p[1], p[2])}

NoLeaves == <<>>

Times == 1..2

===============================================================================
