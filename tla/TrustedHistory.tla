---------------------------- MODULE TrustedHistory ----------------------------
(***************************************************************************)
(* What a store of trusted checkpoints promises for one log origin: the    *)
(* log is held to a single append-only history.  Every checkpoint that is  *)
(* accepted extends the one trusted until then; only explicit seeding by   *)
(* the operator, which bypasses the check and never shrinks the tree, may  *)
(* move to another history.                                                *)
(***************************************************************************)
EXTENDS Naturals

CONSTANTS
    Tree,   \* the trees a log may sign
    Size,   \* a tree's number of leaves
    Prefix, \* the pairs <<s, t>> such that t extends s or equals it
    None    \* no tree

VARIABLES
    head,     \* the tree now trusted, or None
    accepted  \* trees accepted since the history was last seeded

historyVars == <<head, accepted>>

Init == head = None /\ accepted = {}

Accept(t) ==
    /\ head = None \/ <<head, t>> \in Prefix
    /\ head' = t
    /\ accepted' = accepted \cup {t}

Seed(t) ==
    /\ head # None => Size[head] < Size[t]
    /\ head' = t
    /\ accepted' = {}

Next == \E t \in Tree : Accept(t) \/ Seed(t)

Spec == Init /\ [][Next]_historyVars

===============================================================================
