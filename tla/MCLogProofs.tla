------------------------------ MODULE MCLogProofs ------------------------------
(***************************************************************************)
(* The proofs a log gives, in small instances: `part` says which of them a *)
(* behaviour is about, the others stay as they begin.                      *)
(*   "tiles"    tiles of two hashes, a tree of nine entries                *)
(*   "trees"    logs of up to nine entries and the proofs RFC 6962 defines *)
(*   "forged"   logs of up to four entries and every sequence of hashes    *)
(*   "quorum"   policy files and policies, and cosigned checkpoints        *)
(*   "profile"  the same with every set of keys that sign bundles          *)
(***************************************************************************)
EXTENDS HashTiles

CONSTANTS x, y, z

VARIABLES part, log, file, line, logs, rules, quorum, policy, status, decision

tileVars == <<other, trustedSize, phase, size, level, tail, tiles, authenticated, todo, climb,
              oldRoot, made, verdict>>
policyVars == <<file, line, logs, rules, quorum, policy, status, decision>>

\* No difference, one entry, or all from one on.
MCChanges == {{}} \cup {{i} : i \in 1..Size} \cup {i..Size : i \in 1..Size}

Trees == INSTANCE MerkleTrees WITH Entry <- {x, y}, MaxSize <- 9, MaxProof <- 0
Forged == INSTANCE MerkleTrees WITH Entry <- {x, y, z}, MaxSize <- 4, MaxProof <- 3

ASSUME TreeInstances == Trees!MerkleAssumption /\ Forged!MerkleAssumption

-----------------------------------------------------------------------------
(* Three witnesses, up to two nested groups, and the ways a file is wrong. *)

NoKey == [name |-> "", bytes |-> "", type |-> ""]
NoRule == [kind |-> "", key |-> NoKey, threshold |-> 0, members |-> <<>>]

Key(name, bytes, type) == [name |-> name, bytes |-> bytes, type |-> type]
LogKey == Key("log.example", "L", "log")
W(i) == Key(<<"w1", "w2", "w3">>[i], <<"A", "B", "C">>[i], "witness")

L(d, name, key, n, members) ==
    [directive |-> d, name |-> name, key |-> key, threshold |-> n, members |-> members]
LogOf(key) == L("log", "", key, 0, <<>>)
WitnessOf(name, key) == L("witness", name, key, 0, <<>>)
GroupOf(name, n, members) == L("group", name, NoKey, n, members)
QuorumOf(name) == L("quorum", name, NoKey, 0, <<>>)

Three == <<LogOf(LogKey), WitnessOf("w1", W(1)), WitnessOf("w2", W(2)), WitnessOf("w3", W(3))>>

\* Groups over the three witnesses, and groups over witnesses and the first group.
Inner == {GroupOf("g", n, ms) : n \in 1..2, ms \in {<<"w1", "w2">>, <<"w2", "w3">>, <<"w1">>}}
Outer ==
    {GroupOf("h", n, ms) : n \in 1..3,
        ms \in {<<"g", "w3">>, <<"w1", "g">>, <<"w1", "g", "w3">>, <<"w1", "w2", "w3">>}}

Nested == {Three \o <<g, h, QuorumOf(q)>> : g \in Inner, h \in Outer, q \in {"g", "h", "w2", "none"}}

Odd ==
    { Three,
      Three \o <<QuorumOf("w1"), QuorumOf("w2")>>,
      Three \o <<QuorumOf("g"), GroupOf("g", 1, <<"w1">>)>>,
      Three \o <<WitnessOf("w1", W(1)), QuorumOf("w1")>>,
      Three \o <<WitnessOf("x", W(1)), QuorumOf("w1")>>,
      Three \o <<GroupOf("none", 1, <<"w1">>), QuorumOf("none")>>,
      Three \o <<GroupOf("g", 2, <<"w1", "w1">>), QuorumOf("g")>>,
      Three \o <<WitnessOf("x", Key("x", "L", "witness")), QuorumOf("w1")>>,
      Three \o <<WitnessOf("x", Key("x", "D", "log")), QuorumOf("w1")>>,
      Three \o <<LogOf(Key("log.example", "M", "bare")), QuorumOf("w1")>>,
      Three \o <<LogOf(Key("log.example", "M", "witness")), QuorumOf("w1")>>,
      Three \o <<L("other", "", NoKey, 0, <<>>), QuorumOf("w1")>>,
      <<LogOf(Key("other.example", "L", "log")), WitnessOf("w1", W(1)), QuorumOf("w1")>>,
      <<LogOf(Key("log.example", "L", "bare")), WitnessOf("w1", W(1)), QuorumOf("w1")>> }

MCFiles == Nested \cup Odd

MCDirect ==
    {[logs |-> ks, witnesses |-> ws, quorum |-> n, rule |-> NoRule] :
        ks \in {<<LogKey>>, <<LogKey, Key("log.example", "M", "bare")>>, <<>>},
        ws \in {<<>>, <<W(1), W(2)>>, <<W(1), W(1)>>, <<W(1), LogKey>>}, n \in -1..3}

Sig(bytes, t, ok) == [key |-> bytes, time |-> t, verifies |-> ok]

\* Each witness is absent, or signed at 1, 2 or 4, a time still to come; one line
\* does not verify, and one witness may have signed twice.
Cosigned(a, b, c) ==
    <<Sig("L", 1, TRUE)>> \o a \o <<Sig("B", 3, FALSE)>> \o b \o c

One(bytes) == {<<>>} \cup {<<Sig(bytes, t, TRUE)>> : t \in {1, 2, 4}}

MCCheckpoints ==
    {[scope |-> s, signatures |-> Cosigned(a, b, c)] :
        s \in {"public"}, a \in One("A") \cup {<<Sig("A", 2, TRUE), Sig("A", 1, TRUE)>>},
        b \in One("B"), c \in One("C") \cup {<<Sig("C", 3, TRUE)>>}}
      \cup {[scope |-> "testnet", signatures |-> <<Sig(l, 1, TRUE), Sig("A", 2, TRUE)>>] : l \in {"L", "M", "A"}}
      \cup {[scope |-> "public", signatures |-> <<Sig(l, 1, TRUE), Sig("A", 2, TRUE)>>] : l \in {"M", "A"}}

Bundle(bytes) == Key("dnsid-stream-bundle", bytes, "log")
MCBundleKeys == {<<Bundle("S")>>}
MCBundleKeysAll == {<<>>} \cup {<<Bundle(s)>> : s \in {"S", "L", "A", "C"}}
                   \cup {<<Bundle("S"), Bundle(s)>> : s \in {"S", "T", "B"}}
MCCheckpointsOne == {[scope |-> "public", signatures |-> <<Sig("L", 1, TRUE), Sig("A", 2, TRUE)>>]}

Quorums == INSTANCE WitnessPolicy WITH
    Files <- MCFiles, Direct <- MCDirect, Checkpoints <- MCCheckpoints, BundleKeys <- MCBundleKeys,
    Origin <- "log.example", Now <- 3
Profiles == INSTANCE WitnessPolicy WITH
    Files <- MCFiles, Direct <- MCDirect, Checkpoints <- MCCheckpointsOne,
    BundleKeys <- MCBundleKeysAll, Origin <- "log.example", Now <- 3

-----------------------------------------------------------------------------

MCInit ==
    /\ part \in {"tiles", "trees", "forged", "quorum", "profile"}
    /\ Init /\ (part # "tiles" => other = {} /\ trustedSize = 1)
    /\ log = <<>>
    /\ IF part \in {"quorum", "profile"} THEN Quorums!Init
       ELSE /\ file = <<>> /\ line = 1 /\ logs = <<>> /\ rules = <<>> /\ quorum = NoRule
            /\ policy = Quorums!NoPolicy /\ status = "parsed" /\ decision = Quorums!NoDecision

TilesStep == part = "tiles" /\ Next /\ UNCHANGED <<part, log, policyVars>>

MCNext ==
    \/ TilesStep
    \/ part = "trees" /\ Trees!Next /\ UNCHANGED <<part, tileVars, policyVars>>
    \/ part = "forged" /\ Forged!Next /\ UNCHANGED <<part, tileVars, policyVars>>
    \/ part = "quorum" /\ Quorums!Next /\ UNCHANGED <<part, log, tileVars>>
    \/ part = "profile" /\ Profiles!Next /\ UNCHANGED <<part, log, tileVars>>

\* Every fetch of a tile is bounded in time, and the rest is computation.
MCSpec ==
    /\ MCInit /\ [][MCNext]_<<part, log, tileVars, policyVars>>
    /\ WF_<<part, log, tileVars, policyVars>>(TilesStep)

-----------------------------------------------------------------------------

\* The comparison of a tree with a trusted one ends, whatever the tiles that are
\* served (consistency_tiles), and ends right: an accepted tree extends the trusted
\* one, a contradiction is reported only of a log that contradicts itself, honest
\* tiles always decide, and only hashes vouched for by the candidate's root are
\* ever used (authenticate).
TilesSound ==
    /\ part = "tiles" ~> phase = "done"
    /\ [](/\ TypeOK
          /\ AcceptedIsPrefix
          /\ ContradictionIsReal
          /\ HonestTilesDecide
          /\ AuthenticatedIsCandidate)

\* The root computed level by level is the root RFC 6962 defines by splitting
\* (merkle_root_from_entries), also from a row of full subtrees and a smaller one
\* on its right (_hash_root), and every inclusion and consistency proof RFC 6962
\* defines is accepted (inclusion_root, verify_consistency).
ProofsComplete ==
    part = "trees" => /\ Trees!RootsAgree
                      /\ Trees!TailedRootAgrees
                      /\ Trees!InclusionComplete
                      /\ Trees!ConsistencyComplete

\* No proof made of the hashes of either tree shows an entry that is not in the
\* log (verify_inclusion) or relates a log to one that is not a prefix of it
\* (verify_consistency).
ProofsSound ==
    part = "forged" => Forged!InclusionMeansMember /\ Forged!ConsistencyMeansPrefix

\* A quorum present in time is never missed, and the witness time is the latest
\* time from which the cosignatures alone still satisfy it: choosing members
\* greedily, level by level, loses nothing (_evaluate_quorum).  No public key is
\* counted twice, however the groups nest (normalized_origin_policy), nor plays
\* two of the roles log, witness and bundle signer
\* (validate_c2sp_tlog_trust_profile); no public checkpoint is accepted unwitnessed
\* (enforce_checkpoint_policy); and a policy file that parses serves every log it
\* names, unless its quorum counts one witness in two places
\* (parse_c2sp_policy_file).
QuorumSound ==
    /\ part = "quorum" => /\ Quorums!TimeIsLatestQuorum
                          /\ Quorums!QuorumIsFound
                          /\ Quorums!NoWitnessTwice
                          /\ Quorums!PublicIsWitnessed
    /\ part = "profile" => Profiles!ParsedIsUsable /\ Profiles!RolesSeparate

===============================================================================
