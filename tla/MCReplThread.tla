--------------------------- MODULE MCReplThread ---------------------------
(* Model-checking instance of ReplThread: two followers, one leader in a  *)
(* three-node cluster (consensus 2), small queue and write budget.        *)
EXTENDS ReplThread, TLC

CONSTANTS n1, n2, ns1, ns2

MCNodes == {n1, n2}
MCNamespaces == {ns1}
\* A two-node cluster (one follower) with two namespaces.
MCOneNode == {n1}
MCTwoNamespaces == {ns1, ns2}

\* Follower storage at start.
Missing   == [exists |-> FALSE, ver |-> 0, data |-> {}]
\* In sync with an empty leader namespace.
Fresh     == [exists |-> TRUE, ver |-> LeaderVer, data |-> {}]
\* Left over from an older incarnation of the namespace.
OldVer    == [exists |-> TRUE, ver |-> 1, data |-> {1}]
\* Holds a write of its own from when it led: same version, history diverged.
Diverged  == [exists |-> TRUE, ver |-> LeaderVer, data |-> {Foreign(1)}]

MCInitDiverged == {Diverged}
MCInitMissing == {Missing}
MCInitOldVer == {OldVer}

MCBlockShapes == { <<"Item", "Item">>, <<"Meta">> }
\* A batched update followed by one that waits for the batch.
MCMixedBlock == { <<"Item", "Meta">> }
MCSingleMeta == { <<"Meta">> }
\* Either that block or a transaction: BeginTx, then CommitTx.
MCMixedOrTx == { <<"Item", "Meta">>, <<"Begin", "Commit">> }

Symmetry == Permutations(MCNodes)
=============================================================================
