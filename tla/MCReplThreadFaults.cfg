\* Two followers that start without the namespace; two connection losses,
\* so both can fail the same update and its quorum becomes unreachable;
\* blocks mix a batched record with one that waits for the batch, or
\* hold a transaction.
CONSTANTS
    n1 = n1
    n2 = n2
    ns1 = ns1
    ns2 = ns2
    Nodes <- MCNodes
    Namespaces <- MCNamespaces
    InitFollowers <- MCInitMissing
    BlockShapes <- MCMixedOrTx
    ConsensusCnt = 2
    RequiredReplicas = 2
    QueueCapacity = 2
    MaxLsn = 2
    InitLsn = 0
    WalDepth = 1
    BatchLimit = 2
    ParallelSyncs = 1
    MaxNetFailures = 2
    InitRoles = {"Leader"}
    MaxRoleSwitches = 0
    MaxRoleAwait = 1

SPECIFICATION Spec
SYMMETRY Symmetry

INVARIANT ApprovalMeansApplied
INVARIANT AckOncePerNode
INVARIANT QuorumLossReported
INVARIANT TxStateConsistent
