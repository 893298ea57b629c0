\* Role switches: one follower and one namespace, the node starts as leader,
\* is demoted and promoted again; after a promotion the follower takes
\* up to two polls to report itself a replica of this leader.
CONSTANTS
    n1 = n1
    n2 = n2
    ns1 = ns1
    ns2 = ns2
    Nodes <- MCOneNode
    Namespaces <- MCNamespaces
    InitFollowers <- MCInitOldVer
    BlockShapes <- MCMixedBlock
    ConsensusCnt = 2
    RequiredReplicas = 1
    QueueCapacity = 1
    MaxLsn = 2
    InitLsn = 1
    WalDepth = 1
    BatchLimit = 1
    ParallelSyncs = 1
    MaxNetFailures = 1
    InitRoles = {"Leader"}
    MaxRoleSwitches = 2
    MaxRoleAwait = 2

SPECIFICATION Spec

INVARIANT LeaderOnlyWrites
INVARIANT ApprovalMeansApplied
PROPERTY EventuallyConverged
PROPERTY TerminationPrompt
