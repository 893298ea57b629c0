\* One follower, two namespaces synced by concurrent routines that share a
\* single sync token; the follower holds an older incarnation of both.
CONSTANTS
    n1 = n1
    n2 = n2
    ns1 = ns1
    ns2 = ns2
    Nodes <- MCOneNode
    Namespaces <- MCTwoNamespaces
    InitFollowers <- MCInitOldVer
    BlockShapes <- MCSingleMeta
    ConsensusCnt = 2
    RequiredReplicas = 1
    QueueCapacity = 1
    MaxLsn = 1
    InitLsn = 1
    WalDepth = 1
    BatchLimit = 1
    ParallelSyncs = 1
    MaxNetFailures = 1
    InitRoles = {"Leader"}
    MaxRoleSwitches = 0
    MaxRoleAwait = 1

SPECIFICATION Spec

PROPERTY EventuallyConverged
PROPERTY TerminationPrompt
