\* Two followers of a three-node cluster, one namespace; the followers
\* start with a diverged history; the queue keeps a single record so
\* blocks are dropped from under slow readers. Failed applies come from the
\* clients that terminate stops; connection losses are in the faults run.
CONSTANTS
    n1 = n1
    n2 = n2
    ns1 = ns1
    ns2 = ns2
    Nodes <- MCNodes
    Namespaces <- MCNamespaces
    InitFollowers <- MCInitDiverged
    BlockShapes <- MCBlockShapes
    ConsensusCnt = 2
    RequiredReplicas = 2
    QueueCapacity = 1
    MaxLsn = 2
    InitLsn = 0
    WalDepth = 1
    BatchLimit = 2
    ParallelSyncs = 1
    MaxNetFailures = 0
    InitRoles = {"Leader"}
    MaxRoleSwitches = 0
    MaxRoleAwait = 1

SPECIFICATION Spec
SYMMETRY Symmetry

INVARIANT TypeOK
INVARIANT ApprovalMeansApplied
INVARIANT DurableOnSuccess
PROPERTY SyncedPrefix
