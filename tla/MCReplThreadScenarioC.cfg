\* spec.md Scenario C against the updates loop: a failed non-batched
\* update must be retried, not skipped.
CONSTANTS
    n1 = n1
    n2 = n2
    ns1 = ns1
    ns2 = ns2
    Nodes <- MCNodes
    Namespaces <- MCNamespaces
    InitFollowers <- MCInitMissing
    BlockShapes <- MCMixedBlock
    ConsensusCnt = 2
    RequiredReplicas = 2
    QueueCapacity = 2
    MaxLsn = 2
    InitLsn = 0
    WalDepth = 1
    BatchLimit = 2
    ParallelSyncs = 1
    MaxNetFailures = 2
    InitRoles = {"Leader"}
    MaxRoleSwitches = 0
    MaxRoleAwait = 1

SPECIFICATION Spec
SYMMETRY Symmetry

PROPERTY RetryFailedUpdate
