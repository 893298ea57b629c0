\* Three requests: enough for a cached item, a tags-matcher change and a
\* tm-updating item, with callbacks failing or succeeding in any order
\* around Commit and Rollback.  A finished transaction stops.
CONSTANTS
    MaxOps <- MCMaxOps
SPECIFICATION Spec
INVARIANT TypeOK CommitAfterAllApplied CacheCurrent
PROPERTY AwaitReturns
CHECK_DEADLOCK FALSE
