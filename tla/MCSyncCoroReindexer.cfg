\* Safety of the command queue: two workers, two shared commands and one
\* sent on a connection, two Connect calls whose connections may fail, so
\* that a restart after Stop and a Connect that stops its own workers both
\* happen.
CONSTANTS
    t1 = t1  t2 = t2  c1 = c1  c2 = c2  c3 = c3
    Threads <- MCThreads
    Cmds <- MCCmds
    BoundCmds <- MCBound
    RxCoros = 1
    MaxConnects = 2
    ConnResults = {TRUE, FALSE}
SPECIFICATION Spec
SYMMETRY MCSymmetry
INVARIANT TypeOK CmdAccounted ReaderChannelOpen
