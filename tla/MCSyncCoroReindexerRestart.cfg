\* A Connect that succeeds, Stop, and a second Connect that succeeds: a
\* command sent after the restart must still be answered.
CONSTANTS
    t1 = t1  t2 = t2  c1 = c1  c2 = c2  c3 = c3
    Threads <- MCThreads
    Cmds <- MCCmds
    BoundCmds <- MCBound
    RxCoros = 1
    MaxConnects = 2
    ConnResults = {TRUE}
SPECIFICATION Spec
PROPERTY AcceptedAnswered
