\* One Connect whose connection may fail: a command sent after Connect
\* returned must be answered.
CONSTANTS
    t1 = t1  t2 = t2  c1 = c1  c2 = c2  c3 = c3
    Threads <- MCThreads
    Cmds <- MCCmds
    BoundCmds <- MCBound
    RxCoros = 1
    MaxConnects = 1
    ConnResults = {TRUE, FALSE}
SPECIFICATION Spec
PROPERTY AcceptedAnswered
