\* Liveness of the command queue over one Connect that succeeds, calls
\* racing the close path, and the Stop that ends the client.
CONSTANTS
    t1 = t1  t2 = t2  c1 = c1  c2 = c2  c3 = c3
    Threads <- MCThreads
    Cmds <- MCCmds
    BoundCmds <- MCBound
    RxCoros = 1
    MaxConnects = 1
    ConnResults = {TRUE}
SPECIFICATION Spec
PROPERTY AcceptedAnswered ControlReturns
