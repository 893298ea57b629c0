-------------------------- MODULE SyncCoroReindexer --------------------------
(***************************************************************************)
(* The synchronous client of client/synccororeindexerimpl.cc: caller      *)
(* threads hand DatabaseCommands to a CommandsQueue, each worker thread   *)
(* runs an event loop whose reader coroutine moves them into its          *)
(* connection's channel, and the connection's interpreter coroutines      *)
(* execute them and answer the caller.  Connect and Stop start and join   *)
(* the workers; the close path (closeAsync) invalidates the queue and     *)
(* hands what is left to the connection before closing its channel.      *)
(*                                                                         *)
(* Each worker has one connection (connCount 1) and its SyncRxCoroCount   *)
(* interpreters are bounded by RxCoros.  Steps of one worker are those of *)
(* its event loop: the reader coroutine never suspends (the channel is    *)
(* not bounded here), so while it runs no other coroutine of its worker   *)
(* does, but callers on other OS threads interleave with each Get.        *)
(*                                                                         *)
(* CommandsQueue::Push and sendCommand are in synccororeindexerimpl.h,    *)
(* which is not in this repository: Issue is the smallest behaviour       *)
(* consistent with the .cc (Get reads the personal queue before the       *)
(* shared one; thByConns_ maps a registered connection to its worker;     *)
(* isReading and commandAsync wake a worker; isValid_ gates the queue).   *)
(***************************************************************************)
EXTENDS Naturals, Integers, Sequences, FiniteSets

CONSTANTS
    Threads,      \* worker threads (model values)
    Cmds,         \* commands the callers send, one call each
    BoundCmds,    \* commands sent on a connection (sendCommand<true,...>)
    RxCoros,      \* SyncRxCoroCount: interpreter coroutines per connection
    MaxConnects,  \* Connect calls in one behaviour
    ConnResults   \* outcomes of rx.Connect: TRUE is success

ASSUME BoundCmds \subseteq Cmds /\ RxCoros \in Nat \ {0} /\ MaxConnects \in Nat
ASSUME ConnResults \subseteq BOOLEAN /\ ConnResults # {}

VARIABLES
    \* the CommandsQueue
    shared,        \* sharedQueue_
    personal,      \* thData_[t].personalQueue
    reqCnt,        \* thData_[t].reqCnt
    isReading,     \* thData_[t].isReading
    registered,    \* workers whose connection is in thByConns_
    isValid,       \* isValid_
    \* the workers
    tst,           \* Off | Connecting | Serving | Exited (loop.run returned)
    asyncOn,       \* commandAsync started
    asyncPending,  \* commandAsync.send() not yet handled
    closeOn,       \* closeAsync started
    closePending,  \* closeAsync.send() not yet handled
    closing,       \* the close coroutine: none | stopping | done
    readerOn,      \* the reader coroutine spawned by commandAsync runs
    chOpen,        \* conn.IsChOpened()
    ch,            \* commands in the connection's channel
    exec,          \* commands the interpreters are executing
    \* Connect / Stop (serialised by workersMtx_)
    cpc,           \* Idle | AwaitRunning | Stopping | StopInConnect
    runningWorkers,\* runningWorkers_
    lastError,     \* lastError_ holds an error
    connects,      \* Connect calls so far
    \* the callers
    st             \* per command: New | Queued | Rejected | Answered

qv == <<shared, personal, reqCnt, isReading, registered, isValid>>
wv == <<tst, asyncOn, asyncPending, closeOn, closePending, closing, readerOn,
        chOpen, ch, exec>>
cv == <<cpc, runningWorkers, lastError, connects>>
vars == <<qv, wv, cv, st>>

Joinable(t) == tst[t] # "Off"

-----------------------------------------------------------------------------
(* Connect and Stop                                                        *)

\* CommandsQueue::ClearConnectionsMapping: thByConns_.clear().
ClearConnectionsMapping == registered' = {}

\* CommandsQueue::SetValid: commands are accepted again.
SetValid == isValid' = TRUE

\* CommandsQueue::RegisterConn: thByConns_ maps worker t's connection.
RegisterConn(t) == registered' = registered \cup {t}

\* Mutant: Connect does not reset runningWorkers_.
ConnectStartNoReset ==
    /\ cpc = "Idle" /\ connects < MaxConnects
    /\ \A t \in Threads : ~Joinable(t)
    /\ connects' = connects + 1
    /\ lastError' = FALSE /\ ClearConnectionsMapping
    /\ tst' = [t \in Threads |-> "Connecting"]
    /\ asyncOn' = [t \in Threads |-> TRUE]
    /\ asyncPending' = [t \in Threads |-> FALSE]
    /\ closeOn' = [t \in Threads |-> TRUE]
    /\ closePending' = [t \in Threads |-> FALSE]
    /\ closing' = [t \in Threads |-> "none"]
    /\ chOpen' = [t \in Threads |-> TRUE]
    /\ cpc' = "AwaitRunning"
    /\ UNCHANGED <<shared, personal, reqCnt, isReading, isValid, readerOn,
                   ch, exec, st, runningWorkers>>

\* Connect: reset lastError_, runningWorkers_ and thByConns_, start every
\* worker (its loop starts commandAsync and closeAsync and opens the
\* channel) and wait on isRunningFuture.  A Connect while the first worker
\* is joinable returns errLogic and changes nothing.
ConnectStart ==
    /\ cpc = "Idle" /\ connects < MaxConnects
    /\ \A t \in Threads : ~Joinable(t)
    /\ connects' = connects + 1
    /\ lastError' = FALSE /\ runningWorkers' = 0 /\ ClearConnectionsMapping
    /\ tst' = [t \in Threads |-> "Connecting"]
    /\ asyncOn' = [t \in Threads |-> TRUE]
    /\ asyncPending' = [t \in Threads |-> FALSE]
    /\ closeOn' = [t \in Threads |-> TRUE]
    /\ closePending' = [t \in Threads |-> FALSE]
    /\ closing' = [t \in Threads |-> "none"]
    /\ chOpen' = [t \in Threads |-> TRUE]
    /\ cpc' = "AwaitRunning"
    /\ UNCHANGED <<shared, personal, reqCnt, isReading, isValid, readerOn,
                   ch, exec, st>>

\* stop(): closeAsync.send() to every worker (lost on a stopped watcher).
SendClose == closePending' = [t \in Threads |-> closePending[t] \/ closeOn[t]]

\* isRunningFuture.get() returned: on an error stop() and then SetValid(),
\* else SetValid().
ConnectReturn ==
    /\ cpc = "AwaitRunning" /\ runningWorkers = Cardinality(Threads)
    /\ IF lastError
         THEN /\ SendClose /\ cpc' = "StopInConnect" /\ UNCHANGED isValid
         ELSE /\ SetValid /\ cpc' = "Idle" /\ UNCHANGED closePending
    /\ UNCHANGED <<shared, personal, reqCnt, isReading, registered, tst,
                   asyncOn, asyncPending, closeOn, closing, readerOn, chOpen,
                   ch, exec, runningWorkers, lastError, connects, st>>

\* Stop(): stop() under workersMtx_.
StopStart ==
    /\ cpc = "Idle"
    /\ SendClose
    /\ cpc' = "Stopping"
    /\ UNCHANGED <<qv, tst, asyncOn, asyncPending, closeOn, closing, readerOn,
                   chOpen, ch, exec, runningWorkers, lastError, connects, st>>

\* The joins of stop(); Connect then calls SetValid().
Join ==
    /\ cpc \in {"Stopping", "StopInConnect"}
    /\ \A t \in Threads : tst[t] \in {"Off", "Exited"}
    /\ tst' = [t \in Threads |-> "Off"]
    /\ IF cpc = "StopInConnect" THEN SetValid ELSE UNCHANGED isValid
    /\ cpc' = "Idle"
    /\ UNCHANGED <<shared, personal, reqCnt, isReading, registered, asyncOn,
                   asyncPending, closeOn, closePending, closing, readerOn,
                   chOpen, ch, exec, runningWorkers, lastError, connects, st>>

-----------------------------------------------------------------------------
(* A worker's event loop.  Its coroutines run one at a time, so none of    *)
(* them moves while the reader coroutine runs.                             *)

Loop(t) == ~readerOn[t] /\ tst[t] \in {"Connecting", "Serving"}

\* The connection coroutine: rx.Connect returned.  On success the
\* connection is registered in thByConns_, on failure lastError_ is set;
\* the last worker to finish sets isRunning.  The interpreters are spawned
\* either way.
ConnDone(t) ==
    /\ Loop(t) /\ tst[t] = "Connecting"
    /\ \E ok \in ConnResults :
         /\ IF ok THEN RegisterConn(t) ELSE UNCHANGED registered
         /\ lastError' = (lastError \/ ~ok)
    /\ runningWorkers' = runningWorkers + 1
    /\ tst' = [tst EXCEPT ![t] = "Serving"]
    /\ UNCHANGED <<shared, personal, reqCnt, isReading, isValid, asyncOn,
                   asyncPending, closeOn, closePending, closing, readerOn,
                   chOpen, ch, exec, cpc, connects, st>>

\* commandAsync's callback spawns the reader coroutine.
ReaderSpawn(t) ==
    /\ Loop(t) /\ asyncOn[t] /\ asyncPending[t]
    /\ readerOn' = [readerOn EXCEPT ![t] = TRUE]
    /\ asyncPending' = [asyncPending EXCEPT ![t] = FALSE]
    /\ UNCHANGED <<qv, tst, asyncOn, closeOn, closePending, closing, chOpen,
                   ch, exec, cv, st>>

\* conn.PushCmd of every command q holds, into worker t's connection.
PushCmds(t, q) == ch' = [ch EXCEPT ![t] = @ \o q]

\* Mutant: Get moves the front of the shared queue without pop_front().
ReaderGetNoPop(t) ==
    /\ readerOn[t]
    /\ \/ /\ personal[t] # <<>>
          /\ PushCmds(t, personal[t])
          /\ reqCnt' = [reqCnt EXCEPT ![t] = @ + Len(personal[t])]
          /\ personal' = [personal EXCEPT ![t] = <<>>]
          /\ UNCHANGED <<shared, isReading, readerOn>>
       \/ /\ personal[t] = <<>> /\ shared # <<>>
          /\ PushCmds(t, <<Head(shared)>>)
          /\ reqCnt' = [reqCnt EXCEPT ![t] = @ + 1]
          /\ UNCHANGED <<shared, personal, isReading, readerOn>>
       \/ /\ personal[t] = <<>> /\ shared = <<>>
          /\ isReading' = [isReading EXCEPT ![t] = FALSE]
          /\ readerOn' = [readerOn EXCEPT ![t] = FALSE]
          /\ UNCHANGED <<shared, personal, reqCnt, ch>>
    /\ UNCHANGED <<registered, isValid, tst, asyncOn, asyncPending, closeOn,
                   closePending, closing, chOpen, exec, cv, st>>

\* One CommandsQueue::Get of the reader loop, and the PushCmd of what it
\* returned into the connection's channel: the whole personal queue, else
\* one command of the shared queue, else isReading = false and the reader
\* returns.
ReaderGet(t) ==
    /\ readerOn[t]
    /\ \/ /\ personal[t] # <<>>
          /\ PushCmds(t, personal[t])
          /\ reqCnt' = [reqCnt EXCEPT ![t] = @ + Len(personal[t])]
          /\ personal' = [personal EXCEPT ![t] = <<>>]
          /\ UNCHANGED <<shared, isReading, readerOn>>
       \/ /\ personal[t] = <<>> /\ shared # <<>>
          /\ PushCmds(t, <<Head(shared)>>)
          /\ reqCnt' = [reqCnt EXCEPT ![t] = @ + 1]
          /\ shared' = Tail(shared)
          /\ UNCHANGED <<personal, isReading, readerOn>>
       \/ /\ personal[t] = <<>> /\ shared = <<>>
          /\ isReading' = [isReading EXCEPT ![t] = FALSE]
          /\ readerOn' = [readerOn EXCEPT ![t] = FALSE]
          /\ UNCHANGED <<shared, personal, reqCnt, ch>>
    /\ UNCHANGED <<registered, isValid, tst, asyncOn, asyncPending, closeOn,
                   closePending, closing, chOpen, exec, cv, st>>

\* An interpreter coroutine: conn.PopCmd() and the call on the connection.
ExecStart(t) ==
    /\ Loop(t) /\ tst[t] = "Serving"
    /\ ch[t] # <<>> /\ Cardinality(exec[t]) < RxCoros
    /\ exec' = [exec EXCEPT ![t] = @ \cup {Head(ch[t])}]
    /\ ch' = [ch EXCEPT ![t] = Tail(@)]
    /\ UNCHANGED <<qv, tst, asyncOn, asyncPending, closeOn, closePending,
                   closing, readerOn, chOpen, cv, st>>

\* CommandsQueue::OnCmdDone: the worker's reqCnt drops by one.
OnCmdDone(t) == reqCnt' = [reqCnt EXCEPT ![t] = @ - 1]

\* The call returned (an error once rx is stopped or never connected):
\* the caller gets the answer, then conn.OnRequestDone() and
\* commandsQueue_.OnCmdDone(tid).
ExecDone(t, c) ==
    /\ Loop(t) /\ c \in exec[t]
    /\ st' = [st EXCEPT ![c] = "Answered"]
    /\ exec' = [exec EXCEPT ![t] = @ \ {c}]
    /\ OnCmdDone(t)
    /\ UNCHANGED <<shared, personal, isReading, registered, isValid, tst,
                   asyncOn, asyncPending, closeOn, closePending, closing,
                   readerOn, chOpen, ch, cv>>

\* Mutant: the close handler leaves commandAsync running.
CloseHandlerNoAsyncStop(t) ==
    /\ Loop(t) /\ closeOn[t] /\ closePending[t]
    /\ closePending' = [closePending EXCEPT ![t] = FALSE]
    /\ closing' = [closing EXCEPT ![t] = "stopping"]
    /\ UNCHANGED <<qv, tst, asyncOn, asyncPending, closeOn, readerOn, chOpen,
                   ch, exec, cv, st>>

\* closeAsync's callback: commandAsync.stop(), then spawn the close
\* coroutine, which first waits for rx.Stop() of the open connection.
CloseHandler(t) ==
    /\ Loop(t) /\ closeOn[t] /\ closePending[t]
    /\ asyncOn' = [asyncOn EXCEPT ![t] = FALSE]
    /\ closePending' = [closePending EXCEPT ![t] = FALSE]
    /\ closing' = [closing EXCEPT ![t] = "stopping"]
    /\ UNCHANGED <<qv, tst, asyncPending, closeOn, readerOn, chOpen, ch, exec,
                   cv, st>>

\* The commands CommandsQueue::Invalidate(t) hands back: the worker's
\* personal queue, then the whole shared queue.
Invalidated(t) == personal[t] \o shared

\* Mutant: what Invalidate returned is dropped instead of pushed.
CloseFinishDropQueue(t) ==
    /\ Loop(t) /\ closing[t] = "stopping"
    /\ personal' = [personal EXCEPT ![t] = <<>>]
    /\ shared' = <<>>
    /\ reqCnt' = [reqCnt EXCEPT ![t] = 0]
    /\ registered' = {}
    /\ isValid' = FALSE
    /\ chOpen' = [chOpen EXCEPT ![t] = FALSE]
    /\ closing' = [closing EXCEPT ![t] = "done"]
    /\ UNCHANGED <<isReading, tst, asyncOn, asyncPending, closeOn,
                   closePending, readerOn, ch, exec, cv, st>>

\* Mutant: the channels are not closed (no conn.CloseCh()).
CloseFinishKeepOpen(t) ==
    /\ Loop(t) /\ closing[t] = "stopping"
    /\ ch' = [ch EXCEPT ![t] = @ \o personal[t] \o shared]
    /\ personal' = [personal EXCEPT ![t] = <<>>]
    /\ shared' = <<>>
    /\ reqCnt' = [reqCnt EXCEPT ![t] = 0]
    /\ registered' = {}
    /\ isValid' = FALSE
    /\ closing' = [closing EXCEPT ![t] = "done"]
    /\ UNCHANGED <<isReading, tst, asyncOn, asyncPending, closeOn,
                   closePending, readerOn, chOpen, exec, cv, st>>

\* After the wait: CommandsQueue::Invalidate (take the personal queue,
\* reqCnt = 0, drain the shared queue, clear thByConns_, isValid_ = false),
\* push what it returned into the first open channel, close the channels.
CloseFinish(t) ==
    /\ Loop(t) /\ closing[t] = "stopping"
    /\ ch' = [ch EXCEPT ![t] = @ \o Invalidated(t)]
    /\ personal' = [personal EXCEPT ![t] = <<>>]
    /\ shared' = <<>>
    /\ reqCnt' = [reqCnt EXCEPT ![t] = 0]
    /\ registered' = {}
    /\ isValid' = FALSE
    /\ chOpen' = [chOpen EXCEPT ![t] = FALSE]
    /\ closing' = [closing EXCEPT ![t] = "done"]
    /\ UNCHANGED <<isReading, tst, asyncOn, asyncPending, closeOn,
                   closePending, readerOn, exec, cv, st>>

\* The interpreters found the channel closed and empty: the connection
\* coroutine stops both asyncs and rx, and loop.run() returns.
ConnFinish(t) ==
    /\ Loop(t) /\ tst[t] = "Serving"
    /\ ~chOpen[t] /\ ch[t] = <<>> /\ exec[t] = {}
    /\ tst' = [tst EXCEPT ![t] = "Exited"]
    /\ asyncOn' = [asyncOn EXCEPT ![t] = FALSE]
    /\ closeOn' = [closeOn EXCEPT ![t] = FALSE]
    /\ UNCHANGED <<qv, asyncPending, closePending, closing, readerOn, chOpen,
                   ch, exec, cv, st>>

-----------------------------------------------------------------------------
(* The callers                                                             *)

\* sendCommand: CommandsQueue::Push.  An invalid queue, or a connection no
\* longer in thByConns_, answers at once with an error.  Otherwise the
\* command goes to the personal queue of the connection's worker or to the
\* shared queue, and a worker that is not reading is woken.
Wake(t) ==
    /\ isReading' = [isReading EXCEPT ![t] = TRUE]
    /\ asyncPending' = [asyncPending EXCEPT ![t] = @ \/ (asyncOn[t] /\ ~isReading[t])]

Issue(c) ==
    /\ st[c] = "New"
    /\ \/ /\ ~isValid \/ (c \in BoundCmds /\ registered = {})
          /\ st' = [st EXCEPT ![c] = "Rejected"]
          /\ UNCHANGED <<shared, personal, isReading, asyncPending>>
       \/ /\ isValid /\ c \in BoundCmds
          /\ \E t \in registered :
               /\ personal' = [personal EXCEPT ![t] = Append(@, c)]
               /\ Wake(t)
          /\ st' = [st EXCEPT ![c] = "Queued"]
          /\ UNCHANGED shared
       \/ /\ isValid /\ c \notin BoundCmds
          /\ \E t \in Threads :
               /\ shared' = Append(shared, c)
               /\ Wake(t)
          /\ st' = [st EXCEPT ![c] = "Queued"]
          /\ UNCHANGED personal
    /\ UNCHANGED <<reqCnt, registered, isValid, tst, asyncOn, closeOn,
                   closePending, closing, readerOn, chOpen, ch, exec, cv>>

-----------------------------------------------------------------------------
(* The specification                                                       *)

\* Before the first Connect no worker runs and the queue is not valid.
Init ==
    /\ shared = <<>>
    /\ personal = [t \in Threads |-> <<>>]
    /\ reqCnt = [t \in Threads |-> 0]
    /\ isReading = [t \in Threads |-> FALSE]
    /\ registered = {}
    /\ isValid = FALSE
    /\ tst = [t \in Threads |-> "Off"]
    /\ asyncOn = [t \in Threads |-> FALSE]
    /\ asyncPending = [t \in Threads |-> FALSE]
    /\ closeOn = [t \in Threads |-> FALSE]
    /\ closePending = [t \in Threads |-> FALSE]
    /\ closing = [t \in Threads |-> "none"]
    /\ readerOn = [t \in Threads |-> FALSE]
    /\ chOpen = [t \in Threads |-> FALSE]
    /\ ch = [t \in Threads |-> <<>>]
    /\ exec = [t \in Threads |-> {}]
    /\ cpc = "Idle"
    /\ runningWorkers = 0
    /\ lastError = FALSE
    /\ connects = 0
    /\ st = [c \in Cmds |-> "New"]

WorkerStep(t) ==
    \/ ConnDone(t) \/ ReaderSpawn(t) \/ ReaderGet(t) \/ ExecStart(t)
    \/ \E c \in Cmds : ExecDone(t, c)
    \/ CloseHandler(t) \/ CloseFinish(t) \/ ConnFinish(t)

Next ==
    \/ ConnectStart \/ ConnectReturn \/ StopStart \/ Join
    \/ \E t \in Threads : WorkerStep(t)
    \/ \E c \in Cmds : Issue(c)

\* Every ready coroutine of a running event loop is resumed, every call on
\* a connection returns (rx.Stop() ends those in flight), and the thread
\* in Connect or Stop runs once its future is set or its joins end.
\* Callers, Connect and Stop are not fair: the user may stop calling.
Fairness ==
    /\ \A t \in Threads :
         /\ WF_vars(ConnDone(t)) /\ WF_vars(ReaderSpawn(t))
         /\ WF_vars(ReaderGet(t)) /\ WF_vars(ExecStart(t))
         /\ WF_vars(CloseHandler(t)) /\ WF_vars(CloseFinish(t))
         /\ WF_vars(ConnFinish(t))
         /\ \A c \in Cmds : WF_vars(ExecDone(t, c))
    /\ WF_vars(ConnectReturn) /\ WF_vars(Join)

Spec == Init /\ [][Next]_vars /\ Fairness

-----------------------------------------------------------------------------
(* Properties                                                              *)

States == {"Off", "Connecting", "Serving", "Exited"}

TypeOK ==
    /\ shared \in Seq(Cmds) /\ personal \in [Threads -> Seq(Cmds)]
    /\ reqCnt \in [Threads -> Int] /\ isReading \in [Threads -> BOOLEAN]
    /\ registered \subseteq Threads /\ isValid \in BOOLEAN
    /\ tst \in [Threads -> States]
    /\ asyncOn \in [Threads -> BOOLEAN] /\ asyncPending \in [Threads -> BOOLEAN]
    /\ closeOn \in [Threads -> BOOLEAN] /\ closePending \in [Threads -> BOOLEAN]
    /\ closing \in [Threads -> {"none", "stopping", "done"}]
    /\ readerOn \in [Threads -> BOOLEAN] /\ chOpen \in [Threads -> BOOLEAN]
    /\ ch \in [Threads -> Seq(Cmds)] /\ exec \in [Threads -> SUBSET Cmds]
    /\ cpc \in {"Idle", "AwaitRunning", "Stopping", "StopInConnect"}
    /\ runningWorkers \in 0..Cardinality(Threads)
    /\ lastError \in BOOLEAN /\ connects \in 0..MaxConnects
    /\ st \in [Cmds -> {"New", "Queued", "Rejected", "Answered"}]

\* How many times c is held by the queues, the channels and the
\* interpreters together.
Occ(s, c) == Cardinality({i \in DOMAIN s : s[i] = c})
Copies(c) ==
    Occ(shared, c)
      + LET f[T \in SUBSET Threads] ==
              IF T = {} THEN 0
              ELSE LET t == CHOOSE x \in T : TRUE
                   IN  Occ(personal[t], c) + Occ(ch[t], c)
                         + (IF c \in exec[t] THEN 1 ELSE 0) + f[T \ {t}]
        IN  f[Threads]

\* Through Get, Invalidate on close and the interpreters, a command that
\* was accepted and not yet answered is held in exactly one place, and
\* an answered or rejected one in none: no command is lost or run twice.
CmdAccounted ==
    \A c \in Cmds : Copies(c) = (IF st[c] = "Queued" THEN 1 ELSE 0)

\* The reader coroutine only runs while its connection's channel is open
\* (assert(conn.IsChOpened()) before PushCmd): the close path stops
\* commandAsync before it closes the channel.
ReaderChannelOpen == \A t \in Threads : readerOn[t] => chOpen[t]

\* Every command the queue accepted is answered: its caller's
\* sendCommand returns.
AcceptedAnswered == \A c \in Cmds : st[c] = "Queued" ~> st[c] = "Answered"

\* Connect and Stop return.
ControlReturns == cpc # "Idle" ~> cpc = "Idle"

=============================================================================
