# TLA+ models of the reindexer replication core

These modules model the leader side of reindexer's replication. The main
source is `src/cpp_src/cluster/replication/replicationthread.cc`, class
`ReplThread<BehaviourParamT>`. The models are checked with TLC.

## The system

The storage engine of the leader pushes blocks of `UpdateRecord`s into a
shared **UpdatesQueue**. One or more **ReplThread**s each run an event loop
with one coroutine per follower node. `nodeReplicationRoutine` drives one
node through this loop:

1. Loop head: wait for permission, reconnect, and check that replication
   is allowed.
2. `nodeReplicationImpl`: forget the per-namespace state, then start one sync
   routine per namespace. These routines share `integralError` and a pool of
   sync tokens (`nsSyncTokens_`).
3. `syncNamespace`: read the follower's replication state and choose the
   LSN to sync from (`requiredLsn`). Take a snapshot (WAL or raw). For a raw
   snapshot or a different namespace version, fill a temporary namespace and
   rename it. Finally re-read the follower's state, set the watermark
   `latestLsn`, and compare the hash. The caller retries once with an empty
   state on `errDataHashMismatch`.
4. `nodeUpdatesHandlingLoop`: read the queue from `nextUpdateId`, block by
   block.
   - A drop block (the reader fell behind the queue's capacity) forces a
     resync.
   - Outdated records are skipped but acknowledged.
   - Batchable records go to the **UpdatesBatcher**.
   - Other records first wait for the batch, then are applied directly.
   - Every answer is counted in the record's quorum (`OnUpdateReplicated`).
     A lost quorum requests a leader reelection.
   - When the queue is empty the routine waits on its `updateNotifier`
     channel.
5. On error the routine sleeps in steps. After a network error,
   `handleUpdatesWithError` counts every queued update as failed for the
   node between the steps.

`SetTerminate(true)` sets `terminate_` and wakes the notifier coroutine.
That coroutine closes every node's channel.

**ClusterReplThread** (`clusterreplthread.cc`) owns one ReplThread and
adds raft role switches:
- raft calls `OnRoleSwitch`, which sends `roleSwitchAsync_`;
- its callback marks every node for resync (`requireResync`) and, for
  a leader, closes `leadershipAwaitCh`; for a follower it reopens the
  channel and disconnects every node's client;
- `IsLeader()` is "the channel is closed", and `AwaitReplPermission()` at
  the loop head blocks while it is open;
- the sync routine checks `IsLeader` after `GetReplState`, after the sync
  token and before each snapshot chunk; the updates loop checks it and
  `requireResync` at the top of each block;
- the sync routine also polls the follower until it reports itself a
  `ClusterReplica` of this leader, at most `kMaxRetriesOnRoleSwitchAwait`
  times, then fails with `errTimeout`;
- `SendTerminate` sets `terminate_` and sends the same async, whose
  callback then only closes the channel.

## Modules

| Module | Models | Source |
|---|---|---|
| `UpdatesQueue` | The queue as an append-only sequence: block ids, drop blocks past `QueueCapacity`, and per-record quorum counters with a result decided once | spec.md 3 and 4.1 (`updatesqueue.h` is not in `src/`; spec_modelled) |
| `ReplThread` | One ReplThread, its follower nodes, and its environment | `replicationthread.cc` |
| `MCReplThread` | Model values, initial follower states, and block shapes for TLC | – |
| `SyncCoroReindexer` | The synchronous client: CommandsQueue, worker event loops, Connect and Stop | `client/synccororeindexerimpl.cc` (Push from the header, assumed) |
| `MCSyncCoroReindexer` | Model values for it | – |
| `ProxiedTransaction` | A follower's proxied transaction: owner calls, completion callbacks, AsyncData, item cache | `core/transaction/proxiedtransaction.cc` |
| `MCProxiedTransaction` | The bound on calls | – |
| `QueryResultsIteration` | Abstract: what iterating over query results promises | – |
| `CoroQueryResults` | The client's paged results iterator; refines `QueryResultsIteration` | `client/coroqueryresults.cc` |
| `MCCoroQueryResults` | Result count and page size | – |

`ReplThread`'s environment is the leader's LSNs and snapshots, the
followers' storage, the network, the writer, and `SetTerminate`.

### State of `ReplThread`

| Variable | Code |
|---|---|
| `lsn` | the leader's last LSN counter per namespace |
| `fexists`, `fver`, `fdata` | the follower's namespace: whether it exists, its version, and the set of write counters applied to it. `Foreign(c)` is a write the follower made itself as an earlier leader. |
| `tmpData` | the temporary namespace of a force sync |
| `online`, `failures` | the connection to each node, and the number of losses so far (bounded) |
| `terminate` | `terminate_` |
| `pendingNotify`, `tok`, `chClosed` | `hasPendingNotificaions_`, a wake-up token in `node.updateNotifier`, and the channels closed on terminate |
| `syncTokens` | tokens of `nsSyncTokens_` in use |
| `reelection` | `OnUpdateReplicationFailure` was called |
| `pc` | where each node's routine is suspended: Top, Sync, Read, Rec, Await, Idle, Backoff, Done |
| `nextUpdateId`, `latestLsn` | `node.nextUpdateId` and `namespaceData[ns].latestLsn` |
| `nerr`, `integralError` | the error `nodeReplicationImpl` returned, and the sync routines' shared error |
| `sst`, `snap` | the stage and locals of each namespace's sync routine |
| `blkEnd`, `res`, `inflight`, `batchErr`, `requireReelections` | locals of the updates loop: the end of the current block, the `UpdateApplyStatus`, ids in the batcher, a failed batched update, and the reelection flag |
| `tx` | `namespaceData[ns].tx`: `NoTx` when `IsFree()`, otherwise the LSN of the BeginTx that opened it |
| `role`, `switches` | `sharedSyncState_.CurrentRole()`, and the number of raft role changes so far (bounded by `MaxRoleSwitches`) |
| `roleSignal`, `gateOpen` | `roleSwitchAsync_` sent and its callback not yet run; `leadershipAwaitCh.opened()` |
| `remoteReady` | the follower reports itself a `ClusterReplica` of this node |
| `requireResync`, `clientStopped` | `node.requireResync`, and `node.client` stopped by `DisconnectNodes` until the next `node.Reconnect` |
| `roleTries` | iterations of each sync routine's role-await loop |
| `stray` | ghost: data reached a follower while the gate stood open for a handled demotion |

`Reachable(n)` (an RPC to the node succeeds) is `online[n]` and not
`clientStopped[n]`.

Each action ends at a suspension point of the coroutine: an RPC, a channel
pop, a token wait, or a sleep. So everything between two suspension points
is one step.

### Actions

Node routine:
- `RoutineTop` is the loop head plus the start of `nodeReplicationImpl`,
  which rolls back every open transaction (`tx` becomes `NoTx`).
- `ReturnFromImpl` passes the result back to the routine.
- `BackoffDrain` is `handleUpdatesWithError`.
- `BackoffEnd` is the end of the sleep.

Sync routine:
- `SyncRemote` reads `GetReplState` on the follower.
- `SyncSnapshot` covers the token, `requiredLsn` and `GetSnapshot`.
- `SyncCreateTmp`, `SyncChunk` and `SyncRename` write the follower.
- `SyncVerify` covers the check after the sync and the single retry on
  mismatch.
- `SyncJoin` is `localWg.wait()`.

Updates loop:
- `StreamRead` is `Read` plus the drop block.
- `StreamRec` handles one record of the block. It is one of
  `SkipInvalidated`, `SkipOutdated`, `TxMissing` (a CommitTx over a free
  `tx`: `errTxDoesNotExist` and `--nextUpdateId`), `RetryOnBatchError`,
  `BatchUpdate`, or `ApplyUnbatched` (and `ApplyFailed` or `ApplyError`
  when that fails).
- Transactions: a block `<<Begin,Commit>>` is a BeginTx and a CommitTx;
  the item records of the transaction need an open `tx` exactly as the
  CommitTx does and are folded into it. `ApplyUnbatched` opens `tx` on a
  BeginTx (`NewTransaction`), fails with "Tx is not empty" when one is
  open, and on a CommitTx writes every LSN from the BeginTx's on and
  frees `tx` (`Written`, `TxAfter`). The client's `CommitTransaction` is
  not in the repository; that it leaves the transaction free is assumed.
- `BatchComplete` is the batcher's completion callback.
- `StreamAwait` covers `AwaitBatchedUpdates`, the reelection request and the
  loop's verdict.
- `StreamIdle` is `updatesNotifier.pop()`.

Environment:
- `Write` is a push by the storage engine. `Drop` trims the queue.
- `Notify` is the `updatesAsync_` coroutine together with `updatesNotifier`.
  On terminate it also runs `DisconnectNodes` (line 401), so every RPC
  after it fails.
- `Disconnect` and `Reconnect` change the network.
- `SetTerminate` is `SendTerminate`: `SetTerminate(true)` and the
  role-switch async. The callback is raised only while the gate is open:
  with `terminate_` set it only closes the gate, so on a closed gate it
  changes nothing.
- `Stopped` means every node's routine has returned.

Role switches:
- `RoleSwitch` is raft changing the role and calling `OnRoleSwitch`.
- `RoleSwitchHandler` is the `roleSwitchAsync_` callback. The bodies of
  `SetNodesRequireResync` and `DisconnectNodes` are in
  `replicationthread.h`, which is not in the repository; they are modelled
  from their names (every node's `requireResync` set, every client
  stopped). `IsInitialSyncDone()` is taken as true.
- `RemoteFollow(n)` is the follower's own raft catching up: it reports
  itself a replica of this node exactly while this node leads.
- `RoutineTop` waits for the gate to close (`AwaitReplPermission`), then
  reconnects a stopped client and clears `requireResync`.
- `SyncRemote` is one pass of the role-await loop (lines 267-345), with the
  leadership check, the sibling-error check, the poll and the timeout.
- `Write` happens only while this node is the leader.

PROJECT.json's `map` gives the lines of each definition. Definitions named
`...OffByOne`, `...Twice`, `...AlwaysOk`, `...ErrorFirst`, `...NoHash`,
`...RetrySame`, `...Ignored`, `...NoClose`, `...NoDisconnect`,
`...NoTimeout`, `...NoReconnect`, `...TxFirst` and `...TerminateOpen` are mutants. They are defined
next to the operator they replace and are used only by the mutant runs.

## Properties

Each property's comment in `ReplThread.tla` gives it in prose.
- `TypeOK` is the type invariant.
- `ApprovalMeansApplied`: every node counted as an approval of an update
  holds the write. This is threatened by:
  - the outdated skip, which acknowledges on the strength of `latestLsn`;
  - the completion callback, which moves the watermark even on failure;
  - drops and resyncs.
- `DurableOnSuccess`: a Success result means the leader and at least
  `ConsensusCnt - 1` followers hold the write.
- `SyncedPrefix` (action property): a node starts streaming only when every
  namespace is a gap-free copy of the leader's, up to the watermark it will
  filter by.
- `AckOncePerNode`: no update is counted twice for one node, through
  retries, drains and resyncs.
- `QuorumLossReported`: once an update's quorum is unreachable, a reelection
  has been requested or is pending in the loop that saw it.
- `EventuallyConverged`: unless terminated, every follower ends with the
  leader's data whenever this node ends up the leader.
- `TerminationPrompt`: after `SetTerminate(true)` every routine returns,
  including one parked at a leadership gate left open by a demotion.
- `LeaderOnlyWrites`: while the gate stands open for a handled demotion,
  no temporary namespace, chunk, rename or update reaches a follower.
  The loop checks `IsLeader` only at the top of a block and the sync not
  before `CreateTemporaryNamespace` or `RenameNamespace`, so this rests
  on `DisconnectNodes`.
- `TxStateConsistent`: no CommitTx meets a free transaction
  (`errTxDoesNotExist`) and no BeginTx meets an open one. A BeginTx whose
  RPC fails sends the node into a resync; the CommitTx behind it is then
  skipped only because the resync's watermark covers it, and only because
  the outdated check comes before the transaction check (line 702 before
  line 714). The mutant that swaps the two fails and resyncs on that
  CommitTx for ever. spec.md (section 7) calls this error a retry of the update, "not
  fatal to the node routine"; in the code it ends
  `nodeUpdatesHandlingLoop`, and the routine backs off and resyncs before
  the record is read again.
- A BeginTx carries no write of its own (`IsWrite`), so
  `ApprovalMeansApplied` and `DurableOnSuccess` speak of the other
  records; the BeginTx's LSN is written by the commit.
- `RetryFailedUpdate` and `NoApplyAfterTerminate` state spec.md's Scenarios
  C and E. The code violates both (see Findings).

## Runs

| Run | Config | Checks | Bounds |
|---|---|---|---|
| repl_safety | `MCReplThread.cfg` | TypeOK, ApprovalMeansApplied, DurableOnSuccess, SyncedPrefix | see below |
| repl_faults | `MCReplThreadFaults.cfg` | ApprovalMeansApplied, AckOncePerNode, QuorumLossReported, TxStateConsistent | see below |
| repl_liveness | `MCReplThreadNs.cfg` | EventuallyConverged, TerminationPrompt | see below |
| repl_roles | `MCReplThreadRoles.cfg` | LeaderOnlyWrites, ApprovalMeansApplied, EventuallyConverged, TerminationPrompt | see below |
| scenario_c | `MCReplThreadScenarioC.cfg` | RetryFailedUpdate (violation expected) | as repl_faults |
| scenario_e | `MCReplThreadScenarioE.cfg` | NoApplyAfterTerminate (violation expected) | as repl_faults |

The bounds of each passing run:
- **repl_safety:**
  - 2 followers (`ConsensusCnt` 2), with symmetry over the followers;
  - 1 namespace, 2 writes, in blocks of `<<Item,Item>>` or `<<Meta>>`;
  - a queue capacity of 1;
  - no connection loss: applies fail only once terminate has stopped the
    clients (connection losses are checked in repl_faults, which repeats
    `ApprovalMeansApplied`; there `DurableOnSuccess` would follow from it and
    `AckOncePerNode`);
  - followers start with a diverged history.
- **repl_faults:**
  - 2 followers that start without the namespace;
  - 2 connection losses;
  - blocks of `<<Item,Meta>>` or a transaction `<<Begin,Commit>>`;
  - a queue capacity of 2 (2.6 million states, about 50 s).
- **repl_liveness:**
  - 1 follower with 2 namespaces at an old version;
  - 1 sync token;
  - 1 write per namespace;
  - 1 connection loss.
- **repl_roles** (649k states, about 100 s):
  - 1 follower with 1 namespace at an old version, blocks of
    `<<Item,Meta>>`, 1 more write;
  - the node starts as leader and changes role twice (demoted, then
    promoted again);
  - the follower needs up to 2 polls to follow (`MaxRoleAwait` 2);
  - 1 connection loss.

The other runs start as leader with no role switch (`MaxRoleSwitches` 0),
so the gate stays closed and they check what they checked before.

Why these bounds are enough:
- Two followers are the smallest set where one node's answer decides a
  quorum and the other's arrives later.
- Two Items in one block give two concurrent batched applies
  (`BatchLimit` 2).
- `<<Item,Meta>>` makes the unbatched record wait for a failed batch.
- A capacity of 1 drops blocks from under a reader.
- The diverged follower starts at LSN 1 against a leader that reaches 2. It
  exercises all three `requiredLsn` cases (follower ahead, equal with a
  different hash, behind) and the hash-mismatch retry.
- Two losses let both followers fail one update, so a quorum becomes
  unreachable.
- Two namespaces with one token make the sync routines compete and share
  `integralError`.
- Two switches from leader give a demotion at any step of the sync or the
  stream, and a promotion that must resync the follower. Two polls give
  both a retried poll and a timeout. Adding a second node or namespace
  to the role run makes it too large for liveness checking (over 9
  million states).

Together the passing runs take every action and every branch but three.
The `HashErr` result after the retry is never taken: only the sync routine
writes a follower's namespace, so a full resync always matches its
snapshot. `TxMissing` and the "Tx is not empty" branch of `ApplyUnbatched`
are never taken either, which is what `TxStateConsistent` says; the
`...TxFirst` mutant reaches the first.

### Fairness

`NodeStep(n)`, `SyncStep(n, ns)`, `Notify`, `Reconnect(n)`,
`RoleSwitchHandler` and `RemoteFollow(n)` are weakly fair:
- the event loop resumes every ready coroutine;
- RPCs return or fail;
- sleeps end;
- the client reconnects on the next loop head;
- the role-switch callback is a coroutine of the same loop;
- a follower's raft eventually learns the current leader (an assumption
  about the cluster, not about this code).

Writes, drops, disconnects, role switches and `SetTerminate` are not fair. They may stop at
any time.

## Findings

- **Scenario C.** A failed non-batched `applyUpdate` has already done
  `++node.nextUpdateId` (line 676). It breaks without the decrement that
  the batched, await and tx paths make (lines 717, 729, 736, 743). The next
  attempt therefore starts after the failed record, which contradicts
  spec.md Scenario C. The follower is repaired only by the full resync that
  follows.
  - The `repl_faults` mutant `ApplyFailedRetrySame` does what the scenario
    asks for. It breaks `AckOncePerNode`, because the retried answer is
    counted twice.
- **Scenario E.** `terminate_` is checked only by the loop conditions
  (lines 644, 797). The records of the current block are still batched and
  applied after `SetTerminate(true)`.

## The client's command queue (`SyncCoroReindexer`)

`client/synccororeindexerimpl.cc` is the synchronous client. Its parts:
- Caller threads call API methods that `sendCommand`. Those methods
  either use a connection (`sendCommand<true,...>(conn, ...)`) or do not.
- `sendCommand` pushes into the `CommandsQueue`. A command on a
  connection goes to the personal queue of the worker that owns it (found
  through `thByConns_`); any other command goes to the shared queue.
- Each worker thread runs an event loop:
  - a connection coroutine (`rx.Connect`, then `SyncRxCoroCount`
    interpreters);
  - a reader coroutine spawned by `commandAsync`. It loops on `Get` and
    pushes what it gets into the connection's channel;
  - a close coroutine spawned by `closeAsync`. It stops the connection,
    runs `Invalidate`, pushes what `Invalidate` returned into the channel,
    and closes the channel.
- `Connect` starts the workers and waits until all have connected.
  `Stop` and `stop()` send `closeAsync` to every worker and join them.

`Push` and `sendCommand` are in `synccororeindexerimpl.h`, which is not in
the repository. `Issue` and `Wake` use the smallest behaviour the `.cc`
implies:
- an invalid queue, or a connection missing from `thByConns_`, answers
  at once with an error;
- otherwise the command is queued, and the target worker is woken through
  `commandAsync` if its `isReading` was false.

A send to a stopped `commandAsync` is lost (libev's `ev_async_start`
clears it). `isValid_` starts false.

| Variable | Code |
|---|---|
| `shared`, `personal`, `reqCnt`, `isReading`, `registered`, `isValid` | `sharedQueue_`, `thData_[t]`, `thByConns_`, `isValid_` |
| `tst` | worker state: Off, Connecting, Serving, Exited (`loop.run()` returned, not joined) |
| `asyncOn`/`asyncPending`, `closeOn`/`closePending` | the two `net::ev::async` watchers |
| `readerOn`, `closing` | the reader and close coroutines |
| `chOpen`, `ch`, `exec` | the connection channel, and the commands its interpreters run |
| `cpc`, `runningWorkers`, `lastError`, `connects` | the thread inside `Connect`/`Stop` (under `workersMtx_`) |
| `st` | each command: New, Queued, Rejected, Answered |

How the model is scheduled:
- Coroutines of one worker run one at a time (`Loop(t)`).
- The reader never suspends, because the channel is unbounded in the
  model. Its `Get`s are steps of their own, and callers' pushes
  interleave with them.

Abstractions:
- One connection per worker.
- Each command is a model value. What it does on the server is only
  its answer.

Properties:
- `CmdAccounted`: an accepted, unanswered command is held in exactly one
  place (a queue, a channel or an interpreter), and any other command in
  none.
- `ReaderChannelOpen`: the `assert(conn.IsChOpened())` before `PushCmd`.
- `AcceptedAnswered`: every accepted command is answered.
- `ControlReturns`: `Connect` and `Stop` return.

| Run | Config | Bounds | Result |
|---|---|---|---|
| client_safety | `MCSyncCoroReindexer.cfg` | 2 workers (symmetric), 2 shared commands + 1 on a connection, 2 Connects that may fail | pass |
| client_liveness | `MCSyncCoroReindexerLive.cfg` | as above, 1 Connect that succeeds | pass |
| client_restart | `MCSyncCoroReindexerRestart.cfg` | 2 Connects that succeed | `AcceptedAnswered` violated |
| client_failed_connect | `MCSyncCoroReindexerFailedConnect.cfg` | 1 Connect that may fail | `AcceptedAnswered` violated |

Why these bounds are enough:
- Two workers are needed so that `Invalidate` on one drains commands aimed
  at the other.
- Three commands allow one queued, one in flight and one racing the close
  handler.

Fairness:
- Every ready coroutine of a running loop is weakly fair, and so are the
  returns of `Connect` and of the joins.
- Callers, `Connect` and `Stop` are not fair.

Findings, both subject to the modelled `Push`:
- **Stale `isReading` (client_restart).**
  1. A caller pushes after the close handler has stopped `commandAsync`
     (line 302). It sets `isReading`, but the wake-up is lost.
  2. `Invalidate` drains the command, so that call is still answered.
  3. Nothing clears `isReading` (only `Get` at line 725 does). After
     `Stop` and `Connect`, a command routed to that worker is never read.
- **`SetValid` after a failed `Connect` (client_failed_connect).**
  `Connect` calls `stop()` and then `SetValid()` (line 55). The queue
  then accepts commands with no worker running.
- **Negative `reqCnt`.** TLC also reaches `reqCnt = -1`. `Invalidate`
  zeroes the counter (line 747) while commands it handed over are still
  to run. What this does to `Push` cannot be judged without the header.

## The proxied transaction (`ProxiedTransaction`)

A follower proxies a transaction to the leader. The owner thread makes the
calls; most requests are sent asynchronously. Their completion callbacks
run on client worker threads and meet the owner only in `AsyncData`:
a mutex, the counter `asyncRequests_`, the first error `err_`, and `cv_`.

State:
- `asyncRequests`, `err`: `AsyncData`'s counter and error.
- `waiting`: the owner is blocked in `cv_.wait`.
- `inflight`, `failed`: ghost sets of requests whose callback has not run,
  and of those answered with an error.
- `cacheValid`, `cacheTm`: `itemCache_`.
- `txTm`: the transaction's tags matcher, as a version number.
- `pc`, `outcome`: where the owner is, and how the transaction ended.

Actions, one per call (lines of `proxiedtransaction.cc`):
- `ModifyItem` (12-77) takes the item from the cache or `NewItem`; a
  failed conversion from the cache is retried with a fresh item. The
  conversion results are boolean choices. An item whose tags matcher was
  updated waits (`Await`); any other item refreshes the cache and is sent
  with `SendAsync` (`AddNewAsyncRequest`, 148-152, which throws once
  `err_` is set).
- `ModifyItemSync`/`SyncModifyDone` (54-62): after the wait, whose error is
  ignored, invalidate the cache and send the item synchronously.
- `ModifyQuery` (Modify(Query) and PutMeta), `SetTagsMatcher` (98-109).
- `Commit`/`CommitSend` (120-146) and `Rollback`/`RollbackSend` (111-118).
- `OnAsyncRequestDone` (154-161), on any thread, for any request in flight.

Run `txn_proxy` (MaxOps = 3, 1134 states) checks:
- `CommitAfterAllApplied`: a commit is sent only when every asynchronous
  request has completed and none failed.
- `CacheCurrent`: a valid cache holds the current tags matcher.
- `AwaitReturns`: every wait returns.

Three calls are enough for a request to be in flight during a
tm-updating item, a SetTagsMatcher and the commit. Fairness: every request
is answered (its callback is weakly fair), and the owner, once woken, runs
on. The owner's own calls are not fair: it may stop at any point, which is
why the run does not check deadlock. Not modelled: `tx_.Status()` and
`CommitTransaction`'s own result. Also left out is a `tx_.modify` that
fails without ever running its callback, which would hang the next wait.
The client transaction code that decides this is not under `src/`.

## Paged query results (`QueryResultsIteration`, `CoroQueryResults`)

A select answer carries the first `count` of `qcount` results. The
iterator's `operator++` (477-492) fetches the next page with
`kCmdFetchResults` at offset `count + fetchOffset_` when `idx_` reaches the
page's end but not the results' end. `handleFetchedBuf` (102-119)
advances `fetchOffset_` by the old count, then parses the answer, then
sets the status to ok.

`CoroQueryResults` abstracts bytes to item positions:
- `page` is the sequence of result indexes in `rawResult_`;
- `pos`/`nextPos` are positions in it, and `nextPos = 0` means "not
  parsed", as in the code;
- `item` is `itemParams_`, and `got` is what `GetItem` returned.

`readNext` (440-475) is `ReadOutcomes`: it reads a result, or fails past
the page's end or, with `ParseErrors`, on a malformed item. A fetch either
fails (`CallFailed`), has a malformed answer (`AnswerUnparsable`, only
with `ParseErrors`), or returns 1 to `FetchAmount` results
(`HandleFetchedBuf`). `GetItem` (354-390) reads and keeps the item;
`ReadField` is the field getters `GetLSN` ... `GetJoined` (392-438),
which call `readNext` too, so they may parse the item and set the
status, but give the reader no item.

`QueryResultsIteration` is what a reader may rely on:
- indexes are walked in order;
- a read while ok yields the current result;
- a read in error yields at most a stale earlier one (the getters do not
  check the status);
- inspecting a field (`Inspect`) moves nothing but may set the error.

`Refines` is `INSTANCE QueryResultsIteration WITH ok <- status`, checked as
a property.

Run `results_refinement` (QCount = 5, FetchAmount = 2, so pages of one
and two results alternate in every order; ParseErrors on): with failed
fetches and malformed data, the iterator still refines the abstract
iteration.

An observation without a property: the status does not keep an error.
An item fails to parse and sets the status, `++` reaches the page end, and
the fetch ends with `status_ = Error()` (line 118). The results between
the bad item and the page boundary are skipped, and `Status()` is ok
afterwards. Neither the spec, a comment nor a test says whether the
status should keep the first error, so no property states either answer
(hazard list, `coroqueryresults.cc:118`).

Not modelled: the destructor's `kCmdCloseResults`, explain and aggregation
parsing, and the output formats. A failed `Bind` parse is also left out,
as the iteration starts from a parsed first page. The synchronous
`DbCmdFetchResults` (`synccororeindexerimpl.cc` 555-591) has the same
order of offset and parse. Its iterator is not under `src/`.

## Not modelled yet (plan)

1. **The rest of ClusterReplThread:**
   - `AwaitTermination` and a second `Run`: `SetTerminate(false)` leaves
     the gate closed, so a restart passes `AwaitReplPermission` until the
     owner calls `OnRoleSwitch` (the owner is not in the repository);
   - the role-await loop of `nodeReplicationImpl` when there are no
     namespaces (lines 346-375);
   - `AwaitReplPermission` in `Run` before the routines start (line 85),
     which the routines repeat at their loop head.
2. **Network-check records and the connection observer:**
   - the connection observer that sets `requireResync` and pushes a
     `NodeNetworkCheck` record (line 179);
   - `handleNetworkCheckRecord` and the retry it triggers in
     `handleUpdatesWithError`.
3. **Namespace lifecycle and transactions:**
   - Add/Drop/Close namespace records and `isClosed`;
   - a namespace missing on the leader;
   - the tm update select (`requiresTmUpdate`);
   - two transactions in one namespace, which a missing rollback at the
     start of `nodeReplicationImpl` would need before it shows (the
     faults run allows one, within its time budget).
4. **An abstract specification.** Each follower's namespace is a prefix of
   the leader's, with a refinement mapping from `ReplThread`.
5. **The client:**
   - several connections per worker, and `GetConn`'s choice among them;
   - the channel's capacity, which would let the reader suspend in
     `PushCmd`.
6. **Left out entirely:**
   - the async-replication mode (`checkIfReplicationAllowed`,
     `SetClusterizationStatus`);
   - server ids inside LSNs;
   - stats and logging;
   - `client/itemimplbase.cc` (item field access and format conversion);
   - the query engine headers `selectiterator.h` and
     `querypreprocessor.h`: data transformation and query planning with
     no concurrency or protocol state a property would tell apart;
   - `namespace.h`, the `Namespace` wrapper: its retry loops
     (`nsFuncWrapper`, lines 153-205) and `awaitMainNs` react to a
     namespace copy that `NamespaceImpl` invalidates and replaces, and
     both the copy and the invalidation live in `namespace.cc` and
     `namespaceimpl.cc`, which are not in the repository, and spec.md does
     not describe them. A model would invent the half of the protocol
     that decides every property.
