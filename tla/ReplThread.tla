----------------------------- MODULE ReplThread -----------------------------
(***************************************************************************)
(* One replication thread (ReplThread<ClusterThreadParam>,                 *)
(* cluster/replication/replicationthread.cc) replicating the leader's     *)
(* namespaces to a set of follower nodes, together with the parts of its  *)
(* environment it talks to: the leader's storage (GetReplState and        *)
(* GetSnapshot), the followers' storage behind the RPC client, the        *)
(* network, the writer that pushes into the UpdatesQueue, and SetTerminate.*)
(*                                                                         *)
(* Per node the routine is a state machine (pc):                          *)
(*   Top      loop head of nodeReplicationRoutine                          *)
(*   Sync     nodeReplicationImpl: one sync routine per namespace (sst)    *)
(*   Read     nodeUpdatesHandlingLoop: Read(nextUpdateId)                  *)
(*   Rec      the for-loop over the records of the block being handled     *)
(*   Await    AwaitBatchedUpdates after the block, then the loop's verdict *)
(*   Idle     updatesNotifier.pop()                                        *)
(*   Backoff  the retry sleep, with handleUpdatesWithError                 *)
(*   Done     routine returned after terminate                             *)
(* Each step ends at a suspension point of the coroutine (an RPC, a       *)
(* channel pop, a token wait or a sleep).                                  *)
(***************************************************************************)
EXTENDS UpdatesQueue, Integers, FiniteSetsExt

CONSTANTS
    Namespaces,      \* namespace names (model values)
    MaxLsn,          \* writes the leader makes per namespace
    BlockShapes,     \* record kinds of one Push, e.g. <<"Item","Item">>
    WalDepth,        \* MaxWALDepthOnForceSync: older followers get raw data
    BatchLimit,      \* BatchingRoutinesCount
    ParallelSyncs,   \* ParallelSyncsPerThreadCount (0: no token pool)
    MaxNetFailures,  \* connection losses in one behaviour
    InitFollowers,   \* possible storage states of a follower at start
    InitLsn,         \* highest LSN a leader namespace may start with
    InitRoles,       \* this node's raft role at start
    MaxRoleSwitches, \* raft role changes in one behaviour
    MaxRoleAwait     \* kMaxRetriesOnRoleSwitchAwait

ASSUME MaxLsn \in Nat /\ WalDepth \in Nat /\ ParallelSyncs \in Nat
ASSUME BatchLimit \in Nat \ {0}
ASSUME MaxRoleAwait \in Nat \ {0} /\ MaxRoleSwitches \in Nat
ASSUME InitRoles \subseteq {"Leader", "Follower"}
ASSUME BlockShapes \subseteq Seq({"Item", "Meta", "Begin", "Commit"})

Empty      == -1      \* lsn_t counter of an empty ExtendedLsn
LeaderVer  == 2       \* namespace version of the leader's namespaces
NoTmp      == [exists |-> FALSE, data |-> {}] \* no temporary namespace
Ok         == "ok"
NetErr     == "net"
HashErr    == "hash"  \* errDataHashMismatch after the retry
LeaderErr  == "leader"  \* errParams "Leader was switched"
TimeoutErr == "timeout" \* errTimeout "Unable to sync namespace"
TxErr      == "tx"    \* errTxDoesNotExist, or errLogic "Tx is not empty"
NoTx       == 0       \* nsData.tx.IsFree()

\* A namespace's content is the set of write counters applied to it; a
\* write the follower made itself (as an earlier leader) and that the
\* current leader never had is kept as Foreign(counter).
Prefix(k) == 1..k
Foreign(c) == -c
Counter(x) == IF x < 0 THEN -x ELSE x

VARIABLES
    lsn,            \* leader: last LSN counter per namespace
    fexists,        \* follower storage: does the namespace exist
    fver,           \*   its namespace version
    fdata,          \*   the counters applied to it
    tmpData,        \*   the temporary namespace of a force sync, or NoTmp
    online,         \* network: RPCs to the node succeed
    failures,       \* connection losses so far
    terminate,      \* terminate_
    pendingNotify,  \* hasPendingNotificaions_ (updatesAsync_ sent)
    tok,            \* node.updateNotifier holds a wake-up token
    chClosed,       \* updateNotifier channels closed on terminate
    syncTokens,     \* nsSyncTokens_ tokens in use
    reelection,     \* OnUpdateReplicationFailure was called
    pc,             \* position of each node routine
    nextUpdateId,   \* node.nextUpdateId
    latestLsn,      \* node.namespaceData[ns].latestLsn (counter)
    nerr,           \* error returned by nodeReplicationImpl
    integralError,  \* nodeReplicationImpl's integralError
    sst,            \* stage of the per-namespace sync routine
    snap,           \* the sync routine's locals (follower state, snapshot)
    blkEnd,         \* last id of the block being handled
    res,            \* UpdateApplyStatus of the updates loop
    inflight,       \* ids submitted to the UpdatesBatcher, not completed
    batchErr,       \* a batched update failed since the last await
    requireReelections,
    tx,             \* nsData.tx: NoTx, or the LSN of the BeginTx that opened it
    role,           \* sharedSyncState_.CurrentRole()
    roleSignal,     \* roleSwitchAsync_ sent, its callback not run yet
    gateOpen,       \* leadershipAwaitCh.opened(): IsLeader() is its negation
    switches,       \* raft role changes so far
    remoteReady,    \* the follower reports ClusterReplica of this leader
    requireResync,  \* node.requireResync
    clientStopped,  \* node.client stopped by DisconnectNodes
    roleTries,      \* iterations of the sync routine's role-await loop
    stray           \* data reached a follower after a handled demotion

envVars    == <<lsn, fexists, fver, fdata, tmpData, online, failures, terminate>>
threadVars == <<pendingNotify, tok, chClosed, syncTokens, reelection>>
nodeVars   == <<pc, nextUpdateId, latestLsn, nerr, integralError, sst, snap,
                blkEnd, res, inflight, batchErr, requireReelections, tx>>
roleVars   == <<role, roleSignal, gateOpen, switches, remoteReady, requireResync,
               clientStopped, roleTries, stray>>
vars == <<qvars, envVars, threadVars, nodeVars, roleVars>>

\* RPCs to the node succeed: the network is up and the client not stopped.
Reachable(n) == online[n] /\ ~clientStopped[n]

\* ClusterThreadParam::IsLeader: the leadership gate is closed.
IsLeader == ~gateOpen

\* Data reaches a follower: record it if the role-switch callback has
\* opened the gate for a demotion and no newer switch is pending.
Sent == stray' = (stray \/ (gateOpen /\ ~roleSignal))

Stages == {"None", "Remote", "Snapshot", "CreateTmp", "Chunks", "Verify", "Done"}
EmptyState == [ver |-> 0, lsn |-> Empty, hash |-> {}]

-----------------------------------------------------------------------------
(* Replication state and snapshots                                        *)

\* client.GetReplState(ns) on the follower.
FollowerState(n, ns) ==
    IF fexists[n][ns]
    THEN [ver |-> fver[n][ns],
          lsn |-> IF fdata[n][ns] = {} THEN 0
                  ELSE Max({Counter(x) : x \in fdata[n][ns]}),
          hash |-> fdata[n][ns]]
    ELSE EmptyState

\* syncNamespace: the LSN to sync from; any doubt means a full resync.
RequiredLsn(fs, ns) ==
    IF fs.lsn = Empty \/ fs.ver # LeaderVer THEN fs
    ELSE IF fs.lsn > lsn[ns] THEN EmptyState
    ELSE IF fs.lsn = lsn[ns] /\ fs.hash # Prefix(lsn[ns]) THEN EmptyState
    ELSE fs

\* thisNode.GetSnapshot(ns, SnapshotOpts(requiredLsn, MaxWALDepth)), and
\* the createTmpNamespace decision taken on it.
Snapshot(req, ns) ==
    LET raw == req.lsn = Empty \/ req.ver # LeaderVer \/ lsn[ns] - req.lsn > WalDepth
        from == IF raw THEN 0 ELSE req.lsn
    IN  [ver |-> LeaderVer, lsn |-> lsn[ns],
         tmp |-> raw \/ req.ver # LeaderVer,
         chunks |-> [i \in 1..(lsn[ns] - from) |-> from + i]]

\* A write with LSN counter c reaches the follower's namespace.
Apply(n, ns, c) == fdata' = [fdata EXCEPT ![n][ns] = @ \cup {c}]

-----------------------------------------------------------------------------
(* nodeReplicationRoutine                                                  *)

\* Mutant: the loop head skips node.Reconnect after a disconnect.
RoutineTopNoReconnect(n) ==
    /\ pc[n] = "Top"
    /\ IsLeader
    /\ IF terminate
       THEN /\ pc' = [pc EXCEPT ![n] = "Done"]
            /\ UNCHANGED <<latestLsn, sst, integralError, requireResync, roleTries, tx>>
       ELSE /\ pc' = [pc EXCEPT ![n] = "Sync"]
            /\ latestLsn' = [latestLsn EXCEPT ![n] = [ns \in Namespaces |-> Empty]]
            /\ tx' = [tx EXCEPT ![n] = [ns \in Namespaces |-> NoTx]]
            /\ sst' = [sst EXCEPT ![n] = [ns \in Namespaces |-> "Remote"]]
            /\ integralError' = [integralError EXCEPT ![n] = Ok]
            /\ requireResync' = [requireResync EXCEPT ![n] = FALSE]
            /\ roleTries' = [roleTries EXCEPT ![n] = [ns \in Namespaces |-> 0]]
    /\ UNCHANGED <<qvars, envVars, threadVars, nextUpdateId, nerr, snap,
                   blkEnd, res, inflight, batchErr, requireReelections, role,
                   roleSignal, gateOpen, switches, remoteReady, stray, clientStopped>>

\* Loop head: permission, reconnect, allowance check, then the start of
\* nodeReplicationImpl: roll back an open transaction, drop the
\* per-namespace data and spawn the syncs.
RoutineTop(n) ==
    /\ pc[n] = "Top"
    /\ IsLeader
    /\ IF terminate
       THEN /\ pc' = [pc EXCEPT ![n] = "Done"]
            /\ UNCHANGED <<latestLsn, sst, integralError, requireResync,
                           clientStopped, roleTries, tx>>
       ELSE /\ pc' = [pc EXCEPT ![n] = "Sync"]
            /\ latestLsn' = [latestLsn EXCEPT ![n] = [ns \in Namespaces |-> Empty]]
            /\ tx' = [tx EXCEPT ![n] = [ns \in Namespaces |-> NoTx]]
            /\ sst' = [sst EXCEPT ![n] = [ns \in Namespaces |-> "Remote"]]
            /\ integralError' = [integralError EXCEPT ![n] = Ok]
            /\ clientStopped' = [clientStopped EXCEPT ![n] = FALSE]
            /\ requireResync' = [requireResync EXCEPT ![n] = FALSE]
            /\ roleTries' = [roleTries EXCEPT ![n] = [ns \in Namespaces |-> 0]]
    /\ UNCHANGED <<qvars, envVars, threadVars, nextUpdateId, nerr, snap,
                   blkEnd, res, inflight, batchErr, requireReelections, role,
                   roleSignal, gateOpen, switches, remoteReady, stray>>

\* nodeReplicationImpl returns e to the routine: resync at once on success,
\* otherwise sleep before the next attempt.
ReturnFromImpl(n, e) ==
    /\ nerr' = [nerr EXCEPT ![n] = e]
    /\ pc' = [pc EXCEPT ![n] = IF e = Ok THEN "Top" ELSE "Backoff"]

\* handleUpdatesWithError, run between two sleeps after a network error:
\* it takes a pending wake-up off the channel, then counts every update the
\* node cannot receive as failed for it, skipping dropped blocks.
BackoffDrain(n) ==
    /\ pc[n] = "Backoff"
    /\ ~terminate
    /\ nerr[n] = NetErr
    /\ HasUpdate(nextUpdateId[n])
    /\ LET from == IF IsDropBlock(nextUpdateId[n]) THEN firstId ELSE nextUpdateId[n]
           ids  == from..LastId
       IN  /\ queue' = OnUpdateReplicated(ids, n, FALSE)
           /\ nextUpdateId' = [nextUpdateId EXCEPT ![n] = LastId + 1]
           /\ IF \E i \in ids : ResultAfter(i, n, FALSE) = Error
              THEN reelection' = TRUE ELSE UNCHANGED reelection
    /\ tok' = [tok EXCEPT ![n] = FALSE]
    /\ UNCHANGED <<firstId, envVars, pendingNotify, chClosed, syncTokens,
                   pc, latestLsn, nerr, integralError, sst, snap, blkEnd, res,
                   inflight, batchErr, requireReelections, tx, roleVars>>

\* The retry interval elapsed (or terminate_ cut it short).
BackoffEnd(n) ==
    /\ pc[n] = "Backoff"
    /\ pc' = [pc EXCEPT ![n] = "Top"]
    /\ UNCHANGED <<qvars, envVars, threadVars, nextUpdateId, latestLsn, nerr,
                   integralError, sst, snap, blkEnd, res, inflight, batchErr,
                   requireReelections, tx, roleVars>>

-----------------------------------------------------------------------------
(* The sync routine of one namespace (nodeReplicationImpl's lambda and    *)
(* syncNamespace).                                                         *)

SyncUnchanged == UNCHANGED <<qvars, lsn, online, failures, terminate,
                             pendingNotify, tok, chClosed, reelection,
                             pc, nextUpdateId, nerr, blkEnd, res, inflight,
                             batchErr, requireReelections, role, roleSignal,
                             gateOpen, switches, remoteReady, requireResync,
                             clientStopped, tx>>

\* The routine ends with error e; the first error is the node's.
SyncEnd(n, ns, e) ==
    /\ sst' = [sst EXCEPT ![n][ns] = "Done"]
    /\ integralError' = [integralError EXCEPT ![n] = IF @ = Ok THEN e ELSE @]

\* syncNamespace returns: its sync token is given back.
ReleaseToken(n, ns) ==
    syncTokens' = IF ParallelSyncs > 0 THEN syncTokens - 1 ELSE syncTokens

\* The TmpNsGuard drops the temporary namespace on an error return.
DropTmp(n, ns) == tmpData' = [tmpData EXCEPT ![n][ns] = NoTmp]

\* Mutant: the role-await loop ends without setting errTimeout.
SyncRemoteNoTimeout(n, ns) ==
    /\ sst[n][ns] = "Remote"
    /\ CASE ~IsLeader /\ integralError[n] = Ok ->
              /\ SyncEnd(n, ns, LeaderErr)
              /\ UNCHANGED <<snap, roleTries>>
         [] integralError[n] # Ok ->
              /\ sst' = [sst EXCEPT ![n][ns] = "Done"]
              /\ UNCHANGED <<integralError, snap, roleTries>>
         [] ~Reachable(n) ->
              /\ SyncEnd(n, ns, NetErr)
              /\ UNCHANGED <<snap, roleTries>>
         [] ~remoteReady[n] ->
              /\ roleTries' = [roleTries EXCEPT ![n][ns] = @ + 1]
              /\ IF roleTries[n][ns] + 1 = MaxRoleAwait
                 THEN SyncEnd(n, ns, Ok)
                 ELSE UNCHANGED <<sst, integralError>>
              /\ UNCHANGED snap
         [] OTHER ->
              /\ sst' = [sst EXCEPT ![n][ns] = "Snapshot"]
              /\ snap' = [snap EXCEPT ![n][ns].fs = FollowerState(n, ns),
                                       ![n][ns].retried = FALSE]
              /\ UNCHANGED <<integralError, roleTries>>
    /\ UNCHANGED <<latestLsn, fexists, fver, fdata, tmpData, syncTokens, stray>>
    /\ SyncUnchanged

\* One pass of the role-await loop: client.GetReplState(ns) on the
\* follower, then the leadership and sibling-error checks; a follower that
\* does not yet follow this leader is asked again after a sleep, and after
\* MaxRoleAwait passes the routine fails with errTimeout.
SyncRemote(n, ns) ==
    /\ sst[n][ns] = "Remote"
    /\ CASE ~IsLeader /\ integralError[n] = Ok ->
              /\ SyncEnd(n, ns, LeaderErr)
              /\ UNCHANGED <<snap, roleTries>>
         [] integralError[n] # Ok ->
              /\ sst' = [sst EXCEPT ![n][ns] = "Done"]
              /\ UNCHANGED <<integralError, snap, roleTries>>
         [] ~Reachable(n) ->
              /\ SyncEnd(n, ns, NetErr)
              /\ UNCHANGED <<snap, roleTries>>
         [] ~remoteReady[n] ->
              /\ roleTries' = [roleTries EXCEPT ![n][ns] = @ + 1]
              /\ IF roleTries[n][ns] + 1 = MaxRoleAwait
                 THEN SyncEnd(n, ns, TimeoutErr)
                 ELSE UNCHANGED <<sst, integralError>>
              /\ UNCHANGED snap
         [] OTHER ->
              /\ sst' = [sst EXCEPT ![n][ns] = "Snapshot"]
              /\ snap' = [snap EXCEPT ![n][ns].fs = FollowerState(n, ns),
                                       ![n][ns].retried = FALSE]
              /\ UNCHANGED <<integralError, roleTries>>
    /\ UNCHANGED <<latestLsn, fexists, fver, fdata, tmpData, syncTokens, stray>>
    /\ SyncUnchanged

\* syncNamespace up to its first RPC: await a sync token, check that this
\* node is still the leader, read the local state, choose the required LSN
\* and take the snapshot.
SyncSnapshot(n, ns) ==
    /\ sst[n][ns] = "Snapshot"
    /\ ParallelSyncs = 0 \/ syncTokens < ParallelSyncs
    /\ IF IsLeader
       THEN LET s == Snapshot(RequiredLsn(snap[n][ns].fs, ns), ns)
            IN  /\ syncTokens' = IF ParallelSyncs > 0 THEN syncTokens + 1 ELSE syncTokens
                /\ snap' = [snap EXCEPT ![n][ns] = [@ EXCEPT !.ver = s.ver, !.lsn = s.lsn,
                                                      !.tmp = s.tmp, !.chunks = s.chunks]]
                /\ sst' = [sst EXCEPT ![n][ns] = IF s.tmp THEN "CreateTmp" ELSE "Chunks"]
                /\ UNCHANGED integralError
       ELSE /\ SyncEnd(n, ns, LeaderErr)
            /\ UNCHANGED <<syncTokens, snap>>
    /\ UNCHANGED <<latestLsn, fexists, fver, fdata, tmpData, roleTries, stray>>
    /\ SyncUnchanged

\* CreateTemporaryNamespace on the follower.
SyncCreateTmp(n, ns) ==
    /\ sst[n][ns] = "CreateTmp"
    /\ IF Reachable(n)
       THEN /\ tmpData' = [tmpData EXCEPT ![n][ns] = [exists |-> TRUE, data |-> {}]]
            /\ sst' = [sst EXCEPT ![n][ns] = "Chunks"]
            /\ Sent
            /\ UNCHANGED <<integralError, syncTokens>>
       ELSE /\ SyncEnd(n, ns, NetErr)
            /\ ReleaseToken(n, ns)
            /\ UNCHANGED <<tmpData, stray>>
    /\ UNCHANGED <<snap, latestLsn, fexists, fver, fdata, roleTries>>
    /\ SyncUnchanged

\* One ApplySnapshotChunk, after the terminate_ and IsLeader checks.
SyncChunk(n, ns) ==
    /\ sst[n][ns] = "Chunks"
    /\ snap[n][ns].chunks # <<>>
    /\ IF terminate \/ ~IsLeader \/ ~Reachable(n)
       THEN /\ SyncEnd(n, ns, CASE terminate -> Ok
                                 [] ~IsLeader -> LeaderErr
                                 [] OTHER -> NetErr)
            /\ ReleaseToken(n, ns)
            /\ DropTmp(n, ns)
            /\ UNCHANGED <<snap, fdata, stray>>
       ELSE LET c == Head(snap[n][ns].chunks)
            IN  /\ IF snap[n][ns].tmp
                   THEN /\ tmpData' = [tmpData EXCEPT ![n][ns].data = @ \cup {c}]
                        /\ UNCHANGED fdata
                   ELSE /\ Apply(n, ns, c)
                        /\ UNCHANGED tmpData
                /\ snap' = [snap EXCEPT ![n][ns].chunks = Tail(@)]
                /\ Sent
                /\ UNCHANGED <<sst, integralError, syncTokens>>
    /\ UNCHANGED <<latestLsn, fexists, fver, roleTries>>
    /\ SyncUnchanged

\* RenameNamespace(tmp, ns) replaces the follower's namespace.
SyncRename(n, ns) ==
    /\ sst[n][ns] = "Chunks"
    /\ snap[n][ns].chunks = <<>>
    /\ snap[n][ns].tmp
    /\ IF Reachable(n)
       THEN /\ fexists' = [fexists EXCEPT ![n][ns] = TRUE]
            /\ fver' = [fver EXCEPT ![n][ns] = snap[n][ns].ver]
            /\ fdata' = [fdata EXCEPT ![n][ns] = tmpData[n][ns].data]
            /\ sst' = [sst EXCEPT ![n][ns] = "Verify"]
            /\ Sent
            /\ UNCHANGED <<integralError, syncTokens>>
       ELSE /\ SyncEnd(n, ns, NetErr)
            /\ ReleaseToken(n, ns)
            /\ UNCHANGED <<fexists, fver, fdata, stray>>
    /\ DropTmp(n, ns)
    /\ UNCHANGED <<snap, latestLsn, roleTries>>
    /\ SyncUnchanged

\* Mutant: the check after the sync compares LSN and version only.
DataMismatchNoHash(fs, s) == fs.lsn # s.lsn \/ fs.ver # s.ver

\* The follower's state after the sync must be the snapshot's; a mismatch
\* is retried once as a full resync.
DataMismatch(fs, s) == fs.lsn # s.lsn \/ fs.ver # s.ver \/ fs.hash # Prefix(s.lsn)

SyncVerify(n, ns) ==
    /\ \/ sst[n][ns] = "Verify"
       \/ sst[n][ns] = "Chunks" /\ snap[n][ns].chunks = <<>> /\ ~snap[n][ns].tmp
    /\ ReleaseToken(n, ns)
    /\ IF ~Reachable(n)
       THEN /\ SyncEnd(n, ns, NetErr)
            /\ UNCHANGED <<latestLsn, snap>>
       ELSE LET fs == FollowerState(n, ns)
            IN  /\ latestLsn' = [latestLsn EXCEPT ![n][ns] = fs.lsn]
                /\ CASE ~DataMismatch(fs, snap[n][ns]) ->
                          /\ SyncEnd(n, ns, Ok)
                          /\ UNCHANGED snap
                     [] ~snap[n][ns].retried ->
                          /\ sst' = [sst EXCEPT ![n][ns] = "Snapshot"]
                          /\ snap' = [snap EXCEPT ![n][ns].fs = EmptyState,
                                                   ![n][ns].retried = TRUE]
                          /\ UNCHANGED integralError
                     [] OTHER ->
                          /\ SyncEnd(n, ns, HashErr)
                          /\ UNCHANGED snap
    /\ UNCHANGED <<fexists, fver, fdata, tmpData, roleTries, stray>>
    /\ SyncUnchanged

\* localWg.wait(): all sync routines ended; stream updates or give up.
SyncJoin(n) ==
    /\ pc[n] = "Sync"
    /\ \A ns \in Namespaces : sst[n][ns] = "Done"
    /\ CASE integralError[n] # Ok -> ReturnFromImpl(n, integralError[n])
         [] terminate -> ReturnFromImpl(n, Ok)
         [] OTHER -> /\ pc' = [pc EXCEPT ![n] = "Read"]
                     /\ UNCHANGED nerr
    /\ UNCHANGED <<qvars, envVars, threadVars, nextUpdateId, latestLsn,
                   integralError, sst, snap, blkEnd, res, inflight, batchErr,
                   requireReelections, tx, roleVars>>
-----------------------------------------------------------------------------
(* nodeUpdatesHandlingLoop and the UpdatesBatcher's completions           *)

StreamOthers == <<firstId, lsn, fexists, fver, tmpData, online, failures,
                  terminate, pendingNotify, chClosed, syncTokens, integralError,
                  sst, snap, role, roleSignal, gateOpen, switches, remoteReady,
                  requireResync, clientStopped, roleTries>>
StreamUnchanged == UNCHANGED <<StreamOthers, tx>>

\* Top of the do-loop: resync if the node asked for it or this node lost
\* leadership; otherwise updates_->Read(node.nextUpdateId): wait, resync
\* after a drop, or start handling the block holding the id.
StreamRead(n) ==
    /\ pc[n] = "Read"
    /\ LET id == nextUpdateId[n] IN
       CASE requireResync[n] \/ ~IsLeader ->
              /\ ReturnFromImpl(n, Ok)
              /\ UNCHANGED <<nextUpdateId, blkEnd, res>>
         [] ~HasUpdate(id) ->
              /\ pc' = [pc EXCEPT ![n] = "Idle"]
              /\ UNCHANGED <<nextUpdateId, blkEnd, res, nerr>>
         [] IsDropBlock(id) ->
              /\ nextUpdateId' = [nextUpdateId EXCEPT ![n] = DropBlockId + 1]
              /\ ReturnFromImpl(n, Ok)
              /\ UNCHANGED <<blkEnd, res>>
         [] OTHER ->
              /\ pc' = [pc EXCEPT ![n] = "Rec"]
              /\ blkEnd' = [blkEnd EXCEPT ![n] = BlockEnd(id)]
              /\ res' = [res EXCEPT ![n] = Ok]
              /\ UNCHANGED <<nextUpdateId, nerr>>
    /\ UNCHANGED <<queue, fdata, tok, reelection, latestLsn, inflight, batchErr,
                   requireReelections, stray>>
    /\ StreamUnchanged

\* Mutant: the watermark comparison is off by one.
IsOutdatedOffByOne(e, n) ==
    e.lsn <= latestLsn[n][e.ns] + 1 \/ latestLsn[n][e.ns] = Empty

\* HasNewerCounterThan fails, or nothing was synced for the namespace.
IsOutdated(e, n) ==
    e.lsn <= latestLsn[n][e.ns] \/ latestLsn[n][e.ns] = Empty

\* After a record that did not break the loop: next record or end of block.
NextRec(n, id) == pc' = [pc EXCEPT ![n] = IF id = blkEnd[n] THEN "Await" ELSE "Rec"]

\* The update was dropped from under the loop: leave the block.
SkipInvalidated(n) ==
    /\ pc' = [pc EXCEPT ![n] = "Await"]
    /\ UNCHANGED <<queue, fdata, nextUpdateId, latestLsn, res, inflight,
                   batchErr, requireReelections, stray, tx>>

\* Mutant: nextUpdateId is advanced twice for a skipped record.
SkipOutdatedTwice(n, id) ==
    /\ queue' = OnUpdateReplicated({id}, n, TRUE)
    /\ nextUpdateId' = [nextUpdateId EXCEPT ![n] = id + 2]
    /\ NextRec(n, id)
    /\ UNCHANGED <<fdata, latestLsn, res, inflight, batchErr, requireReelections,
                   stray, tx>>

\* An outdated record is skipped but acknowledged as applied.
SkipOutdated(n, id) ==
    /\ queue' = OnUpdateReplicated({id}, n, TRUE)
    /\ nextUpdateId' = [nextUpdateId EXCEPT ![n] = id + 1]
    /\ NextRec(n, id)
    /\ UNCHANGED <<fdata, latestLsn, res, inflight, batchErr, requireReelections,
                   stray, tx>>

\* Batch or AwaitBatchedUpdates returns the error of a failed batched
\* update: --nextUpdateId, so this update is read again.
RetryOnBatchError(n) ==
    /\ pc' = [pc EXCEPT ![n] = "Await"]
    /\ res' = [res EXCEPT ![n] = NetErr]
    /\ batchErr' = [batchErr EXCEPT ![n] = FALSE]
    /\ UNCHANGED <<queue, fdata, nextUpdateId, latestLsn, inflight,
                   requireReelections, stray, tx>>

\* batcher.Batch: waits for a free batching routine and hands the update
\* to it.
BatchUpdate(n, id) ==
    /\ Cardinality(inflight[n]) < BatchLimit
    /\ inflight' = [inflight EXCEPT ![n] = @ \cup {id}]
    /\ nextUpdateId' = [nextUpdateId EXCEPT ![n] = id + 1]
    /\ NextRec(n, id)
    /\ UNCHANGED <<queue, fdata, latestLsn, res, batchErr, requireReelections,
                   stray, tx>>

\* Mutant: Scenario C taken literally, nextUpdateId stays at the failed id.
ApplyFailedRetrySame(n, id) ==
    /\ nextUpdateId' = [nextUpdateId EXCEPT ![n] = id]
    /\ queue' = OnUpdateReplicated({id}, n, FALSE)
    /\ pc' = [pc EXCEPT ![n] = "Await"]
    /\ res' = [res EXCEPT ![n] = NetErr]
    /\ requireReelections' = [requireReelections EXCEPT ![n] =
          @ \/ ResultAfter(id, n, FALSE) = Error]
    /\ UNCHANGED <<fdata, latestLsn, stray>>

\* Mutant: the error of applyUpdate is counted but the loop goes on.
ApplyFailedIgnored(n, id) ==
    /\ nextUpdateId' = [nextUpdateId EXCEPT ![n] = id + 1]
    /\ queue' = OnUpdateReplicated({id}, n, FALSE)
    /\ NextRec(n, id)
    /\ UNCHANGED <<fdata, latestLsn, res, requireReelections, stray>>

\* applyUpdate without batching returned error err: OnUpdateReplicated
\* counts it, the watermark stays, and the block ends with nextUpdateId
\* already past the update.
ApplyError(n, id, err) ==
    /\ nextUpdateId' = [nextUpdateId EXCEPT ![n] = id + 1]
    /\ queue' = OnUpdateReplicated({id}, n, FALSE)
    /\ pc' = [pc EXCEPT ![n] = "Await"]
    /\ res' = [res EXCEPT ![n] = err]
    /\ requireReelections' = [requireReelections EXCEPT ![n] =
          @ \/ ResultAfter(id, n, FALSE) = Error]
    /\ UNCHANGED <<fdata, latestLsn, stray>>

\* The RPC of applyUpdate failed: the follower is unreachable.
ApplyFailed(n, id) == ApplyError(n, id, NetErr)

\* The writes a successful applyUpdate of e makes on the follower, with t
\* the namespace's nsData.tx: BeginTx only opens the transaction, CommitTx
\* commits every write of it, from its BeginTx's LSN on (the item records
\* of the transaction are folded into the CommitTx).
Written(e, t) ==
    CASE e.kind = "Begin"  -> {}
      [] e.kind = "Commit" -> t..e.lsn
      [] OTHER             -> {e.lsn}

\* nsData.tx after e was applied: NewTransaction for BeginTx,
\* CommitTransaction leaves it free.
TxAfter(e, t) ==
    CASE e.kind = "Begin"  -> e.lsn
      [] e.kind = "Commit" -> NoTx
      [] OTHER             -> t

\* After the batch drained: applyUpdate without batching, then
\* OnUpdateReplicated; the watermark moves only on success.
ApplyUnbatched(n, id) ==
    LET e == queue[id]
        t == tx[n][e.ns]
    IN  /\ inflight[n] = {}
        /\ CASE e.kind = "Begin" /\ t # NoTx ->
                  ApplyError(n, id, TxErr) /\ UNCHANGED tx
             [] ~Reachable(n) ->
                  ApplyFailed(n, id) /\ UNCHANGED tx
             [] OTHER ->
                /\ nextUpdateId' = [nextUpdateId EXCEPT ![n] = id + 1]
                /\ queue' = OnUpdateReplicated({id}, n, TRUE)
                /\ fdata' = [fdata EXCEPT ![n][e.ns] = @ \cup Written(e, t)]
                /\ tx' = [tx EXCEPT ![n][e.ns] = TxAfter(e, t)]
                /\ Sent
                /\ latestLsn' = [latestLsn EXCEPT ![n][e.ns] = e.lsn]
                /\ NextRec(n, id)
                /\ UNCHANGED <<res, requireReelections>>
        /\ UNCHANGED <<inflight, batchErr>>

\* A record that needs a transaction meets a free nsData.tx:
\* errTxDoesNotExist, and --nextUpdateId so that it is read again.
TxMissing(n) ==
    /\ pc' = [pc EXCEPT ![n] = "Await"]
    /\ res' = [res EXCEPT ![n] = TxErr]
    /\ UNCHANGED <<queue, fdata, nextUpdateId, latestLsn, inflight, batchErr,
                   requireReelections, stray, tx>>

\* Mutant: the transaction check comes before the skip of outdated records.
StreamRecTxFirst(n) ==
    /\ pc[n] = "Rec"
    /\ LET id == nextUpdateId[n]
           e  == queue[id]
       IN  CASE IsInvalidated(id)   -> SkipInvalidated(n)
             [] e.kind = "Commit" /\ tx[n][e.ns] = NoTx
                                    -> TxMissing(n)
             [] IsOutdated(e, n)    -> SkipOutdated(n, id)
             [] batchErr[n] /\ (e.kind = "Item" \/ inflight[n] = {})
                                    -> RetryOnBatchError(n)
             [] e.kind = "Item"     -> BatchUpdate(n, id)
             [] OTHER               -> ApplyUnbatched(n, id)
    /\ UNCHANGED <<tok, reelection, blkEnd, nerr>>
    /\ UNCHANGED StreamOthers

\* One pass of the for-loop over the block, for the record at nextUpdateId.
StreamRec(n) ==
    /\ pc[n] = "Rec"
    /\ LET id == nextUpdateId[n]
           e  == queue[id]
       IN  CASE IsInvalidated(id)   -> SkipInvalidated(n)
             [] IsOutdated(e, n)    -> SkipOutdated(n, id)
             [] e.kind = "Commit" /\ tx[n][e.ns] = NoTx
                                    -> TxMissing(n)
             [] batchErr[n] /\ (e.kind = "Item" \/ inflight[n] = {})
                                    -> RetryOnBatchError(n)
             [] e.kind = "Item"     -> BatchUpdate(n, id)
             [] OTHER               -> ApplyUnbatched(n, id)
    /\ UNCHANGED <<tok, reelection, blkEnd, nerr>>
    /\ UNCHANGED StreamOthers

\* Mutant: the completion callback reports success whatever the result.
BatchCompleteAlwaysOk(n, id) ==
    /\ id \in inflight[n]
    /\ LET e == queue[id]
       IN  /\ IF Reachable(n) THEN Apply(n, e.ns, e.lsn) /\ Sent
                               ELSE UNCHANGED <<fdata, stray>>
           /\ latestLsn' = [latestLsn EXCEPT ![n][e.ns] = e.lsn]
           /\ queue' = OnUpdateReplicated({id}, n, TRUE)
           /\ requireReelections' = requireReelections
           /\ batchErr' = [batchErr EXCEPT ![n] = @ \/ ~Reachable(n)]
    /\ inflight' = [inflight EXCEPT ![n] = @ \ {id}]
    /\ UNCHANGED <<tok, reelection, pc, nextUpdateId, nerr, blkEnd, res>>
    /\ StreamUnchanged

\* A batched applyUpdate returns: the completion callback moves the
\* namespace's LSN and counts the answer, whatever the result.
BatchComplete(n, id) ==
    /\ id \in inflight[n]
    /\ LET e == queue[id]
           ok == Reachable(n)
       IN  /\ IF ok THEN Apply(n, e.ns, e.lsn) /\ Sent ELSE UNCHANGED <<fdata, stray>>
           /\ latestLsn' = [latestLsn EXCEPT ![n][e.ns] = e.lsn]
           /\ queue' = OnUpdateReplicated({id}, n, ok)
           /\ requireReelections' = [requireReelections EXCEPT ![n] =
                 @ \/ ResultAfter(id, n, ok) = Error]
           /\ batchErr' = [batchErr EXCEPT ![n] = @ \/ ~ok]
    /\ inflight' = [inflight EXCEPT ![n] = @ \ {id}]
    /\ UNCHANGED <<tok, reelection, pc, nextUpdateId, nerr, blkEnd, res>>
    /\ StreamUnchanged

\* Mutant: the error return is checked before requireReelections.
StreamAwaitErrorFirst(n) ==
    /\ pc[n] = "Await"
    /\ inflight[n] = {}
    /\ LET r == IF res[n] = Ok /\ batchErr[n] THEN NetErr ELSE res[n]
       IN  /\ res' = [res EXCEPT ![n] = r]
           /\ batchErr' = [batchErr EXCEPT ![n] = FALSE]
           /\ CASE r # Ok ->
                     /\ requireReelections' = [requireReelections EXCEPT ![n] = FALSE]
                     /\ ReturnFromImpl(n, r)
                     /\ UNCHANGED reelection
                [] requireReelections[n] ->
                     /\ reelection' = TRUE
                     /\ requireReelections' = [requireReelections EXCEPT ![n] = FALSE]
                     /\ ReturnFromImpl(n, r)
                [] OTHER ->
                     /\ pc' = [pc EXCEPT ![n] = IF terminate THEN "Idle" ELSE "Read"]
                     /\ UNCHANGED <<nerr, reelection, requireReelections>>
    /\ UNCHANGED <<queue, fdata, tok, nextUpdateId, latestLsn, blkEnd, inflight,
                   stray>>
    /\ StreamUnchanged

\* After the block: AwaitBatchedUpdates, request reelection, then return on
\* an error or go on reading.
StreamAwait(n) ==
    /\ pc[n] = "Await"
    /\ inflight[n] = {}
    /\ LET r == IF res[n] = Ok /\ batchErr[n] THEN NetErr ELSE res[n]
       IN  /\ res' = [res EXCEPT ![n] = r]
           /\ batchErr' = [batchErr EXCEPT ![n] = FALSE]
           /\ IF requireReelections[n]
              THEN /\ reelection' = TRUE
                   /\ requireReelections' = [requireReelections EXCEPT ![n] = FALSE]
                   /\ ReturnFromImpl(n, r)
              ELSE /\ IF r # Ok
                      THEN ReturnFromImpl(n, r)
                      ELSE /\ pc' = [pc EXCEPT ![n] = IF terminate THEN "Idle" ELSE "Read"]
                           /\ UNCHANGED nerr
                   /\ UNCHANGED <<reelection, requireReelections>>
    /\ UNCHANGED <<queue, fdata, tok, nextUpdateId, latestLsn, blkEnd, inflight,
                   stray>>
    /\ StreamUnchanged

\* updatesNotifier.pop(): a wake-up token, or the channel closed.
StreamIdle(n) ==
    /\ pc[n] = "Idle"
    /\ tok[n] \/ chClosed
    /\ tok' = [tok EXCEPT ![n] = FALSE]
    /\ IF terminate
       THEN ReturnFromImpl(n, Ok)
       ELSE /\ pc' = [pc EXCEPT ![n] = "Read"]
            /\ UNCHANGED nerr
    /\ UNCHANGED <<queue, fdata, reelection, nextUpdateId, latestLsn, blkEnd,
                   res, inflight, batchErr, requireReelections, stray>>
    /\ StreamUnchanged

-----------------------------------------------------------------------------
(* Environment: writer, queue trimming, notifier, network, terminate      *)

\* The storage engine applies a block of writes and pushes it
\* (updatesAsync_.send() through the data notifier).
Write(ns, shape) ==
    /\ role = "Leader"
    /\ lsn[ns] + Len(shape) <= MaxLsn
    /\ lsn' = [lsn EXCEPT ![ns] = @ + Len(shape)]
    /\ Push([i \in 1..Len(shape) |-> [ns |-> ns, lsn |-> lsn[ns] + i, kind |-> shape[i]]])
    /\ pendingNotify' = TRUE
    /\ UNCHANGED <<firstId, fexists, fver, fdata, tmpData, online, failures,
                   terminate, tok, chClosed, syncTokens, reelection, nodeVars,
                   roleVars>>

Drop ==
    /\ DropOldest
    /\ UNCHANGED <<envVars, threadVars, nodeVars, roleVars>>

\* Mutant: on terminate the notifier leaves the channels open.
NotifyNoClose ==
    /\ pendingNotify
    /\ pendingNotify' = FALSE
    /\ IF terminate
       THEN UNCHANGED <<tok, chClosed>>
       ELSE /\ tok' = [n \in Nodes |-> TRUE]
            /\ UNCHANGED chClosed
    /\ UNCHANGED <<qvars, envVars, syncTokens, reelection, nodeVars, roleVars>>

\* The updatesAsync_ callback's coroutine: wake every node, or on
\* terminate disconnect every node and close their channels.
Notify ==
    /\ pendingNotify
    /\ pendingNotify' = FALSE
    /\ IF terminate
       THEN /\ chClosed' = TRUE
            /\ clientStopped' = [n \in Nodes |-> TRUE]
            /\ UNCHANGED tok
       ELSE /\ tok' = [n \in Nodes |-> TRUE]
            /\ UNCHANGED <<chClosed, clientStopped>>
    /\ UNCHANGED <<qvars, envVars, syncTokens, reelection, nodeVars, role,
                   roleSignal, gateOpen, switches, remoteReady, requireResync,
                   roleTries, stray>>

Disconnect(n) ==
    /\ online[n]
    /\ failures < MaxNetFailures
    /\ online' = [online EXCEPT ![n] = FALSE]
    /\ failures' = failures + 1
    /\ UNCHANGED <<qvars, lsn, fexists, fver, fdata, tmpData, terminate,
                   threadVars, nodeVars, roleVars>>

Reconnect(n) ==
    /\ ~online[n]
    /\ online' = [online EXCEPT ![n] = TRUE]
    /\ UNCHANGED <<qvars, lsn, fexists, fver, fdata, tmpData, failures,
                   terminate, threadVars, nodeVars, roleVars>>

\* ClusterReplThread::SendTerminate: SetTerminate(true), then
\* roleSwitchAsync_.send(). With terminate_ set the callback only closes
\* the gate, so while the gate is closed its run changes nothing and is
\* left out.
SetTerminate ==
    /\ ~terminate
    /\ terminate' = TRUE
    /\ pendingNotify' = TRUE
    /\ roleSignal' = (roleSignal \/ gateOpen)
    /\ UNCHANGED <<qvars, lsn, fexists, fver, fdata, tmpData, online, failures,
                   tok, chClosed, syncTokens, reelection, nodeVars, role,
                   gateOpen, switches, remoteReady, requireResync, clientStopped,
                   roleTries, stray>>

\* Raft changes this node's role and calls OnRoleSwitch, which sends
\* roleSwitchAsync_.
RoleSwitch ==
    /\ switches < MaxRoleSwitches
    /\ ~terminate
    /\ role' = IF role = "Leader" THEN "Follower" ELSE "Leader"
    /\ switches' = switches + 1
    /\ roleSignal' = TRUE
    /\ UNCHANGED <<qvars, envVars, threadVars, nodeVars, gateOpen, remoteReady,
                   requireResync, clientStopped, roleTries, stray>>

\* The follower's own raft state catches up: it reports itself a
\* ClusterReplica of this node exactly while this node leads.
RemoteFollow(n) ==
    /\ remoteReady[n] # (role = "Leader")
    /\ remoteReady' = [remoteReady EXCEPT ![n] = (role = "Leader")]
    /\ UNCHANGED <<qvars, envVars, threadVars, nodeVars, role, roleSignal,
                   gateOpen, switches, requireResync, clientStopped, roleTries,
                   stray>>

\* Mutant: the callback opens the gate but leaves the clients connected.
RoleSwitchHandlerNoDisconnect ==
    /\ roleSignal
    /\ roleSignal' = FALSE
    /\ IF terminate
       THEN /\ gateOpen' = FALSE
            /\ UNCHANGED requireResync
       ELSE /\ requireResync' = [n \in Nodes |-> TRUE]
            /\ gateOpen' = (role # "Leader")
    /\ UNCHANGED <<qvars, envVars, threadVars, nodeVars, role, switches,
                   remoteReady, roleTries, stray, clientStopped>>

\* Mutant: on terminate the callback returns without closing the gate.
RoleSwitchHandlerTerminateOpen ==
    /\ roleSignal
    /\ roleSignal' = FALSE
    /\ IF terminate
       THEN UNCHANGED <<gateOpen, requireResync, clientStopped>>
       ELSE /\ requireResync' = [n \in Nodes |-> TRUE]
            /\ gateOpen' = (role # "Leader")
            /\ clientStopped' = IF role = "Leader" THEN clientStopped
                                ELSE [n \in Nodes |-> TRUE]
    /\ UNCHANGED <<qvars, envVars, threadVars, nodeVars, role, switches,
                   remoteReady, roleTries, stray>>

\* The roleSwitchAsync_ callback: on terminate close the gate; otherwise
\* read the current role, mark every node for resync, and either close the
\* gate (leader) or open it and disconnect every node (follower).
RoleSwitchHandler ==
    /\ roleSignal
    /\ roleSignal' = FALSE
    /\ IF terminate
       THEN /\ gateOpen' = FALSE
            /\ UNCHANGED <<requireResync, clientStopped>>
       ELSE /\ requireResync' = [n \in Nodes |-> TRUE]
            /\ gateOpen' = (role # "Leader")
            /\ clientStopped' = IF role = "Leader" THEN clientStopped
                                ELSE [n \in Nodes |-> TRUE]
    /\ UNCHANGED <<qvars, envVars, threadVars, nodeVars, role, switches,
                   remoteReady, roleTries, stray>>

\* Every routine returned: Run() is done.
Stopped ==
    /\ \A n \in Nodes : pc[n] = "Done"
    /\ UNCHANGED vars

-----------------------------------------------------------------------------

Init ==
    /\ QInit
    /\ lsn \in [Namespaces -> 0..InitLsn]
    /\ \E f \in [Nodes -> [Namespaces -> InitFollowers]] :
          /\ fexists = [n \in Nodes |-> [ns \in Namespaces |-> f[n][ns].exists]]
          /\ fver    = [n \in Nodes |-> [ns \in Namespaces |-> f[n][ns].ver]]
          /\ fdata   = [n \in Nodes |-> [ns \in Namespaces |-> f[n][ns].data]]
    /\ tmpData = [n \in Nodes |-> [ns \in Namespaces |-> NoTmp]]
    /\ online = [n \in Nodes |-> TRUE]
    /\ failures = 0
    /\ terminate = FALSE
    /\ pendingNotify = FALSE
    /\ tok = [n \in Nodes |-> FALSE]
    /\ chClosed = FALSE
    /\ syncTokens = 0
    /\ reelection = FALSE
    /\ pc = [n \in Nodes |-> "Top"]
    /\ nextUpdateId = [n \in Nodes |-> 1]
    /\ latestLsn = [n \in Nodes |-> [ns \in Namespaces |-> Empty]]
    /\ nerr = [n \in Nodes |-> Ok]
    /\ integralError = [n \in Nodes |-> Ok]
    /\ sst = [n \in Nodes |-> [ns \in Namespaces |-> "None"]]
    /\ snap = [n \in Nodes |-> [ns \in Namespaces |->
                 [fs |-> EmptyState, ver |-> 0, lsn |-> Empty, tmp |-> FALSE,
                  chunks |-> <<>>, retried |-> FALSE]]]
    /\ blkEnd = [n \in Nodes |-> 0]
    /\ res = [n \in Nodes |-> Ok]
    /\ inflight = [n \in Nodes |-> {}]
    /\ batchErr = [n \in Nodes |-> FALSE]
    /\ requireReelections = [n \in Nodes |-> FALSE]
    /\ tx = [n \in Nodes |-> [ns \in Namespaces |-> NoTx]]
    /\ role \in InitRoles
    /\ roleSignal = FALSE
    /\ gateOpen = (role # "Leader")
    /\ switches = 0
    /\ remoteReady = [n \in Nodes |-> role = "Leader"]
    /\ requireResync = [n \in Nodes |-> FALSE]
    /\ clientStopped = [n \in Nodes |-> FALSE]
    /\ roleTries = [n \in Nodes |-> [ns \in Namespaces |-> 0]]
    /\ stray = FALSE

NodeStep(n) ==
    \/ RoutineTop(n) \/ SyncJoin(n) \/ BackoffDrain(n) \/ BackoffEnd(n)
    \/ StreamRead(n) \/ StreamRec(n) \/ StreamAwait(n) \/ StreamIdle(n)
    \/ \E id \in inflight[n] : BatchComplete(n, id)

SyncStep(n, ns) ==
    \/ SyncRemote(n, ns) \/ SyncSnapshot(n, ns) \/ SyncCreateTmp(n, ns)
    \/ SyncChunk(n, ns) \/ SyncRename(n, ns) \/ SyncVerify(n, ns)

Next ==
    \/ \E n \in Nodes : NodeStep(n)
    \/ \E n \in Nodes, ns \in Namespaces : SyncStep(n, ns)
    \/ \E ns \in Namespaces, shape \in BlockShapes : Write(ns, shape)
    \/ Drop \/ Notify \/ SetTerminate \/ Stopped
    \/ \E n \in Nodes : Disconnect(n) \/ Reconnect(n)
    \/ RoleSwitch \/ RoleSwitchHandler \/ \E n \in Nodes : RemoteFollow(n)

\* The thread's event loop runs every ready coroutine (the role-switch
\* callback included), RPCs return, sleeps end, a lost connection is
\* eventually re-established and a follower eventually learns who leads.
Fairness ==
    /\ \A n \in Nodes : WF_vars(NodeStep(n)) /\ WF_vars(Reconnect(n))
    /\ \A n \in Nodes : WF_vars(RemoteFollow(n))
    /\ \A n \in Nodes, ns \in Namespaces : WF_vars(SyncStep(n, ns))
    /\ WF_vars(Notify) /\ WF_vars(RoleSwitchHandler)

Spec == Init /\ [][Next]_vars /\ Fairness
-----------------------------------------------------------------------------
(* Properties                                                             *)

Writes == {x \in -MaxLsn..MaxLsn : x # 0}

TypeOK ==
    /\ lsn \in [Namespaces -> 0..MaxLsn]
    /\ firstId \in 1..(LastId + 1)
    /\ \A i \in 1..LastId :
          /\ queue[i].ns \in Namespaces /\ queue[i].lsn \in 1..MaxLsn
          /\ queue[i].kind \in {"Item", "Meta", "Begin", "Commit"}
          /\ queue[i].blk \in 1..i
          /\ queue[i].ackedBy \subseteq Nodes
          /\ queue[i].result \in {Pending, Success, Error}
    /\ pc \in [Nodes -> {"Top", "Sync", "Read", "Rec", "Await", "Idle", "Backoff", "Done"}]
    /\ sst \in [Nodes -> [Namespaces -> Stages]]
    /\ nextUpdateId \in [Nodes -> 1..(LastId + 1)]
    /\ latestLsn \in [Nodes -> [Namespaces -> {Empty} \cup 0..MaxLsn]]
    /\ fdata \in [Nodes -> [Namespaces -> SUBSET Writes]]
    /\ \A n \in Nodes : inflight[n] \subseteq 1..LastId
    /\ syncTokens \in 0..Cardinality(Nodes \X Namespaces)
    /\ {nerr[n] : n \in Nodes} \cup {res[n] : n \in Nodes} \cup
       {integralError[n] : n \in Nodes} \subseteq {Ok, NetErr, HashErr, LeaderErr, TimeoutErr, TxErr}
    /\ role \in {"Leader", "Follower"} /\ switches \in 0..MaxRoleSwitches
    /\ roleTries \in [Nodes -> [Namespaces -> 0..MaxRoleAwait]]
    /\ tx \in [Nodes -> [Namespaces -> {NoTx} \cup 1..MaxLsn]]
    /\ {roleSignal, gateOpen, stray} \subseteq BOOLEAN

\* A BeginTx carries no write of its own: its LSN is written with the
\* transaction's commit.
IsWrite(i) == queue[i].kind # "Begin"

\* A follower counted as an approval of an update really holds the write:
\* the skip of "outdated" updates, the batched completions and the
\* watermark they move never acknowledge a write the follower lacks.
ApprovalMeansApplied ==
    \A i \in 1..LastId : IsWrite(i) => \A n \in queue[i].approvedBy :
        /\ fexists[n][queue[i].ns]
        /\ queue[i].lsn \in fdata[n][queue[i].ns]

\* Quorum durability: once OnUpdateReplicated reports Success for an update,
\* the leader and at least ConsensusCnt - 1 followers hold the write.
DurableOnSuccess ==
    \A i \in 1..LastId :
        IsWrite(i) /\ queue[i].result = Success =>
            1 + Cardinality({n \in Nodes : queue[i].lsn \in fdata[n][queue[i].ns]})
                >= ConsensusCnt

\* Each follower answers each update at most once: nextUpdateId never
\* brings a node back to an update it already counted (retries,
\* resyncs, drains after errors).
AckOncePerNode ==
    \A i \in 1..LastId :
        queue[i].approves + queue[i].errors = Cardinality(queue[i].ackedBy)

\* A node leaves full sync for streaming only with every namespace a gap-free
\* copy of the leader's up to the watermark it will filter updates by.
SyncedPrefix ==
    [][\A n \in Nodes :
         (pc[n] = "Sync" /\ pc'[n] = "Read") =>
            \A ns \in Namespaces :
                /\ fexists'[n][ns] /\ fver'[n][ns] = LeaderVer
                /\ fdata'[n][ns] = Prefix(latestLsn'[n][ns])]_vars

\* A quorum lost on an update is always reported: once OnUpdateReplicated
\* answers Error for an update, OnUpdateReplicationFailure has been called
\* or the updates loop that saw the answer still holds requireReelections,
\* which it acts on before it returns (batched and unbatched failures, and
\* the drain of handleUpdatesWithError).
QuorumLossReported ==
    (\E i \in 1..LastId : queue[i].result = Error) =>
        reelection \/ \E n \in Nodes : requireReelections[n]

\* spec.md, Scenario C: a node that answers a non-batchable update with an
\* error does not move nextUpdateId past it; the same id is retried.
RetryFailedUpdate ==
    [][\A n \in Nodes, i \in 1..LastId :
         (/\ pc[n] = "Rec" /\ queue[i].kind = "Meta"
          /\ n \notin queue[i].ackedBy
          /\ n \in queue'[i].ackedBy \ queue'[i].approvedBy)
            => nextUpdateId'[n] <= i]_vars

\* spec.md, Scenario E: once terminate_ is set, the updates loop applies no
\* further record; only calls already handed to the batcher may finish.
NoApplyAfterTerminate ==
    [][\A n \in Nodes :
         (terminate /\ pc[n] = "Rec") =>
            /\ inflight'[n] \subseteq inflight[n]
            /\ (fdata'[n] # fdata[n] => inflight'[n] # inflight[n])]_vars

Converged ==
    \A n \in Nodes, ns \in Namespaces :
        fexists[n][ns] /\ fver[n][ns] = LeaderVer /\ fdata[n][ns] = Prefix(lsn[ns])

\* Unless the thread is terminated, every follower ends up with exactly the
\* leader's data, through resyncs, lost connections, dropped queue blocks,
\* failed batches and role switches, whenever this node ends up the leader.
EventuallyConverged == <>(terminate \/ [](role = "Leader" => Converged))

\* A demoted node stops replicating: while the role-switch callback's
\* handling of a switch to follower stands, no snapshot chunk, temporary namespace,
\* rename or update of this node reaches a follower, although the stream
\* loop checks IsLeader only at the top of a block and the sync routine
\* not before CreateTemporaryNamespace or RenameNamespace.
LeaderOnlyWrites == ~stray

\* Transaction records find the follower-side transaction they need: no
\* CommitTx meets a free nsData.tx (errTxDoesNotExist; the record is read
\* again after a resync) and no BeginTx meets one still open ("Tx is not
\* empty"), through BeginTx or CommitTx RPCs that fail, resyncs that
\* leave the rest of a transaction behind the new watermark, and the
\* rollback at the start of nodeReplicationImpl.
TxStateConsistent == \A n \in Nodes : res[n] # TxErr

\* SetTerminate(true) ends every node routine, wherever it waits.
TerminationPrompt == terminate ~> (\A n \in Nodes : pc[n] = "Done")
=============================================================================
