---------------------------- MODULE UpdatesQueue ----------------------------
(***************************************************************************)
(* The shared update log of the replication core (UpdatesQueue): the      *)
(* storage engine pushes blocks of UpdateRecords, every replication       *)
(* thread reads them by absolute id, and each follower's answer is        *)
(* counted against the record's quorum.                                   *)
(*                                                                         *)
(* updatesqueue.h is not part of this repository's sources, so every      *)
(* definition here is written from spec.md sections 3 and 4.1.            *)
(*                                                                         *)
(* The queue is kept immutable (history is never lost): ids 1..Len(queue) *)
(* have been assigned, ids below firstId have been dropped and a reader   *)
(* that asks for one receives the "drop block" whose ID is firstId - 1.   *)
(***************************************************************************)
EXTENDS Naturals, Sequences, FiniteSets

CONSTANTS
    Nodes,             \* follower node ids (model values)
    ConsensusCnt,      \* GetConsensusForN(total nodes): acks needed, leader included
    RequiredReplicas,  \* total nodes - 1: the followers that answer each record
    QueueCapacity      \* retained records before the oldest block is dropped

ASSUME ConsensusCnt \in 1..(RequiredReplicas + 1)
ASSUME RequiredReplicas = Cardinality(Nodes)
ASSUME QueueCapacity \in Nat \ {0}

VARIABLES
    queue,    \* Seq of entries: the record and its quorum counters
    firstId   \* oldest id still retained

qvars == <<queue, firstId>>

\* ReplicationResult
Pending == "Pending"
Success == "Success"
Error   == "Error"

LastId == Len(queue)

\* The block (one Push) that id belongs to: its first and last id.
BlockStart(id) == queue[id].blk
BlockEnd(id) ==
    CHOOSE e \in id..LastId :
        /\ queue[e].blk = queue[id].blk
        /\ (e = LastId \/ queue[e + 1].blk # queue[id].blk)

\* Read(fromId): nothing yet, the drop block, or the block holding fromId.
HasUpdate(id)     == id <= LastId
IsDropBlock(id)   == id < firstId
DropBlockId       == firstId - 1
\* An update a reader holds was dropped from under it (IsInvalidated).
IsInvalidated(id) == id < firstId

\* The leader applied the write itself, so it is the first approval.
QuorumReached(e)     == 1 + e.approves >= ConsensusCnt
QuorumUnreachable(e) == 1 + RequiredReplicas - e.errors < ConsensusCnt

\* OnUpdateReplicated: count one answer of node n; the result is decided
\* once, the first time either bound is met.
Replicated(e, n, ok) ==
    LET c == [e EXCEPT !.approves = @ + (IF ok THEN 1 ELSE 0),
                       !.errors   = @ + (IF ok THEN 0 ELSE 1),
                       !.ackedBy  = @ \cup {n},
                       !.approvedBy = IF ok THEN @ \cup {n} ELSE @]
    IN  [c EXCEPT !.result =
            IF e.result # Pending THEN e.result
            ELSE IF QuorumReached(c) THEN Success
            ELSE IF QuorumUnreachable(c) THEN Error
            ELSE Pending]

\* The queue after node n answered every id of ids.
OnUpdateReplicated(ids, n, ok) ==
    [i \in DOMAIN queue |-> IF i \in ids THEN Replicated(queue[i], n, ok)
                                         ELSE queue[i]]

\* The ReplicationResult returned to the caller for id after node n's answer.
ResultAfter(id, n, ok) == Replicated(queue[id], n, ok).result

NewEntry(rec, blk) ==
    [ns |-> rec.ns, lsn |-> rec.lsn, kind |-> rec.kind, blk |-> blk,
     approves |-> 0, errors |-> 0, result |-> Pending,
     \* history: the nodes that answered, and those that approved
     ackedBy |-> {}, approvedBy |-> {}]

\* Push(records): one block, consecutive ids, shared block id.
Push(recs) ==
    queue' = queue \o [i \in 1..Len(recs) |-> NewEntry(recs[i], LastId + 1)]

\* Under backlog the oldest block is dropped; readers behind it get the
\* drop block and must resync.
DropOldest ==
    /\ LastId - firstId + 1 > QueueCapacity
    /\ firstId' = BlockEnd(firstId) + 1
    /\ UNCHANGED queue

QInit ==
    /\ queue = <<>>
    /\ firstId = 1
=============================================================================
