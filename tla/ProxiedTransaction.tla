------------------------- MODULE ProxiedTransaction -------------------------
(***************************************************************************)
(* A transaction a follower proxies to the leader                         *)
(* (core/transaction/proxiedtransaction.cc).  The owner thread calls      *)
(* Modify, PutMeta, SetTagsMatcher and finally Commit or Rollback.  Most  *)
(* calls are sent to the leader asynchronously through the client's       *)
(* command queue; their completion callbacks run on client worker         *)
(* threads and meet the owner only in AsyncData (a mutex, a counter, the  *)
(* first error and a condition variable).  An item whose conversion       *)
(* updates the tags matcher is sent synchronously after every earlier     *)
(* request has completed.  Items are built from a cached payload type and *)
(* tags matcher (itemCache_) while the cache is valid.                    *)
(*                                                                         *)
(* The transaction's tags matcher is a version number: txTm.  A request   *)
(* is an id; what it carries is left out.                                 *)
(***************************************************************************)
EXTENDS Naturals, FiniteSets

CONSTANTS
    MaxOps   \* calls of Modify, PutMeta and SetTagsMatcher in one behaviour

ASSUME MaxOps \in Nat \ {0}

VARIABLES
    pc,             \* owner: Idle | AwaitTm | SyncModify | AwaitCommit | AwaitRollback | Done
    ops,            \* requests sent so far (the last id)
    asyncRequests,  \* AsyncData::asyncRequests_
    err,            \* AsyncData::err_ holds an error
    waiting,        \* the owner is blocked in cv_.wait
    inflight,       \* asynchronous requests whose callback has not run
    failed,         \* asynchronous requests the leader answered with an error
    cacheValid,     \* itemCache_.isValid
    cacheTm,        \* itemCache_.tm
    txTm,           \* the transaction's tags matcher
    outcome         \* None | Committed | Refused | RolledBack

vars == <<pc, ops, asyncRequests, err, waiting, inflight, failed, cacheValid,
          cacheTm, txTm, outcome>>

Ids == 1..MaxOps

-----------------------------------------------------------------------------
(* AsyncData                                                               *)

\* Mutant: the error path decrements the counter twice.
OnAsyncRequestDoneTwice(o, ok) ==
    /\ o \in inflight
    /\ inflight' = inflight \ {o}
    /\ err' = (err \/ ~ok)
    /\ failed' = IF ok THEN failed ELSE failed \cup {o}
    /\ asyncRequests' = asyncRequests - (IF ok THEN 1 ELSE 2)
    /\ waiting' = (waiting /\ asyncRequests' # 0)
    /\ UNCHANGED <<pc, ops, cacheValid, cacheTm, txTm, outcome>>

\* Mutant: notify_all when the counter reaches one instead of zero.
OnAsyncRequestDoneEarly(o, ok) ==
    /\ o \in inflight
    /\ inflight' = inflight \ {o}
    /\ err' = (err \/ ~ok)
    /\ failed' = IF ok THEN failed ELSE failed \cup {o}
    /\ asyncRequests' = asyncRequests - 1
    /\ waiting' = (waiting /\ asyncRequests' # 1)
    /\ UNCHANGED <<pc, ops, cacheValid, cacheTm, txTm, outcome>>

\* The completion callback of request o, on a client worker thread: keep
\* the first error, decrement the counter and wake the owner at zero.  A
\* woken owner finds the predicate true, since no request is added while
\* it waits.
OnAsyncRequestDone(o, ok) ==
    /\ o \in inflight
    /\ inflight' = inflight \ {o}
    /\ err' = (err \/ ~ok)
    /\ failed' = IF ok THEN failed ELSE failed \cup {o}
    /\ asyncRequests' = asyncRequests - 1
    /\ waiting' = (waiting /\ asyncRequests' # 0)
    /\ UNCHANGED <<pc, ops, cacheValid, cacheTm, txTm, outcome>>

\* AwaitAsyncRequests: return at once when nothing is in flight, else
\* block on cv_ (the owner moves to `next` and waits there).
Await(next) ==
    /\ pc' = next
    /\ waiting' = (asyncRequests # 0)

\* AddNewAsyncRequest, then the asynchronous send: throws err_ (the call
\* returns it and nothing is sent) or counts and sends request ops + 1.
SendAsync ==
    \/ /\ err
       /\ UNCHANGED <<ops, asyncRequests, inflight>>
    \/ /\ ~err
       /\ ops' = ops + 1
       /\ asyncRequests' = asyncRequests + 1
       /\ inflight' = inflight \cup {ops + 1}

-----------------------------------------------------------------------------
(* The owner's calls                                                       *)

\* Modify(Item): take the item from the cache when it is valid, else from
\* tx_.NewItem(); a conversion from the cache that fails is retried with a
\* fresh item.  `fresh` is the outcome of NewItem and of converting into
\* it; `tmUpdated` says whether the conversion added tags.  An item with
\* new tags waits for every request in flight, invalidates the cache and
\* is sent synchronously; any other item refreshes the cache (when it was
\* not taken from it) and is sent asynchronously.
ModifyItem ==
    /\ pc = "Idle" /\ ops < MaxOps
    /\ \E cacheConvOk, fresh, tmUpdated \in BOOLEAN :
         LET fromCache == cacheValid /\ cacheConvOk
         IN  \/ /\ ~fromCache /\ ~fresh
                /\ UNCHANGED vars
             \/ /\ fromCache \/ fresh
                /\ tmUpdated
                /\ Await("AwaitTm")
                /\ UNCHANGED <<ops, asyncRequests, err, inflight, failed,
                               cacheValid, cacheTm, txTm, outcome>>
             \/ /\ fromCache \/ fresh
                /\ ~tmUpdated
                /\ SendAsync
                /\ cacheValid' = TRUE
                /\ cacheTm' = IF fromCache THEN cacheTm ELSE txTm
                /\ UNCHANGED <<pc, err, waiting, failed, txTm, outcome>>

\* The AwaitAsyncRequests of a tm-updating item returned (its error is
\* ignored): invalidate the cache and send the item with its new tags
\* matcher synchronously.
ModifyItemSync ==
    /\ pc = "AwaitTm" /\ ~waiting
    /\ pc' = "SyncModify"
    /\ ops' = ops + 1
    /\ cacheValid' = FALSE
    /\ txTm' = txTm + 1
    /\ UNCHANGED <<asyncRequests, err, waiting, inflight, failed, cacheTm,
                   outcome>>

\* tx_.modify(..., nullptr) returned; its error goes to the caller only.
SyncModifyDone ==
    /\ pc = "SyncModify"
    /\ pc' = "Idle"
    /\ UNCHANGED <<ops, asyncRequests, err, waiting, inflight, failed, cacheValid,
                   cacheTm, txTm, outcome>>

\* Modify(Query) and PutMeta: AddNewAsyncRequest and the asynchronous send.
ModifyQuery ==
    /\ pc = "Idle" /\ ops < MaxOps
    /\ SendAsync
    /\ UNCHANGED <<pc, err, waiting, failed, cacheValid, cacheTm, txTm, outcome>>

\* Mutant: SetTagsMatcher keeps the item cache.
SetTagsMatcherKeepCache ==
    /\ pc = "Idle" /\ ops < MaxOps
    /\ SendAsync
    /\ txTm' = IF err THEN txTm ELSE txTm + 1
    /\ UNCHANGED <<pc, err, waiting, failed, cacheValid, cacheTm, outcome>>

\* SetTagsMatcher: AddNewAsyncRequest, invalidate the cache, and send the
\* new tags matcher asynchronously.
SetTagsMatcher ==
    /\ pc = "Idle" /\ ops < MaxOps
    /\ SendAsync
    /\ cacheValid' = (cacheValid /\ err)
    /\ txTm' = IF err THEN txTm ELSE txTm + 1
    /\ UNCHANGED <<pc, err, waiting, failed, cacheTm, outcome>>

\* Commit and Rollback start with AwaitAsyncRequests.
Commit ==
    /\ pc = "Idle"
    /\ Await("AwaitCommit")
    /\ UNCHANGED <<ops, asyncRequests, err, inflight, failed, cacheValid,
                   cacheTm, txTm, outcome>>

Rollback ==
    /\ pc = "Idle"
    /\ Await("AwaitRollback")
    /\ UNCHANGED <<ops, asyncRequests, err, inflight, failed, cacheValid,
                   cacheTm, txTm, outcome>>

\* Mutant: Commit does not look at what AwaitAsyncRequests returned.
CommitSendIgnoreErr ==
    /\ pc = "AwaitCommit" /\ ~waiting
    /\ outcome' = "Committed"
    /\ pc' = "Done"
    /\ UNCHANGED <<ops, asyncRequests, err, waiting, inflight, failed,
                   cacheValid, cacheTm, txTm>>

\* After the wait: an error kept by AsyncData refuses the commit, else
\* CommitTransaction is sent to the leader.
CommitSend ==
    /\ pc = "AwaitCommit" /\ ~waiting
    /\ outcome' = IF err THEN "Refused" ELSE "Committed"
    /\ pc' = "Done"
    /\ UNCHANGED <<ops, asyncRequests, err, waiting, inflight, failed,
                   cacheValid, cacheTm, txTm>>

\* After the wait: RollBackTransaction, whatever the error.
RollbackSend ==
    /\ pc = "AwaitRollback" /\ ~waiting
    /\ outcome' = "RolledBack"
    /\ pc' = "Done"
    /\ UNCHANGED <<ops, asyncRequests, err, waiting, inflight, failed,
                   cacheValid, cacheTm, txTm>>

-----------------------------------------------------------------------------

Init ==
    /\ pc = "Idle" /\ ops = 0
    /\ asyncRequests = 0 /\ err = FALSE /\ waiting = FALSE
    /\ inflight = {} /\ failed = {}
    /\ cacheValid = FALSE /\ cacheTm = 0 /\ txTm = 0
    /\ outcome = "None"

Owner ==
    \/ ModifyItem \/ ModifyItemSync \/ SyncModifyDone \/ ModifyQuery
    \/ SetTagsMatcher \/ Commit \/ Rollback \/ CommitSend \/ RollbackSend

Callback == \E o \in Ids, ok \in BOOLEAN : OnAsyncRequestDone(o, ok)

Next == Owner \/ Callback

\* Every request sent is answered, so its callback runs (the client's
\* AcceptedAnswered); a woken owner runs.  The owner may stop calling.
Fairness ==
    /\ WF_vars(Callback)
    /\ WF_vars(ModifyItemSync) /\ WF_vars(SyncModifyDone)
    /\ WF_vars(CommitSend) /\ WF_vars(RollbackSend)

Spec == Init /\ [][Next]_vars /\ Fairness

-----------------------------------------------------------------------------
(* Properties                                                              *)

TypeOK ==
    /\ pc \in {"Idle", "AwaitTm", "SyncModify", "AwaitCommit",
               "AwaitRollback", "Done"}
    /\ ops \in 0..MaxOps /\ asyncRequests \in Nat
    /\ err \in BOOLEAN /\ waiting \in BOOLEAN
    /\ inflight \subseteq Ids /\ failed \subseteq Ids
    /\ cacheValid \in BOOLEAN /\ cacheTm \in Nat /\ txTm \in Nat
    /\ outcome \in {"None", "Committed", "Refused", "RolledBack"}

\* A commit reaches the leader only when every asynchronous request has
\* completed and none failed: the wait in Commit covers callbacks still
\* in flight, and err_ the ones that already failed.
CommitAfterAllApplied ==
    outcome = "Committed" => inflight = {} /\ failed = {}

\* While the item cache is valid, it holds the transaction's current tags
\* matcher: SetTagsMatcher and tm-updating items invalidate it.
CacheCurrent == cacheValid => cacheTm = txTm

\* Commit, Rollback and a tm-updating Modify return from
\* AwaitAsyncRequests.
AwaitReturns == \A p \in {"AwaitTm", "AwaitCommit", "AwaitRollback"} :
                    pc = p ~> pc # p
=============================================================================
