-------------------------- MODULE CoroQueryResults --------------------------
(***************************************************************************)
(* The client's paged query results (client/coroqueryresults.cc).  The    *)
(* select answer carries the first `count` results; the iterator walks    *)
(* them and, on reaching the end of the page, fetches the next one with   *)
(* kCmdFetchResults at offset count + fetchOffset_.  Bytes are abstracted *)
(* to item positions: rawResult_ is the sequence of the result indexes it *)
(* holds, pos_/nextPos_ are positions in it, and nextPos_ = 0 means "the  *)
(* item at pos_ is not parsed yet", as in the code.                       *)
(***************************************************************************)
EXTENDS Integers, Sequences

CONSTANTS
    QCount,        \* queryParams_.qcount, results of the query (>= 1)
    FetchAmount,   \* fetchAmount_, the most results a page holds
    ParseErrors    \* whether a server answer or an item may fail to parse

VARIABLES
    idx,           \* Iterator::idx_
    pos,           \* Iterator::pos_
    nextPos,       \* Iterator::nextPos_
    item,          \* Iterator::itemParams_: the result parsed last (-1: none)
    got,           \* the result the reader obtained with GetItem (-1: none)
    count,         \* queryParams_.count, results in rawResult_
    fetchOffset,   \* fetchOffset_
    page,          \* rawResult_
    status         \* status_.ok()

vars == <<idx, pos, nextPos, item, got, count, fetchOffset, page, status>>

MinOf(a, b) == IF a < b THEN a ELSE b

\* The answer to a select or fetch at offset `off`: n results from off on.
PageAt(off, n) == [k \in 1..n |-> off + k - 1]

\* Bind: the first page, parsed from the select answer.
Init ==
    /\ \E n \in 1..MinOf(FetchAmount, QCount) :
          count = n /\ page = PageAt(0, n)
    /\ fetchOffset = 0
    /\ idx = 0 /\ pos = 0 /\ nextPos = 0
    /\ item = -1 /\ got = -1
    /\ status = TRUE

(***************************************************************************)
(* readNext: nothing if the item is parsed already or the status is bad;  *)
(* else GetItemData at pos_, which fails past the end of rawResult_ or,   *)
(* with ParseErrors, on a malformed item, and then sets status_.          *)
(***************************************************************************)
Parses == nextPos = 0 /\ status
ReadOutcomes ==
    IF ~Parses THEN {[item |-> item, nextPos |-> nextPos, status |-> status]}
    ELSE (IF pos < Len(page)
          THEN {[item |-> page[pos + 1], nextPos |-> pos + 1, status |-> TRUE]}
          ELSE {})
         \cup (IF pos >= Len(page) \/ ParseErrors
               THEN {[item |-> item, nextPos |-> nextPos, status |-> FALSE]}
               ELSE {})

\* Iterator::GetItem: readNext, then the item built from itemParams_.
GetItem ==
    /\ idx < QCount
    /\ \E r \in ReadOutcomes :
          /\ item' = r.item /\ nextPos' = r.nextPos /\ status' = r.status
          /\ got' = r.item
    /\ UNCHANGED <<idx, pos, count, fetchOffset, page>>

\* GetLSN, GetNSID, GetID, GetShardID, GetRank, IsRaw, GetRaw, GetJoined:
\* readNext, then a field of itemParams_; the reader keeps no item.
ReadField ==
    /\ idx < QCount
    /\ \E r \in ReadOutcomes :
          item' = r.item /\ nextPos' = r.nextPos /\ status' = r.status
    /\ UNCHANGED <<idx, pos, count, fetchOffset, page, got>>

(***************************************************************************)
(* fetchNextResults: a failed call throws (status_ set by operator++);    *)
(* otherwise handleFetchedBuf advances fetchOffset_ by the old count      *)
(* before it parses the answer, and a parse error there throws with       *)
(* count and rawResult_ left as they were.                                *)
(***************************************************************************)
CallFailed(p) ==
    /\ status' = FALSE /\ pos' = p
    /\ UNCHANGED <<count, fetchOffset, page>>

AnswerUnparsable(p) ==
    /\ ParseErrors
    /\ fetchOffset' = fetchOffset + count
    /\ status' = FALSE /\ pos' = p
    /\ UNCHANGED <<count, page>>

HandleFetchedBuf ==
    LET off == count + fetchOffset IN
    \E n \in MinOf(1, QCount - off)..MinOf(FetchAmount, QCount - off) :
       /\ fetchOffset' = fetchOffset + count
       /\ count' = n
       /\ page' = PageAt(off, n)
       /\ status' = TRUE

\* Mutant: pos_ is not reset after a fetch.
FetchNextResultsKeepPos(p) ==
    \/ CallFailed(p)
    \/ AnswerUnparsable(p)
    \/ HandleFetchedBuf /\ pos' = p

\* fetchNextResults, and operator++'s pos_ = 0 after it returns.
FetchNextResults(p) ==
    \/ CallFailed(p)
    \/ AnswerUnparsable(p)
    \/ HandleFetchedBuf /\ pos' = 0

(***************************************************************************)
(* Iterator::operator++: readNext, idx_++, pos_ = nextPos_, nextPos_ = 0, *)
(* and a fetch when idx_ reaches the end of the page but not of the       *)
(* results.                                                               *)
(***************************************************************************)
\* Mutant: a fetch also at the end of the results.
IncrementNoEndCheck ==
    /\ idx < QCount
    /\ \E r \in ReadOutcomes :
          /\ item' = r.item
          /\ idx' = idx + 1
          /\ nextPos' = 0
          /\ IF idx' = count + fetchOffset
             THEN FetchNextResults(r.nextPos)
             ELSE /\ pos' = r.nextPos /\ status' = r.status
                  /\ UNCHANGED <<count, fetchOffset, page>>
    /\ UNCHANGED got

Increment ==
    /\ idx < QCount
    /\ \E r \in ReadOutcomes :
          /\ item' = r.item
          /\ idx' = idx + 1
          /\ nextPos' = 0
          /\ IF idx' # QCount /\ idx' = count + fetchOffset
             THEN FetchNextResults(r.nextPos)
             ELSE /\ pos' = r.nextPos /\ status' = r.status
                  /\ UNCHANGED <<count, fetchOffset, page>>
    /\ UNCHANGED got

Next == GetItem \/ ReadField \/ Increment

Spec == Init /\ [][Next]_vars
-----------------------------------------------------------------------------
TypeOK ==
    /\ idx \in 0..QCount
    /\ pos \in 0..FetchAmount /\ nextPos \in 0..FetchAmount
    /\ item \in -1..(QCount - 1) /\ got \in -1..(QCount - 1)
    /\ count \in 1..FetchAmount /\ fetchOffset \in 0..QCount
    /\ page \in Seq(0..(QCount - 1)) /\ Len(page) = count
    /\ status \in BOOLEAN

\* The iterator implements the abstract iteration: through page fetches of
\* any size, failed calls and malformed data, GetItem returns result i at
\* index i whenever it leaves Status() ok, and a stale earlier one
\* otherwise.
Abs == INSTANCE QueryResultsIteration WITH ok <- status
Refines == Abs!Spec

=============================================================================
