------------------------ MODULE QueryResultsIteration ------------------------
(***************************************************************************)
(* What iterating over a query's results promises, whatever the paging:   *)
(* the iterator walks the indexes 0 .. QCount-1 in order; while the       *)
(* results are ok, reading at index i yields result i; a step may put the *)
(* results in error or clear an earlier error (the next successful fetch *)
(* resets the status), and a read in error yields no current result (at  *)
(* most a stale earlier one).                                              *)
(***************************************************************************)
EXTENDS Integers

CONSTANT QCount   \* results of the query (queryParams_.qcount)

VARIABLES
    idx,   \* the iterator's index
    got,   \* the result the reader obtained last (-1: none yet)
    ok     \* the results' status is ok

avars == <<idx, got, ok>>

Init == idx = 0 /\ got = -1 /\ ok = TRUE

\* A step may set or clear the error.
MayFail == ok' \in BOOLEAN

\* Reading the current result: result idx when ok, else a stale one.
Read ==
    /\ idx < QCount
    /\ MayFail
    /\ got' \in IF ok' THEN {idx} ELSE -1..(idx - 1)
    /\ UNCHANGED idx

\* Inspecting the current result without taking it.
Inspect ==
    /\ idx < QCount
    /\ MayFail
    /\ UNCHANGED <<idx, got>>

\* Advancing to the next index.
Advance ==
    /\ idx < QCount
    /\ idx' = idx + 1
    /\ MayFail
    /\ UNCHANGED got

Spec == Init /\ [][Read \/ Inspect \/ Advance]_avars
=============================================================================
