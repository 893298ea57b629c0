------------------------- MODULE MCSyncCoroReindexer -------------------------
(* Model values and bounds of the client's command queue for TLC.          *)
EXTENDS SyncCoroReindexer, TLC

CONSTANTS t1, t2, c1, c2, c3

MCThreads == {t1, t2}
MCCmds == {c1, c2, c3}
MCBound == {c3}

\* The workers are interchangeable; the commands are not (c3 is bound).
MCSymmetry == Permutations(MCThreads)
=============================================================================
