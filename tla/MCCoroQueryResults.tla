------------------------- MODULE MCCoroQueryResults -------------------------
EXTENDS CoroQueryResults

\* Five results in pages of at most two: pages of size 1 and 2 alternate,
\* so a page boundary is crossed with every mix of old and new count.
MCQCount == 5
MCFetchAmount == 2
=============================================================================
