\* Iteration with failed fetches and malformed answers and items: the
\* iterator refines the abstract iteration.  Iteration ends at the last
\* result.
CONSTANTS
    QCount <- MCQCount
    FetchAmount <- MCFetchAmount
    ParseErrors = TRUE
SPECIFICATION Spec
INVARIANT TypeOK
PROPERTY Refines
CHECK_DEADLOCK FALSE
