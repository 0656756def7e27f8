\* Two requests and two concurrent calls of dispose().
SPECIFICATION FairSpec
CONSTANTS
    Disposer = {d1, d2}
    MaxRequests = 2
INVARIANTS
    ClosedSettlesAll
    HelperGone
    DisposeIsLast
PROPERTIES
    DisposeEnds
\* Everything may have ended.
CHECK_DEADLOCK FALSE
