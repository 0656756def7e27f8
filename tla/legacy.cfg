\* Two helpers of one prefix, the second of which may start (and sweep) while the
\* first runs or after it ended or was killed. Every command may fail.
SPECIFICATION LegacyFairSpec
CONSTANTS
    h1 = h1
    h2 = h2
    o1 = o1
    o2 = o2
    Session = {h1, h2}
    Output = {o1, o2}
    InitiallyUp = {o1}
    Selections = {{}, {o1}, {o2}}
    Config <- MicAndDefault
    Id = {1, 2, 3}
    Fallible <- FirstFails
    Asks <- SecondShares
    MaxRequests = 2
    MaxMoves = 1
ACTION_CONSTRAINT LowestId
INVARIANTS
    
    ModulesTracked
    DeadSwept
    
    
PROPERTIES
    Seamless
    RequestsEnd
    ImplementsSharing
\* The helpers may all be gone.
CHECK_DEADLOCK FALSE
