\* The user changes the selection from one application to another.
SPECIFICATION Spec
CONSTANTS
    a1 = a1
    a2 = a2
    App = {a1, a2}
    Capture = {c1}
    OtherNull = {}
    Channel = {"FL"}
    InitiallyUp = {a1, a2, c1}
    MetadataKnown = TRUE
    AppGens = 1
    CaptureGens = 2
    OtherNullGens = 0
    StraysForm = FALSE
    SinkBecomesDefault = FALSE
    VirtualMic = FALSE
    Ops = {"targets"}
    Selections <- OneOrOther
    Filters = {FALSE}
    Fallible = FALSE
    MaxRequests = 2
INVARIANTS
    CapturesFollowSelection
\* The helper may exit, and the client may send nothing more.
CHECK_DEADLOCK FALSE
