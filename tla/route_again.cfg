\* The client routes the same application twice.
SPECIFICATION Spec
CONSTANTS
    a1 = a1
    a2 = a2
    App = {a1}
    Capture = {}
    OtherNull = {}
    Channel = {"FL"}
    InitiallyUp = {a1}
    MetadataKnown = TRUE
    AppGens = 1
    CaptureGens = 2
    OtherNullGens = 0
    StraysForm = FALSE
    SinkBecomesDefault = FALSE
    VirtualMic = FALSE
    Ops = {"route"}
    Selections <- JustA1
    Filters = {FALSE}
    Fallible = FALSE
    MaxRequests = 2
INVARIANTS
    RoutedNodesPlay
\* The helper may exit, and the client may send nothing more.
CHECK_DEADLOCK FALSE
