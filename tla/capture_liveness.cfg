\* A capture appears late and goes, links from null sinks into it form at any
\* time, again and again. No id is used again, and nodes have one channel.
SPECIFICATION FairSpec
CONSTANTS
    a1 = a1
    a2 = a2
    App = {a1}
    Capture = {c1}
    OtherNull = {o1}
    Channel = {"FL"}
    InitiallyUp = {a1, o1}
    MetadataKnown = TRUE
    AppGens = 1
    CaptureGens = 2
    OtherNullGens = 2
    StraysForm = TRUE
    SinkBecomesDefault = FALSE
    VirtualMic = FALSE
    Ops = {"targets"}
    Selections <- JustA1
    Filters = {FALSE}
    Fallible = FALSE
    MaxRequests = 2
PROPERTIES
    StraysCleared
    CapturesLinked
\* The helper may exit, and the client may send nothing more.
CHECK_DEADLOCK FALSE
