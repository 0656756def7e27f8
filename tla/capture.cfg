\* Capture links and routes in one session, while a capture comes and goes and
\* its id is used again (CaptureGens = 3). The client also names our own nodes,
\* the filter lets any subset through, create_link and the file may fail.
SPECIFICATION Spec
CONSTANTS
    a1 = a1
    a2 = a2
    App = {a1}
    Capture = {c1}
    OtherNull = {}
    Channel = {"FL"}
    InitiallyUp = {a1}
    MetadataKnown = TRUE
    AppGens = 2
    CaptureGens = 3
    OtherNullGens = 0
    StraysForm = FALSE
    SinkBecomesDefault = FALSE
    VirtualMic = TRUE
    Ops = {"route", "targets", "dispose"}
    Selections <- WithOwn
    Filters = {TRUE}
    Fallible = TRUE
    MaxRequests = 2
INVARIANTS
    HandlesTracked
    NoFeedback
    NoOrphanLinks
    NothingSelectedNothingHeard
    
PROPERTIES
    ImplementsSharing
\* The helper may exit, and the client may send nothing more.
CHECK_DEADLOCK FALSE
