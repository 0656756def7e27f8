\* Only the main loop is fair: the server may never announce anything.
SPECIFICATION StepSpec
CONSTANTS
    a1 = a1
    a2 = a2
    App = {a1}
    Capture = {c1}
    OtherNull = {}
    Channel = {"FL"}
    InitiallyUp = {a1}
    MetadataKnown = FALSE
    AppGens = 1
    CaptureGens = 1
    OtherNullGens = 0
    StraysForm = FALSE
    SinkBecomesDefault = FALSE
    VirtualMic = TRUE
    Ops = {"route", "targets", "mute", "restoreDefault", "dispose", "kill"}
    Selections <- JustA1
    Filters = {FALSE}
    Fallible = TRUE
    MaxRequests = 2
PROPERTIES
    HelperResponsive
\* The helper may exit, and the client may send nothing more.
CHECK_DEADLOCK FALSE
