\* Routing into the virtual sink with a mic, and the default sink override:
\* create calls that fail, waits that time out, two applications. Both a mic and
\* a sink that becomes the default: --virtual-mic-name with --sink-becomes-default.
SPECIFICATION Spec
CONSTANTS
    a1 = a1
    a2 = a2
    App = {a1, a2}
    Capture = {}
    OtherNull = {}
    Channel = {"FL"}
    InitiallyUp = {a1, a2}
    MetadataKnown = TRUE
    AppGens = 1
    CaptureGens = 0
    OtherNullGens = 0
    StraysForm = FALSE
    SinkBecomesDefault = TRUE
    VirtualMic = TRUE
    Ops = {"ensure", "route", "clear", "setDefault", "dispose"}
    Selections <- OneOrBoth
    Filters = {FALSE}
    Fallible = TRUE
    MaxRequests = 3
INVARIANTS
    MicPlumbingIntact
    RoutesReplaced
    DefaultGivenBack
PROPERTIES
    ImplementsSharing
\* The helper may exit, and the client may send nothing more.
CHECK_DEADLOCK FALSE
