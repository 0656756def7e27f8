\* Ids are few, so that the id of a port or a link comes back as that of a node and the
\* other way round.
SPECIFICATION RegistrySpec
CONSTANTS
    NoValue = NoValue
    Id = {1, 2, 3, 4, 5, 6}
    InOrder = TRUE
    Limits <- All
INVARIANTS
    MirrorCurrent
    PortsListed
    PortsOfThisNode
    EveryOutputPlays
    SidesKept
PROPERTIES
    TitlesCatchUp
\* The server may stop changing.
CHECK_DEADLOCK FALSE
