\* One client in its tunnel, two claims, a scrollback and channels of two, three
\* chunks printed; one message of the client fills the connection to the pod.
SPECIFICATION TunnelSpec
CONSTANTS
    c1 = c1
    Clients = {c1}
    ScrollCap = 2
    QueueCap = 2
    MaxChunks = 3
    MaxClaims = 2
    WireCap = 2
    KeysCap = 1
    PtyCap = 1
\* The process exits, or every client is served: nothing is left to do.
CHECK_DEADLOCK FALSE
INVARIANTS
    TunnelInv
    NothingIsMissed
    RegisteredChannelsAreOpen
    OneLaunch
PROPERTIES
    IsAPod
    TheEndComesLast
    SlowClientsDoNotBlock
    LiveClientsAreServed
    EveryClientIsAnswered
    TunnelsEnd
