\* Two endpoints on one loop, everything that can fail or be dropped.
SPECIFICATION FairSpec
CONSTANTS
    Endpoints = {e1, e2}
    App = App
    Ports = {p1, p2}
    Hosts = {h1}
    NoHost = NoHost
    Busy = {p2}
    SetupFails = TRUE
INVARIANTS TypeOK LoopOutlivesEndpoints HolderIsSafe
PROPERTY DropDeletes
