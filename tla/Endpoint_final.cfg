\* The last holder of the loop is an endpoint.
SPECIFICATION Spec
CONSTANTS
    Endpoints = {e1}
    App = App
    Ports = {p1}
    Hosts = {h1}
    NoHost = NoHost
    Busy = {}
    SetupFails = FALSE
INVARIANT FinalStops
