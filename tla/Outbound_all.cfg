\* Two endpoints on loops of their own, three connects.
SPECIFICATION FairSpec
CONSTANTS
    Endpoints = {"A", "B"}
    Droppable = {"A"}
    Calls <- MCCalls
    EpOf <- MCEpOf
    UrlsOf <- MCUrlsOf
    LocalsOf <- MCLocalsOf
    None = None
    Delete = Delete
    Octet = {0, 1, 2}
    big_endian = FALSE
INVARIANTS TypeOK UriIsOwn SslAliveAtShutdown
PROPERTY NothingLeft
