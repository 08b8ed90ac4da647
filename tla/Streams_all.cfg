\* Three streams and three descriptors, which leak one per answer: the last
\* answer finds no pipe.
SPECIFICATION FairSpec
CONSTANTS
    Ids = {i1, i2, i3}
    Fds = {f1, f2, f3}
    NoFd = NoFd
    Faults = TRUE
INVARIANTS TypeOK StreamsAgree Answered ReadsOwnFd
PROPERTY RequestsEnd
