\* A session of either direction: back-pressure and the ways it ends.  An
\* outbound one is bound to a local address.
SPECIFICATION FairSpec
CONSTANTS
    OUTPUT_BLOCK_THRESHOLD = 3
    MaxFrame = 2
    MaxQueue = 4
    FdKnown = TRUE
    Faults = TRUE
INVARIANTS TypeOK OutputBounded NoStall SessionBeforeIo
PROPERTIES QueueMoves FinishedCloses GoneCloses
