\* A peer that negotiated h2.
SPECIFICATION Spec
CONSTANTS
    OUTPUT_BLOCK_THRESHOLD = 3
    MaxFrame = 2
    MaxQueue = 4
    FdKnown = TRUE
    Faults = FALSE
INVARIANT H2Initialised
