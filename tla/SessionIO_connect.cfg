\* An outbound session of a node without a local address.
SPECIFICATION Spec
CONSTANTS
    OUTPUT_BLOCK_THRESHOLD = 3
    MaxFrame = 2
    MaxQueue = 4
    FdKnown = FALSE
    Faults = FALSE
INVARIANT OutboundSurvives
