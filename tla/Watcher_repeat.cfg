\* A ticker of call_every is expected to fire again.
SPECIFICATION FairSpec
CONSTANTS
    Watchers = {w1}
    Micro = 3
    Delays = {1, 3}
    MaxFires = 2
PROPERTY TickerRepeats
