\* Two watchers of either kind, at every phase of the clock.
SPECIFICATION FairSpec
CONSTANTS
    Watchers = {w1, w2}
    Micro = 3
    Delays = {1, 3}
    MaxFires = 2
INVARIANTS TypeOK ArmedIsRunning OneShotOnce NotEarly
PROPERTY OneShotRuns
