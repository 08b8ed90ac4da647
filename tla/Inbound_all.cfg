\* Everything the surroundings may do, two remotes, two sessions.
SPECIFICATION FairSpec
CONSTANTS
    Remotes = {r1, r2}
    Sids = {s1, s2}
    None = None
    Waker = Waker
    Allowed = {"several", "reconnect", "listener", "shutdown"}
INVARIANTS TypeOK OwnedByListener CallbacksReachLive DanglingExplained
PROPERTIES GoneIsFreed DropFrees
