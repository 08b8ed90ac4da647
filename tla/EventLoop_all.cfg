\* Two threads and the loop thread, in any interleaving.
SPECIFICATION FairSpec
CONSTANTS
    Threads = {t1, t2}
    Loop = L
    MaxJobs = 3
    MaxInline = 1
INVARIANTS TypeOK NoLostWakeup JobOrder CapturedFrameAlive WaiterHasJob
PROPERTIES CallGetReturns JobsRun StopReturns ImplementsJobService
