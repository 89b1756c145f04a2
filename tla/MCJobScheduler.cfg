SPECIFICATION Spec
CONSTANTS
    s1 = s1  s2 = s2  i1 = i1  i2 = i2  i3 = i3  c1 = c1  c2 = c2
    Scheduler = {s1, s2}
    NoScheduler = NoScheduler
    Info = {i1, i2, i3}
    Client = {c1, c2}
    Nobody = Nobody
    threadCount <- MCThreadCount
    sharedThreads <- MCSharedThreads
    maxCount = 2
    MaxJobs <- MCMaxJobs
    MaxStops = 1
SYMMETRY Symmetry
INVARIANTS CountersMatch BorrowsOnlyInNeed OneList StarvedIsKnown
           EmptySignalled OnlyStopStarvationBlocks
CHECK_DEADLOCK FALSE
