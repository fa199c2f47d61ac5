SPECIFICATION FairSpec
CONSTANTS
    t1 = t1
    t2 = t2
    s1 = s1
    s2 = s2
    TaskIds = {t1, t2}
    Stops = {s1, s2}
    MaxWorkers = 2
    MaxStarts = 2
    MaxJobs = 2
INVARIANTS TypeOK RunsOnce RecordsTruthful PoolBound
PROPERTIES StopIsQuiet FollowsLifecycle QueuedJobsRun StopReturns
