SPECIFICATION FairSpec
CONSTANTS
    MaxJobs = 2
    MaxTime = 2
    MaxSleep = 1
CHECK_DEADLOCK FALSE
INVARIANT OneShotRunsOnce
INVARIANT CancelledStaysGone
PROPERTY DueJobsRun
