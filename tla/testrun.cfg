SPECIFICATION FairSpec
CONSTANTS
    NumCases = 2
    MaxJobs = 2
CHECK_DEADLOCK FALSE
INVARIANT CountsWorkers
INVARIANT FailuresRecorded
PROPERTY RunEnds
