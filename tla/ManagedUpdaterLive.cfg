SPECIFICATION FairSpec
CONSTANTS
    first = first
    second = second
    Jobs <- TwoJobs
    NoJob = NoJob
    NoPoint = NoPoint
    Releases <- OneRelease
    InPlace <- OneRelease
    Retention = 1
    WriteFaults <- OnlyLost
    MaxFaults = 1
    MaxWrites = 0
PROPERTIES
    RunningOperationEnds
    RequestEnds
CHECK_DEADLOCK FALSE
