SPECIFICATION Spec
CONSTANTS
    first = first
    second = second
    Jobs <- TwoJobs
    NoJob = NoJob
    NoPoint = NoPoint
    Releases <- OneRelease
    InPlace <- Nothing
    Retention = 1
    WriteFaults <- AnyFault
    MaxFaults = 2
    MaxWrites = 1
SYMMETRY AnyOrder
INVARIANTS
    OpenReleaseFitsSchema
CHECK_DEADLOCK FALSE
