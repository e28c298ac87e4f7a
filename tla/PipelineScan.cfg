\* One scan, two workers, BullMQ's real bounds, up to two faults: the scan's
\* job is redelivered while an earlier attempt is still going on; a slot a dead
\* worker leaked defers the later attempts.
CONSTANTS
    Scans = {s1}
    Workers = {w1, w2}
    NoOne = NoOne
    MaxPerOrg = 1
    Attempts = 3
    MaxStalled = 2
    MaxFaults <- AnyFault
    MaxFaultsInAll = 2
SPECIFICATION FairSpec
CONSTRAINT FewFaults
INVARIANTS
    RunsBounded
    CompletedHasReport
    CommittedStays
    OneAttemptAtATime
    FinishedJobFinishedScan
    QueuedIsAccountedFor
    OrgLimitRespected
    SlotsAccounted
PROPERTIES
    CancelledAtRest
    RunningEnds
    JobEnds
CHECK_DEADLOCK FALSE
