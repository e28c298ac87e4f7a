\* Is a scan deferred at its organization's limit always retried?
CONSTANTS
    Scans = {s1, s2}
    Workers = {w1, w2}
    NoOne = NoOne
    MaxPerOrg = 1
    Attempts = 3
    MaxStalled = 2
    MaxFaults <- NoFaults
    MaxFaultsInAll = 0
SPECIFICATION Spec
INVARIANT DeferredIsRetried
CHECK_DEADLOCK FALSE
