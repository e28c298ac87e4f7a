\* Two cancels cannot be told from one: does a completed scan stay completed?
CONSTANTS
    Scans = {s1}
    Workers = {w1}
    NoOne = NoOne
    MaxPerOrg = 1
    Attempts = 3
    MaxStalled = 2
    MaxFaults <- NoFaults
    MaxFaultsInAll = 0
SPECIFICATION Spec
PROPERTY CompletedIsNotCancelled
CHECK_DEADLOCK FALSE
