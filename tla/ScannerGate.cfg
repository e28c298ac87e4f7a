\* One command with --fail-on=info.
CONSTANTS
    Sites <- BareSites
    CommandLines <- GateCommandLines
    Requests = {}
    MaxRuns = 1
SPECIFICATION Spec
INVARIANT FailOnHolds
CHECK_DEADLOCK FALSE
