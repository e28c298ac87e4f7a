\* Three runs, of every command and every request, on a site in any of its three
\* states; the third is the command that compares.
CONSTANTS
    Sites <- MCSites
    CommandLines <- MCCommandLines
    Requests <- MCRequests
    MaxRuns = 3
SPECIFICATION Spec
CONSTRAINT ThirdCompares
INVARIANTS
    StreamsAsBatch
    OutputsAgree
    GateHasReason
    LedgerExact
    AnswersInFull
PROPERTIES
    ScoreOnlyFalls
CHECK_DEADLOCK FALSE
