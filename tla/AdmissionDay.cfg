\* Two requests and a ticker, quotas of one website and one scan, two hours of
\* a day and one of the next, one scan of the API key.
CONSTANTS
    Callers = {c1, c2}
    Tickers = {k1}
    Sites = {s1, s2}
    MaxWebsites = 1
    MaxScansPerDay = 1
    DayHours = 2
    Intervals = {0, 1}
    MinInterval = 1
    MaxTime = 2
    MaxKeyScans = 1
    MaxTokens = 2
    MaxUrls = 1
CONSTRAINT OneStudied
SYMMETRY Symmetry
SPECIFICATION Spec
INVARIANTS
    QuotasHold
    ScheduledWasProved
PROPERTIES
    RunsApart
CHECK_DEADLOCK FALSE
