\* Every site of six paths of which 3 is disallowed, and linked three levels
\* deep: a fifth page is beyond the budget, a third link beyond the depth.
CONSTANTS
    Paths = {1, 2, 3, 4, 5, 6}
    Start = 1
    Home = 1
    Sites <- SmallSites
    Sitemap <- ThirdAndLast
    Banned = {3}
    Excluded = {}
    MaxDepth = 2
    MaxPages = 4
    Concurrency = 2
    MaxLookups = 1
    MaxProbes = 2
SPECIFICATION FairSpec
INVARIANTS
    RequestsBounded
    CompletedIsComplete
    PartialIsNearest
    ReportOrder
PROPERTIES
    AbortStopsPages
    CrawlEnds
CHECK_DEADLOCK FALSE
