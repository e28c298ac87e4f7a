\* Both ways to run the scanner, on a site of four pages.
CONSTANTS
    Modes = {"inline", "child"}
    MaxPages = 4
SPECIFICATION FairSpec
PROPERTIES
    ImplementsScanCall
    TimeoutStopsScan
CHECK_DEADLOCK FALSE
