\* Does an isolated scan always come to an end?
CONSTANTS
    Modes = {"child"}
    MaxPages = 1
SPECIFICATION FairSpec
PROPERTY ChildScanSettles
CHECK_DEADLOCK FALSE
