SPECIFICATION Spec
CONSTANTS
    x = x
    Main = main
    Nodes <- MCNodes
    MaxNodes = 7
INVARIANTS EndsReported TransfersReported DeadCodeReportedOnce
CHECK_DEADLOCK FALSE
