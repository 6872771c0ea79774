SPECIFICATION FairSpec
CONSTANTS
    MinInt <- MCMinInt
    MaxInt = 3
INVARIANTS NoOverflow
PROPERTIES VisitsTheRange LoopEnds
