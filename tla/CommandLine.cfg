SPECIFICATION Spec
CONSTANTS
    Addresses = {a1, a2}
    MaxRounds = 3
    Files = {f1, f2}
    MaxArguments = 4
SYMMETRY Symmetry
INVARIANTS
    FreshResults
    VerdictTellsTruth
    ArgumentsUnderstood
    OutputOnlyOnSuccess
CHECK_DEADLOCK FALSE
