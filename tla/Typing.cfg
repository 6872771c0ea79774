CONSTANTS
    MaxInt = 7
    MaxSize = 7
    Uncallable = {"main"}
    Bindings = {"c"}
    Declared <- MCDeclared
    Symbols <- MCSymbols
    Statements <- MCStatements
    Samples <- MCSamples
SPECIFICATION Spec
INVARIANTS AcceptsWellTyped RecordsDerivable ErrorsAreRooted IdsCanonical PassesAgree EvaluatesInOrder
PROPERTY TypeIdsStable
CHECK_DEADLOCK FALSE
