SPECIFICATION Spec
CONSTANTS
    Starts <- MCStarts
    Alphabet <- MCAlphabet
INVARIANTS AcceptsTheGrammar RecoversToValidSuffix StaysInBlock ThenBlockEndsBeforeElse
CHECK_DEADLOCK FALSE
