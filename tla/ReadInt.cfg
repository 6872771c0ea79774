SPECIFICATION Spec
CONSTANTS
    MaxInt = 127
    Tokens <- MCTokens
INVARIANTS NeverWraps AgreesWithToken
