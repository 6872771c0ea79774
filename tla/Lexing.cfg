SPECIFICATION Spec
CONSTANTS
    Texts <- MCTexts
    ReservedWords <- MCReservedWords
INVARIANTS LexesTheGrammar MarkerShowsSpan
CHECK_DEADLOCK FALSE
