SPECIFICATION Spec
CONSTANTS
    x = x
    Main = main
    Names <- MCNames
    Nodes <- MCNodes
    Symbols <- MCSymbols
    Builtins = {}
    MaxNodes = 5
    MaxParameters = 2
INVARIANTS ResolutionIsLexical AcceptsWellScoped ReportsExplain
    DuplicatesReported
