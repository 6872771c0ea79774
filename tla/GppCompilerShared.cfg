SPECIFICATION Spec
CONSTANTS
    Callers = {c1, c2}
    Holders = {}
    Workspaces = {w1, w2}
    Pids = {p1, p2, p3}
    NoPath = NoPath
    Dead = Dead
    NoPid = NoPid
    Foreign = Foreign
    HostReaps = FALSE
SYMMETRY Symmetry
INVARIANTS SignalsReachOwnGroupOnly StatusIsOwn CompilerKeepsWorkspace
    HostInvariant TerminationIsComplete
