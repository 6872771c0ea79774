SPECIFICATION Spec
CONSTANTS
    Callers = {c1}
    Holders = {}
    Workspaces = {w1}
    Pids = {p1, p2}
    NoPath = NoPath
    Dead = Dead
    NoPid = NoPid
    Foreign = Foreign
    HostReaps = TRUE
INVARIANT ZombieHoldsGroupId
