SPECIFICATION FairSpec
CONSTANTS
    Callers = {c1}
    Holders = {h1, h2}
    Workspaces = {w1, w2}
    Pids = {p1, p2}
    NoPath = NoPath
    Dead = Dead
    NoPid = NoPid
    Foreign = Foreign
    HostReaps = TRUE
PROPERTIES EveryCallReturns LeaseHonoured LostGroupIsLeftAlone
