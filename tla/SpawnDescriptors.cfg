SPECIFICATION Spec
SYMMETRY Symmetry
CONSTANTS
    Callers = {c1, c2}
    Host = Host
    Nobody = Nobody
    MaxFds = 6
INVARIANTS ChildSeesOwnStreams HeldExactly
PROPERTIES OthersKeepDescriptors
