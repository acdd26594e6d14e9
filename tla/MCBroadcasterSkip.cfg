\* Two peers with a session each, that may break; no shutdown.
CONSTANTS
    p1 = p1  p2 = p2  a1 = a1
    Peer = {p1, p2}
    Address = {a1}
    ActionCap = 1
    OutputCap = 1
    MaxSession = 1
    CanBreak = TRUE
    CanStop = FALSE
SPECIFICATION Spec
SYMMETRY Sym
INVARIANT LivePeersInSync
CHECK_DEADLOCK FALSE
