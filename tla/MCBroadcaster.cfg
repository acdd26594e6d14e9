\* Two peers, one address, two sessions per peer, an action channel of two slots.
CONSTANTS
    p1 = p1  p2 = p2  a1 = a1
    Peer = {p1, p2}
    Address = {a1}
    ActionCap = 2
    OutputCap = 1
    MaxSession = 2
    CanBreak = TRUE
    CanStop = TRUE
SPECIFICATION Spec
SYMMETRY Sym
INVARIANTS TypeOK InSync NoBlindReplace LateDeleteDropsNothing
CHECK_DEADLOCK FALSE
