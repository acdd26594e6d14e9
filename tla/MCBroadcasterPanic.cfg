\* Two peers whose sessions do not break; the service is stopped.
CONSTANTS
    p1 = p1  p2 = p2  a1 = a1
    Peer = {p1, p2}
    Address = {a1}
    ActionCap = 1
    OutputCap = 1
    MaxSession = 1
    CanBreak = FALSE
    CanStop = TRUE
SPECIFICATION Spec
SYMMETRY Sym
INVARIANT NoSendOnClosed
CHECK_DEADLOCK FALSE
