\* Two domains that share an address, one peer with one session, channels of
\* one slot.
CONSTANTS
    d1 = d1  d2 = d2  a1 = a1  a2 = a2  p1 = p1  p2 = p2
    Domain = {d1, d2}
    Address = {a1}
    Configured = {d1}
    RecordLife = 1
    MaxTTL = 0
    Peer = {p1}
    ActionCap = 1
    OutputCap = 1
    MaxSession = 1
    CanBreak = TRUE
    CanStop = TRUE
SPECIFICATION XFairSpec
INVARIANTS CallerHoldsLock Pipeline PeersKnowTheDomains
PROPERTIES BroadcasterKept LockReleased PeersFollow
CHECK_DEADLOCK FALSE
