\* One client with two sessions, so that their goroutines of OnClose meet; an
\* action channel of one slot; the store announces an address now and then.
CONSTANTS
    p1 = p1  a1 = a1
    Peer = {p1}
    Address = {a1}
    Talk <- Routes
    ActionCap = 1
    OutputCap = 1
    MaxSession = 2
    CanBreak = TRUE
    CanStop = TRUE
SPECIFICATION FairSessionSpec
INVARIANTS SessionTypeOK ClientNotLost 
PROPERTIES ClientReturns DeletePeerReturns SessionRegistered ShutdownCompletes
CHECK_DEADLOCK FALSE
