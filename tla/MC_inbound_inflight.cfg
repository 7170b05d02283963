CONSTANTS
    Peer = {p1}
    ConnId = {c1, c2}
    NoConn = NoConn
    NoPeer = NoPeer
    HandlerResult = {"Ok"}
    MaxRequests = 2
    MaxActions = 0
INIT Init
NEXT Next
INVARIANT CompletedNotInFlight
CHECK_DEADLOCK FALSE
