CONSTANTS
    Peer = {p1}
    ConnId = {c1, c2}
    NoConn = NoConn
    NoPeer = NoPeer
    HandlerResult = {"Ok", "Timeout"}
    MaxRequests = 1
    MaxActions = 0
    Response = {r1}
    MaxResets = 1
SPECIFICATION DispatchSpec
INVARIANT CallerOutcomeUnique
CHECK_DEADLOCK FALSE
