CONSTANTS
    Peer = {p1, p2}
    ConnId = {c1, c2}
    NoConn = NoConn
    NoPeer = NoPeer
    HandlerResult = {"Ok", "Timeout"}
    MaxRequests = 2
    MaxActions = 1
INIT Init
NEXT Next
SYMMETRY Symmetry
INVARIANT RequestAccounting
INVARIANT OutboundOutcomeUnique
INVARIANT ReadyTracked
INVARIANT WaitersOnlyWhileDisconnected
PROPERTY LifecycleRefined
CHECK_DEADLOCK FALSE
