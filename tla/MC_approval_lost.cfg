CONSTANTS
    Peer = {p1}
    ConnId = {c1, c2}
    NoConn = NoConn
    NoPeer = NoPeer
    HandlerResult = {"Ok", "Timeout"}
    MaxRequests = 2
    MaxActions = 0
INIT Init
NEXT Next
INVARIANT ApprovalOutstanding
CHECK_DEADLOCK FALSE
