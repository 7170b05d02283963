CONSTANTS
    Response = {r1, r2}
    MaxResets = 1
SPECIFICATION FairSpec
INVARIANT ProtocolTypeOK
INVARIANT OutcomeAgreement
PROPERTY ExchangeEnds
CHECK_DEADLOCK FALSE
