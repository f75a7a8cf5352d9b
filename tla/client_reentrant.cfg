\* Callers that use the API from a 'data' listener, and END messages that
\* carry data.
SPECIFICATION Spec
CONSTANTS
    r1 = r1  r2 = r2  r3 = r3  obj = obj
    Requests <- TwoRequests
    None = None  NoMsgId = NoMsgId  Null = Null
    MaxMsgId = 2
    Object <- Objects
    Payloads <- OneObject
    Flowing <- TwoRequests
    IgnoreNull <- Nobody
    Timed <- Nobody
    Reentrant = TRUE
    HonestPeer = FALSE
    MaxPeerMsgs = 2
INVARIANTS NoAssertionFailure
CHECK_DEADLOCK FALSE
