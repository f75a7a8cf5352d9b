\* An honest server that serves: two requests, one with a timeout.
SPECIFICATION FairSpec
CONSTANTS
    r1 = r1  r2 = r2  r3 = r3  obj = obj
    Requests <- TwoRequests
    None = None  NoMsgId = NoMsgId  Null = Null
    MaxMsgId = 2
    Object <- Objects
    Payloads <- NoPayload
    Flowing <- TwoRequests
    IgnoreNull <- Nobody
    Timed <- OnlyR2
    Reentrant = FALSE
    HonestPeer = TRUE
    MaxPeerMsgs = 0

PROPERTIES ImplementsStream DisconnectedRequestsFinish TimedRequestsFinish
\* Everything may be finished and the caller have no more to ask.
CHECK_DEADLOCK FALSE
