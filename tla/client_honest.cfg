\* Safety with an honest server: three requests over two message ids, so that
\* ids are reused, held by abandoned requests and run out; one data message.
SPECIFICATION Spec
CONSTANTS
    r1 = r1  r2 = r2  r3 = r3  obj = obj
    Requests <- ThreeRequests
    None = None  NoMsgId = NoMsgId  Null = Null
    MaxMsgId = 2
    Object <- Objects
    Payloads <- NoPayload
    Flowing <- Nobody
    IgnoreNull <- Nobody
    Timed <- Nobody
    Reentrant = FALSE
    HonestPeer = TRUE
    MaxPeerMsgs = 1
SYMMETRY SameRequests
INVARIANTS TypeOK MsgIdFreshAtPeer AnswersFindTheirRequest
\* Everything may be finished and the caller have no more to ask.
CHECK_DEADLOCK FALSE
