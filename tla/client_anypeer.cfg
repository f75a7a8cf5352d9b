\* A peer that sends anything the decoder accepts, to two requests: one has a
\* timeout, the other ignores nulls.  Nothing is assumed of it.
SPECIFICATION Spec
CONSTANTS
    r1 = r1  r2 = r2  r3 = r3  obj = obj
    Requests <- TwoRequests
    None = None  NoMsgId = NoMsgId  Null = Null
    MaxMsgId = 2
    Object <- Objects
    Payloads <- AnyPayload
    Flowing <- TwoRequests
    IgnoreNull <- OnlyR2
    Timed <- OnlyR2
    Reentrant = FALSE
    HonestPeer = FALSE
    MaxPeerMsgs = 2
INVARIANTS NoAssertionFailure PendingAgrees ErrorFailsEverything
PROPERTIES StreamSafety
\* Everything may be finished and the caller have no more to ask.
CHECK_DEADLOCK FALSE
