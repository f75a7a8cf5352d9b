\* A client makes two calls and ends its side, and a destroyed socket that is
\* written to emits 'error'; nothing else happens.
SPECIFICATION SystemSpec
CONSTANTS
    c1 = c1  k1 = k1  r1 = r1  r2 = r2
    Conns <- OneConn
    conn = c1
    CallIds <- TwoIds
    None = None  NoMsgId = NoMsgId  Null = Null
    Callbacks <- NoCallback
    EncoderRoom = 1
    MaxMsgs = 2
    MaxWrites = 1
    Surprises <- LateError
    Requests <- TwoRequests
    MaxMsgId = 2
    Workload <- OnlyR2
    maxObjectsToBuffer = 1
    Expected = 1
    Worlds <- HalfClose
INVARIANTS LateErrorsAreHandled
\* The calls may all be answered.
CHECK_DEADLOCK FALSE
