\* A socket emits 'error' and then 'end'.
SPECIFICATION Spec
CONSTANTS
    c1 = c1  c2 = c2  i1 = i1  i2 = i2  k1 = k1  k2 = k2
    Conns <- OneConn
    CallIds <- OneId
    None = None
    Callbacks <- OneCallback
    EncoderRoom = 1
    MaxMsgs = 1
    MaxWrites = 1
    Surprises <- LateEnd
INVARIANTS LateEndsAreIgnored
\* The clients may have no more to ask.
CHECK_DEADLOCK FALSE
