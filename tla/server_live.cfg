\* One connection: two requests that share it and its encoder, which holds one
\* message, and liveness.
SPECIFICATION FairSpec
CONSTANTS
    c1 = c1  c2 = c2  i1 = i1  i2 = i2  k1 = k1  k2 = k2
    Conns <- OneConn
    CallIds <- TwoIds
    None = None
    Callbacks <- OneCallback
    EncoderRoom = 1
    MaxMsgs = 2
    MaxWrites = 1
    Surprises <- NoSurprises
INVARIANTS  ResponsesWellFormed
PROPERTIES ConnectionsAreRemoved CloseReleasesCallbacks
\* The clients may have no more to ask.
CHECK_DEADLOCK FALSE
