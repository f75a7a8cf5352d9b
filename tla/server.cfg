\* Teardown: two connections, two requests that share a connection, at once or one
\* after the other, or do not, answers without objects, an encoder that holds one
\* message; ends, errors, close() and every surprise at any time.
SPECIFICATION Spec
CONSTANTS
    c1 = c1  c2 = c2  i1 = i1  i2 = i2  k1 = k1  k2 = k2
    Conns <- TwoConns
    CallIds <- TwoIds
    None = None
    Callbacks <- TwoCallbacks
    EncoderRoom = 1
    MaxMsgs = 2
    MaxWrites = 0
    Surprises <- AllSurprises
SYMMETRY SameThings
INVARIANTS TypeOK NoAssertionFailure ConnsAccounted CallbacksInOrder
PROPERTIES CallbacksAfterTeardown
\* The clients may have no more to ask.
CHECK_DEADLOCK FALSE
