\* Client, connection and server: one call while nearly everything happens, and two
\* that share the connection in three quieter worlds.
SPECIFICATION SystemSpec
CONSTANTS
    c1 = c1  k1 = k1  r1 = r1  r2 = r2
    Conns <- OneConn
    conn = c1
    CallIds <- TwoIds
    None = None  NoMsgId = NoMsgId  Null = Null
    Callbacks <- NoCallback
    EncoderRoom = 1
    MaxMsgs = 2
    MaxWrites = 1
    Surprises <- AfterAccept
    Requests <- TwoRequests
    MaxMsgId = 2
    Workload <- OnlyR2
    maxObjectsToBuffer = 1
    Expected = 1
    Worlds <- AllWorlds
INVARIANTS
    SystemTypeOK NoCrash EndsAgree AnswersAreTheHandlers CallbacksCorrect
    OnlyTeardownLosesAnswers AbandonedUntilAnswered StuckIsSettled NobodyIsLeftWaiting
PROPERTIES ServerIsHonestPeer
\* The calls may all be answered.
CHECK_DEADLOCK FALSE
