\* Six identifiers from 1, like the client's and the server's allocators; and
\* streams of up to three frames, good and bad, cut into chunks of any size up to
\* more than two frames and ending anywhere.
SPECIFICATION PartsSpec
CONSTANTS
    ida_min = 1
    ida_max = 6
    NoId = NoId
    Characters <- AnyCharacter
    Streams <- AnyStream
    Json <- AnyJson
    FP_MSGID_MAX = 1
    MaxChunk = 17
INVARIANTS
    PoolTypeOK LoopFindsFirstFree
    TypeOK NoAssertionFailure DecodesWhatArrived EncodedIsAccepted
PROPERTIES NeverHandsOutHeldId FullCycleBeforeReuse EndIsReported
\* The stream may be over.
CHECK_DEADLOCK FALSE
