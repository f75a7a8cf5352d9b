----------------------------- MODULE FastDecoder -----------------------------
(***************************************************************************)
(* The Fast protocol on the wire: fastMessageEncode(), FastMessageDecoder  *)
(* and fastMessageDecode() of lib/fast_protocol.js.                        *)
(*                                                                         *)
(* A peer sends frames.  The transport cuts their bytes where it likes and *)
(* ends when it likes; the decoder has to make the same messages of them   *)
(* however they come.  A frame has one cell for each field of the header,  *)
(* whose width in bytes decides nothing, and some for its data.            *)
(***************************************************************************)
EXTENDS Integers, Sequences

CONSTANTS
    Characters,     \* what payloads are made of
    Streams,        \* sequences of frames a peer may send
    Json,           \* payload -> what JSON.parse() makes of it
    FP_MSGID_MAX,
    MaxChunk        \* bound: cells of a chunk

\* A message on the wire, whatever its fields hold.
Frames ==
    [version : Nat, type : Nat, status : Nat, msgid : Nat,
     crc : [by : {"node-crc 0.3", "node-crc 3"}, of : Seq(Characters)],
     data : Seq(Characters)]

ASSUME DecoderAssumption ==
    /\ Streams \subseteq Seq(Frames)
    /\ FP_MSGID_MAX \in Nat /\ MaxChunk \in Nat \ {0}

VARIABLES
    stream,         \* the frames sent; never changes
    sent,           \* cells of them that the decoder has been given
    md_buffer, md_havebytes, md_done, md_error,
    md_version,     \* of the header being read, if there is one
    decoding,       \* "idle", "loop" or "callback"
    out,            \* messages pushed
    outcome,        \* "error" or "end", once emitted
    crashed

input == <<stream, sent>>
vars == <<input, md_buffer, md_havebytes, md_done, md_error, md_version,
          decoding, out, outcome, crashed>>

FP_VERSION_1 == 1
FP_VERSION_CURRENT == 2
NoVersion == -1
FP_TYPE_JSON == 1
FP_STATUS_DATA == 1
FP_STATUS_END == 2
FP_STATUS_ERROR == 3

\* Where the fields of a header are.
FP_OFF_VERSION == 1
FP_OFF_TYPE    == 2
FP_OFF_STATUS  == 3
FP_OFF_MSGID   == 4
FP_OFF_CRC     == 5
FP_OFF_DATALEN == 6
FP_HEADER_SZ   == 6

Cells(frame) ==
    <<frame.version, frame.type, frame.status, frame.msgid, frame.crc,
      Len(frame.data)>> \o frame.data

\* The cells of the first k of the frames s, one after the other.
Upto(s) ==
    LET upto[k \in 0 .. Len(s)] ==
            IF k = 0 THEN <<>> ELSE upto[k - 1] \o Cells(s[k])
    IN  upto

Wire(s) == Upto(s)[Len(s)]

Init ==
    /\ stream \in Streams /\ sent = 0
    /\ md_buffer = <<>> /\ md_havebytes = 0
    /\ md_done = FALSE /\ md_error = "none" /\ md_version = NoVersion
    /\ decoding = "idle" /\ out = <<>> /\ outcome = "none"
    /\ crashed = FALSE
-----------------------------------------------------------------------------
(* Checksums and messages *)

\* Faulty variant: one implementation for every version.
CrcCurrent(version, data) == [by |-> "node-crc 3", of |-> data]

\* Version 1 has the checksum of a buggy library.
Crc(version, data) ==
    [by |-> IF version = FP_VERSION_1 THEN "node-crc 0.3" ELSE "node-crc 3",
     of |-> data]

\* fastMessageEncode()
Encode(version, status, msgid, data) ==
    [version |-> version, type |-> FP_TYPE_JSON, status |-> status,
     msgid |-> msgid, crc |-> Crc(version, data), data |-> data]

\* Which implementation validateCrc() goes by.
Validates(version, crc, data) ==
    crc = [by |-> IF version = FP_VERSION_1 THEN "node-crc 0.3"
                  ELSE "node-crc 3", of |-> data]

Parse(data) == IF data \in DOMAIN Json THEN Json[data] ELSE "invalid"

\* What fastMessageDecode() rejects of a message whose header is good.
DataError(version, status, crc, data) ==
    LET json == Parse(data) IN
    CASE ~Validates(version, crc, data) -> "bad_crc"
      [] Validates(version, crc, data) /\ json = "invalid" -> "invalid_json"
      [] Validates(version, crc, data) /\ json = "scalar" -> "bad_data"
      [] Validates(version, crc, data) /\ json \notin {"invalid", "scalar"} ->
            IF status # FP_STATUS_ERROR /\ json # "array" THEN "bad_data_d"
            ELSE IF status = FP_STATUS_ERROR /\ json # "error" THEN "bad_error"
            ELSE "none"

\* What decode() rejects of a header.
HeaderError(version, type, status, msgid) ==
    IF version \notin {FP_VERSION_CURRENT, FP_VERSION_1}
    THEN "unsupported_version"
    ELSE IF type # FP_TYPE_JSON THEN "unsupported_type"
    ELSE IF status \notin {FP_STATUS_DATA, FP_STATUS_END, FP_STATUS_ERROR}
    THEN "unsupported_status"
    ELSE IF msgid > FP_MSGID_MAX THEN "invalid_msgid"
    ELSE "none"
-----------------------------------------------------------------------------
(* The decoder *)

\* decode() starts, in _transform() or _flush(), on what there is.
DecodeStarts ==
    /\ crashed' = (md_error # "none")
    /\ decoding' = "loop"
    /\ UNCHANGED <<md_error, md_version, out, outcome>>

\* _transform(): a chunk of n cells.
Transform(n) ==
    /\ ~crashed /\ decoding = "idle" /\ outcome = "none" /\ ~md_done
    /\ sent + n <= Len(Wire(stream))
    /\ md_buffer' = md_buffer \o SubSeq(Wire(stream), sent + 1, sent + n)
    /\ md_havebytes' = md_havebytes + n
    /\ sent' = sent + n
    /\ DecodeStarts
    /\ UNCHANGED <<stream, md_done>>

\* _flush(): the transport has ended.
Flush ==
    /\ ~crashed /\ decoding = "idle" /\ outcome = "none" /\ ~md_done
    /\ md_done' = TRUE
    /\ DecodeStarts
    /\ UNCHANGED <<input, md_buffer, md_havebytes>>

\* What is left over when the stream is done is an error.
AfterLoop(error) ==
    IF error = "none" /\ md_havebytes > 0 /\ md_done
    THEN "incomplete_message" ELSE error

\* The loop is left; the callback is called from setImmediate().
Break(error) ==
    /\ md_error' = AfterLoop(error)
    /\ decoding' = "callback"
    /\ UNCHANGED <<input, md_done, out, outcome>>

Field(offset) == md_buffer[offset]

HeaderErrorHere ==
    HeaderError(Field(FP_OFF_VERSION), Field(FP_OFF_TYPE),
                Field(FP_OFF_STATUS), Field(FP_OFF_MSGID))

MessageSize == FP_HEADER_SZ + Field(FP_OFF_DATALEN)

InLoop == ~crashed /\ decoding = "loop"

\* What the head of the loop asserts.
LoopAsserts == Len(md_buffer) = md_havebytes /\ md_version = NoVersion

\* An assertion of the loop fails.
Crash ==
    /\ crashed' = TRUE
    /\ UNCHANGED <<input, md_buffer, md_havebytes, md_done, md_error,
                   md_version, decoding, out, outcome>>

\* No header is complete.
NeedHeader ==
    /\ InLoop /\ md_havebytes < FP_HEADER_SZ
    /\ Break("none")
    /\ UNCHANGED <<md_buffer, md_havebytes, md_version, crashed>>

RejectHeader ==
    /\ HeaderErrorHere # "none"
    /\ md_version' = Field(FP_OFF_VERSION)
    /\ Break(HeaderErrorHere)
    /\ UNCHANGED <<md_buffer, md_havebytes, crashed>>

\* Faulty variant: the fields of an incomplete message are kept.
ForgottenNot == Field(FP_OFF_VERSION)

\* Of an incomplete message the header is read again later.
Forgotten == NoVersion

NeedData ==
    /\ HeaderErrorHere = "none"
    /\ md_havebytes < MessageSize
    /\ md_version' = Forgotten
    /\ Break("none")
    /\ UNCHANGED <<md_buffer, md_havebytes, crashed>>

\* Faulty variant: one message per chunk.
NextTime == "callback"

\* Another message may be in the buffer.
Again == "loop"

\* Faulty variant: more bytes are taken off the count than off the buffer.
ConsumedOneMore == MessageSize + 1

Consumed == MessageSize

\* A complete message is consumed, and pushed if it is one.
Consume ==
    LET data == SubSeq(md_buffer, FP_HEADER_SZ + 1, MessageSize)
        error == DataError(Field(FP_OFF_VERSION), Field(FP_OFF_STATUS),
                           Field(FP_OFF_CRC), data)
    IN  /\ HeaderErrorHere = "none"
        /\ md_havebytes >= MessageSize
        /\ md_buffer' = SubSeq(md_buffer, MessageSize + 1, Len(md_buffer))
        /\ md_havebytes' = md_havebytes - Consumed
        /\ IF error = "none"
           THEN /\ out' = Append(out, [status |-> Field(FP_OFF_STATUS),
                                       msgid |-> Field(FP_OFF_MSGID),
                                       data |-> data,
                                       version |-> Field(FP_OFF_VERSION)])
                /\ decoding' = Again
                /\ UNCHANGED <<md_error, md_version>>
           ELSE /\ md_error' = error
                /\ md_version' = Field(FP_OFF_VERSION)
                /\ decoding' = "callback"
                /\ UNCHANGED out
        /\ UNCHANGED <<input, md_done, outcome, crashed>>

\* A header is complete.
ReadHeader ==
    /\ InLoop /\ md_havebytes >= FP_HEADER_SZ
    /\ IF LoopAsserts THEN RejectHeader \/ NeedData \/ Consume ELSE Crash

\* Faulty variant: the callback is only called when there is no error.
OutcomeIfGood == IF md_error = "none" /\ md_done THEN "end" ELSE "none"

Outcome ==
    IF md_error # "none" THEN "error" ELSE IF md_done THEN "end" ELSE "none"

\* The stream machinery goes on: with the error, the end, or the next chunk.
Callback ==
    /\ ~crashed /\ decoding = "callback"
    /\ decoding' = "idle"
    /\ outcome' = Outcome
    /\ UNCHANGED <<input, md_buffer, md_havebytes, md_done, md_error,
                   md_version, out, crashed>>

Decode == NeedHeader \/ ReadHeader \/ Callback

Next == Flush \/ Decode \/ \E n \in 1 .. MaxChunk : Transform(n)

Spec == Init /\ [][Next]_vars

\* The event loop runs what decode() has scheduled.
FairSpec == Spec /\ WF_vars(Decode)
-----------------------------------------------------------------------------
TypeOK ==
    /\ sent \in Nat /\ md_havebytes \in Nat
    /\ md_done \in BOOLEAN /\ crashed \in BOOLEAN
    /\ md_error \in {"none", "unsupported_version", "unsupported_type",
                    "unsupported_status", "invalid_msgid", "bad_crc",
                    "invalid_json", "bad_data", "bad_data_d", "bad_error",
                    "incomplete_message"}
    /\ decoding \in {"idle", "loop", "callback"}
    /\ outcome \in {"none", "error", "end"}

\* No assertion of the decoder fails, whatever is sent.
NoAssertionFailure == ~crashed

(* What a stream means, frame by frame and not by its cells. *)

Message(frame) ==
    [status |-> frame.status, msgid |-> frame.msgid, data |-> frame.data,
     version |-> frame.version]

Rejected(frame) ==
    LET header == HeaderError(frame.version, frame.type, frame.status,
                              frame.msgid)
    IN  IF header # "none" THEN header
        ELSE DataError(frame.version, frame.status, frame.crc, frame.data)

\* Cells up to the end of frame k.
EndOf(k) == Len(Upto(stream)[k])

\* The good frames before any bad one, of those that have arrived in full.
NGood ==
    CHOOSE n \in 0 .. Len(stream) :
        /\ \A k \in 1 .. n : Rejected(stream[k]) = "none" /\ EndOf(k) <= sent
        /\ n < Len(stream) =>
              Rejected(stream[n + 1]) # "none" \/ EndOf(n + 1) > sent

\* What is wrong after them: a bad header, a bad message, or a partial one when
\* the stream is done.
Wrong ==
    IF NGood = Len(stream) THEN "none"
    ELSE LET frame == stream[NGood + 1]
             header == HeaderError(frame.version, frame.type, frame.status,
                                   frame.msgid)
             arrived == sent - EndOf(NGood)
         IN  IF arrived >= FP_HEADER_SZ /\ header # "none" THEN header
             ELSE IF arrived >= Len(Cells(frame)) THEN Rejected(frame)
             ELSE IF md_done /\ arrived > 0 THEN "incomplete_message"
             ELSE "none"

\* However its bytes are cut into chunks, a stream means the same: whenever the
\* decoder has dealt with a chunk it has pushed every message that has arrived in
\* full, in order, up to the first that is wrong, and knows that error and no
\* other.
DecodesWhatArrived ==
    decoding = "idle" =>
        /\ out = [k \in 1 .. NGood |-> Message(stream[k])]
        /\ md_error = Wrong

\* What fastMessageEncode() asserts, of a version there is, with the data that
\* clients and servers send.
WellFormed(frame) ==
    /\ frame = Encode(frame.version, frame.status, frame.msgid, frame.data)
    /\ frame.version \in {FP_VERSION_1, FP_VERSION_CURRENT}
    /\ frame.status \in {FP_STATUS_DATA, FP_STATUS_END, FP_STATUS_ERROR}
    /\ frame.msgid \in 0 .. FP_MSGID_MAX
    /\ Parse(frame.data) = IF frame.status = FP_STATUS_ERROR THEN "error"
                           ELSE "array"

\* The decoder takes whatever the encoder makes, in either version.
EncodedIsAccepted ==
    (\A k \in 1 .. Len(stream) : WellFormed(stream[k]))
        => md_error \in {"none", "incomplete_message"}

\* Once the transport has ended the decoder says how: with 'error' or with 'end'.
EndIsReported == md_done ~> outcome # "none"
=============================================================================
