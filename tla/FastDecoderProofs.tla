------------------------- MODULE FastDecoderProofs -------------------------
(***************************************************************************)
(* Theorems about the decoder, for any streams of frames, any payloads and *)
(* chunks of any size.  IInv is the inductive invariant.                   *)
(***************************************************************************)
EXTENDS FastDecoder, SequenceTheorems, NaturalsInduction, WellFoundedInduction,
        TLAPS

Cell == Nat \cup Characters
            \cup [by : {"node-crc 0.3", "node-crc 3"}, of : Seq(Characters)]

Messages == [status : Nat, msgid : Nat, data : Seq(Characters), version : Nat]

Errors == {"none", "unsupported_version", "unsupported_type",
           "unsupported_status", "invalid_msgid", "bad_crc", "invalid_json",
           "bad_data", "bad_data_d", "bad_error", "incomplete_message"}
-----------------------------------------------------------------------------
(* Frames on the wire *)

\* A set of natural numbers that is not empty has a least member.
LEMMA LeastNumber ==
    ASSUME NEW S \in SUBSET Nat, S # {}
    PROVE  \E n \in S : \A m \in S : n <= m
<1>1. PICK n \in S : \A m \in S : <<m, n>> \notin OpToRel(<, Nat)
    BY NatLessThanWellFounded, WFMin
<1>2. \A m \in S : ~(m < n)
    BY <1>1, Zenon DEF OpToRel
<1> QED
    BY <1>2

\* A frame is its header and its data.
LEMMA CellsOfFrame ==
    ASSUME NEW frame \in Frames
    PROVE  /\ Cells(frame) \in Seq(Cell)
           /\ Len(frame.data) \in Nat
           /\ Len(Cells(frame)) = FP_HEADER_SZ + Len(frame.data)
           /\ Cells(frame)[FP_OFF_VERSION] = frame.version
           /\ Cells(frame)[FP_OFF_TYPE] = frame.type
           /\ Cells(frame)[FP_OFF_STATUS] = frame.status
           /\ Cells(frame)[FP_OFF_MSGID] = frame.msgid
           /\ Cells(frame)[FP_OFF_CRC] = frame.crc
           /\ Cells(frame)[FP_OFF_DATALEN] = Len(frame.data)
           /\ \A i \in 1 .. Len(frame.data) :
                 Cells(frame)[FP_HEADER_SZ + i] = frame.data[i]
<1> DEFINE header == <<frame.version, frame.type, frame.status, frame.msgid,
                       frame.crc, Len(frame.data)>>
<1>1. frame.data \in Seq(Characters) /\ frame.data \in Seq(Cell)
  <2>1. frame.data \in Seq(Characters)
    BY DEF Frames
  <2>2. Characters \subseteq Cell
    BY DEF Cell
  <2> QED
    BY <2>1, <2>2, SeqMonotonic
<1>2. Len(frame.data) \in Nat
    BY <1>1, LenProperties
<1>3. frame.version \in Cell /\ frame.type \in Cell /\ frame.status \in Cell
      /\ frame.msgid \in Cell /\ frame.crc \in Cell /\ Len(frame.data) \in Cell
    BY <1>2 DEF Frames, Cell
<1>4. header \in Seq(Cell) /\ Len(header) = 6
    BY <1>3
<1>5. /\ header[1] = frame.version /\ header[2] = frame.type
      /\ header[3] = frame.status /\ header[4] = frame.msgid
      /\ header[5] = frame.crc /\ header[6] = Len(frame.data)
    OBVIOUS
<1>6. Cells(frame) = header \o frame.data
    BY DEF Cells
<1> HIDE DEF header
<1>7. /\ Cells(frame) \in Seq(Cell)
      /\ Len(Cells(frame)) = 6 + Len(frame.data)
      /\ \A i \in 1 .. 6 + Len(frame.data) :
            Cells(frame)[i] = IF i <= 6 THEN header[i] ELSE frame.data[i - 6]
  <2> DEFINE d == frame.data
  <2>1. d \in Seq(Cell) /\ header \in Seq(Cell) /\ Len(header) = 6
        /\ Cells(frame) = header \o d
    BY <1>1, <1>4, <1>6
  <2> HIDE DEF d
  <2>2. /\ header \o d \in Seq(Cell)
        /\ Len(header \o d) = Len(header) + Len(d)
        /\ \A i \in 1 .. Len(header) + Len(d) :
              (header \o d)[i] = IF i <= Len(header) THEN header[i]
                                 ELSE d[i - Len(header)]
    BY <2>1, ConcatProperties, Zenon
  <2> QED
    BY <2>1, <2>2 DEF d
<1>8. \A i \in 1 .. Len(frame.data) : Cells(frame)[6 + i] = frame.data[i]
    BY <1>2, <1>7
<1> QED
    BY <1>2, <1>5, <1>7, <1>8
    DEF FP_HEADER_SZ, FP_OFF_VERSION, FP_OFF_TYPE, FP_OFF_STATUS, FP_OFF_MSGID,
        FP_OFF_CRC, FP_OFF_DATALEN

\* What it is to be the function that Upto defines, up to n.
IsUpto(f, s, n) ==
    f = [k \in 0 .. n |-> IF k = 0 THEN <<>> ELSE f[k - 1] \o Cells(s[k])]

\* There is such a function.
LEMMA UptoExists ==
    ASSUME NEW s, NEW n \in Nat
    PROVE  \E f : IsUpto(f, s, n)
<1> DEFINE without == {m \in Nat : ~\E f : IsUpto(f, s, m)}
<1>1. CASE without = {}
    BY <1>1
<1>2. CASE without # {}
  <2>1. PICK m \in without : \A j \in without : m <= j
    BY <1>2, LeastNumber
  <2>2. m # 0
    <3>1. IsUpto([k \in 0 .. 0 |-> <<>>], s, 0)
        BY DEF IsUpto
    <3> QED
        BY <2>1, <3>1
  <2>3. m - 1 \in Nat /\ m - 1 \notin without
    BY <2>1, <2>2
  <2>4. PICK g : IsUpto(g, s, m - 1)
    BY <2>3
  <2> DEFINE f == [k \in 0 .. m |-> IF k = m THEN g[m - 1] \o Cells(s[m])
                                    ELSE g[k]]
  <2>5. \A k \in 0 .. m : f[k] = IF k = 0 THEN <<>> ELSE f[k - 1] \o Cells(s[k])
    <3> TAKE k \in 0 .. m
    <3>1. CASE k = m
        BY <2>1, <2>2, <3>1
    <3>2. CASE k # m
      <4>1. k \in 0 .. m - 1
        BY <2>1, <3>2
      <4>2. g[k] = IF k = 0 THEN <<>> ELSE g[k - 1] \o Cells(s[k])
        BY <2>4, <4>1 DEF IsUpto
      <4>3. f[k] = g[k]
        BY <3>2
      <4>4. k # 0 => f[k - 1] = g[k - 1]
        BY <4>1, <2>1
      <4> QED
        BY <4>2, <4>3, <4>4
    <3> QED
        BY <3>1, <3>2
  <2>6. IsUpto(f, s, m)
    <3>1. f = [k \in 0 .. m |-> f[k]]
        OBVIOUS
    <3> HIDE DEF f
    <3> QED
        BY <3>1, <2>5 DEF IsUpto
  <2> QED
    BY <2>1, <2>6
<1> QED
    BY <1>1, <1>2

\* The recursion of Upto.
LEMMA UptoEquations ==
    ASSUME NEW s \in Seq(Frames)
    PROVE  /\ Upto(s)[0] = <<>>
           /\ \A k \in 1 .. Len(s) : Upto(s)[k] = Upto(s)[k - 1] \o Cells(s[k])
<1>1. Len(s) \in Nat
    BY LenProperties
<1>2. Upto(s) = CHOOSE f : IsUpto(f, s, Len(s))
    BY DEF Upto, IsUpto
<1>3. IsUpto(Upto(s), s, Len(s))
    BY <1>1, <1>2, UptoExists
<1>4. \A k \in 0 .. Len(s) :
        Upto(s)[k] = IF k = 0 THEN <<>> ELSE Upto(s)[k - 1] \o Cells(s[k])
    BY <1>3, Zenon DEF IsUpto
<1>5. 0 \in 0 .. Len(s) /\ \A k \in 1 .. Len(s) : k \in 0 .. Len(s) /\ k # 0
    BY <1>1
<1> QED
    BY <1>4, <1>5, Zenon

\* The wire up to any frame is a sequence of cells.
LEMMA UptoCells ==
    ASSUME NEW s \in Seq(Frames)
    PROVE  \A k \in 0 .. Len(s) : Upto(s)[k] \in Seq(Cell)
<1> DEFINE wrong == {k \in 0 .. Len(s) : Upto(s)[k] \notin Seq(Cell)}
<1>1. SUFFICES ASSUME wrong # {} PROVE FALSE
    OBVIOUS
<1>2. Len(s) \in Nat
    BY LenProperties
<1>3. PICK k \in wrong : \A j \in wrong : k <= j
  <2>1. wrong \in SUBSET Nat
    BY <1>2
  <2> HIDE DEF wrong
  <2> QED
    BY <1>1, <2>1, LeastNumber
<1>4. k # 0
  <2>1. Upto(s)[0] \in Seq(Cell)
    BY UptoEquations, EmptySeq, Zenon
  <2> QED
    BY <1>3, <2>1
<1>5. k \in 1 .. Len(s) /\ k - 1 \in 0 .. Len(s) /\ k - 1 \notin wrong
    BY <1>2, <1>3, <1>4
<1>6. Upto(s)[k - 1] \in Seq(Cell)
    BY <1>5
<1>7. s[k] \in Frames
    BY <1>5, ElementOfSeq
<1>8. Cells(s[k]) \in Seq(Cell)
    BY <1>7, CellsOfFrame
<1>9. Upto(s)[k] \in Seq(Cell)
    BY ZenonT(40), <1>5, <1>6, <1>8, UptoEquations, ConcatProperties
<1> QED
    BY <1>3, <1>9

\* One frame more.
LEMMA NextFrame ==
    ASSUME NEW s \in Seq(Frames), NEW k \in 1 .. Len(s)
    PROVE  /\ Len(Upto(s)[k - 1]) \in Nat /\ Len(Upto(s)[k]) \in Nat
           /\ Len(Upto(s)[k]) = Len(Upto(s)[k - 1]) + Len(Cells(s[k]))
           /\ \A i \in 1 .. Len(Upto(s)[k - 1]) :
                 Upto(s)[k][i] = Upto(s)[k - 1][i]
           /\ \A i \in 1 .. Len(Cells(s[k])) :
                 Upto(s)[k][Len(Upto(s)[k - 1]) + i] = Cells(s[k])[i]
<1> DEFINE a == Upto(s)[k - 1]
           b == Cells(s[k])
<1>1. Len(s) \in Nat /\ k - 1 \in 0 .. Len(s) /\ k \in 0 .. Len(s)
    BY LenProperties
<1>2. a \in Seq(Cell) /\ Upto(s)[k] \in Seq(Cell)
    BY <1>1, UptoCells
<1>3. b \in Seq(Cell)
    BY ElementOfSeq, CellsOfFrame
<1>4. Upto(s)[k] = a \o b
    BY UptoEquations
<1>5. Len(a) \in Nat /\ Len(b) \in Nat /\ Len(Upto(s)[k]) \in Nat
    BY <1>2, <1>3, LenProperties
<1> HIDE DEF a, b
<1>6. /\ Len(a \o b) = Len(a) + Len(b)
      /\ \A i \in 1 .. Len(a) + Len(b) :
            (a \o b)[i] = IF i <= Len(a) THEN a[i] ELSE b[i - Len(a)]
    BY <1>2, <1>3, ConcatProperties
<1>7. \A i \in 1 .. Len(a) : (a \o b)[i] = a[i]
    BY <1>5, <1>6
<1>8. \A i \in 1 .. Len(b) : (a \o b)[Len(a) + i] = b[i]
    BY <1>5, <1>6
<1> QED
    BY <1>4, <1>5, <1>6, <1>7, <1>8 DEF a, b

\* What has come before a frame is a beginning of the wire.
LEMMA Beginnings ==
    ASSUME NEW s \in Seq(Frames), NEW n \in 0 .. Len(s)
    PROVE  \A k \in 0 .. n :
                /\ Len(Upto(s)[k]) <= Len(Upto(s)[n])
                /\ \A i \in 1 .. Len(Upto(s)[k]) : Upto(s)[n][i] = Upto(s)[k][i]
<1> DEFINE Begins(k, m) ==
                /\ Len(Upto(s)[k]) <= Len(Upto(s)[m])
                /\ \A i \in 1 .. Len(Upto(s)[k]) : Upto(s)[m][i] = Upto(s)[k][i]
           wrong == {m \in 0 .. Len(s) : \E k \in 0 .. m : ~Begins(k, m)}
<1>1. Len(s) \in Nat
    BY LenProperties
<1>2. \A k \in 0 .. Len(s) : Len(Upto(s)[k]) \in Nat
    BY UptoCells, LenProperties
<1>3. SUFFICES ASSUME wrong # {} PROVE FALSE
    BY <1>1
<1>4. PICK m \in wrong : \A j \in wrong : m <= j
  <2>1. wrong \in SUBSET Nat
    BY <1>1
  <2> HIDE DEF wrong
  <2> QED
    BY <1>3, <2>1, LeastNumber
<1>5. PICK k \in 0 .. m : ~Begins(k, m)
    BY <1>4
<1>6. k # m
    BY <1>2, <1>4, <1>5
<1>7. m \in 1 .. Len(s) /\ m - 1 \in 0 .. Len(s) /\ m - 1 \notin wrong
      /\ k \in 0 .. m - 1 /\ k \in 0 .. Len(s) /\ m \in 0 .. Len(s)
  <2>1. m \in 0 .. Len(s)
    BY <1>4
  <2> HIDE DEF wrong
  <2>2. m - 1 \in wrong => m <= m - 1
    BY <1>4
  <2> QED
    BY <1>1, <1>5, <1>6, <2>1, <2>2
<1>8. Begins(k, m - 1)
    BY <1>7
<1>9. Begins(m - 1, m)
  <2>1. Len(Cells(s[m])) \in Nat
    BY <1>7, ElementOfSeq, CellsOfFrame, LenProperties
  <2>2. /\ Len(Upto(s)[m]) = Len(Upto(s)[m - 1]) + Len(Cells(s[m]))
        /\ \A i \in 1 .. Len(Upto(s)[m - 1]) : Upto(s)[m][i] = Upto(s)[m - 1][i]
    BY <1>7, NextFrame, Zenon
  <2>3. Len(Upto(s)[m - 1]) \in Nat
    BY <1>2, <1>7
  <2>4. Len(Upto(s)[m - 1]) <= Len(Upto(s)[m])
    <3> DEFINE a == Len(Upto(s)[m - 1])
               b == Len(Cells(s[m]))
               c == Len(Upto(s)[m])
    <3>1. a \in Nat /\ b \in Nat /\ c = a + b
        BY <2>1, <2>2, <2>3, Zenon
    <3> HIDE DEF a, b, c
    <3>2. a <= c
        BY <3>1
    <3> QED
        BY <3>2 DEF a, c
  <2> QED
    BY <2>2, <2>4, Zenon
<1>10. Begins(k, m)
  <2>1. Len(Upto(s)[k]) \in Nat /\ Len(Upto(s)[m - 1]) \in Nat
        /\ Len(Upto(s)[m]) \in Nat
    BY <1>2, <1>7
  <2> QED
    BY SMTT(30), <1>8, <1>9, <2>1
<1> QED
    BY <1>5, <1>10

\* Where a frame is on the wire.
LEMMA FrameOnWire ==
    ASSUME NEW s \in Seq(Frames), NEW k \in 1 .. Len(s)
    PROVE  LET start == Len(Upto(s)[k - 1]) IN
           /\ start \in Nat
           /\ Len(Upto(s)[k]) = start + Len(Cells(s[k]))
           /\ start + Len(Cells(s[k])) <= Len(Wire(s))
           /\ \A i \in 1 .. Len(Cells(s[k])) :
                 Wire(s)[start + i] = Cells(s[k])[i]
<1> DEFINE start == Len(Upto(s)[k - 1])
<1>1. Len(s) \in Nat /\ k \in 0 .. Len(s) /\ Len(s) \in 0 .. Len(s)
    BY LenProperties
<1>2. Len(Cells(s[k])) \in Nat
    BY ElementOfSeq, CellsOfFrame, LenProperties
<1>3. /\ Len(Upto(s)[k]) <= Len(Wire(s))
      /\ \A i \in 1 .. Len(Upto(s)[k]) : Wire(s)[i] = Upto(s)[k][i]
    BY <1>1, Beginnings DEF Wire
<1>4. /\ start \in Nat
      /\ Len(Upto(s)[k]) = start + Len(Cells(s[k]))
      /\ \A i \in 1 .. Len(Cells(s[k])) :
            Upto(s)[k][start + i] = Cells(s[k])[i]
    BY NextFrame
<1> HIDE DEF start
<1>5. \A i \in 1 .. Len(Cells(s[k])) : Wire(s)[start + i] = Cells(s[k])[i]
  <2> TAKE i \in 1 .. Len(Cells(s[k]))
  <2>1. start + i \in 1 .. Len(Upto(s)[k])
    BY <1>2, <1>4
  <2> QED
    BY <1>3, <1>4, <2>1
<1> QED
    BY <1>3, <1>4, <1>5 DEF start
-----------------------------------------------------------------------------
(* The inductive invariant *)

\* Cells up to the frame that is to be decoded next.
Decoded == EndOf(Len(out))

InputOK ==
    /\ stream \in Streams
    /\ sent \in Nat /\ sent <= Len(Wire(stream))
    /\ md_done \in BOOLEAN

\* The messages pushed are those of the first frames, which are good and have
\* arrived.
OutOK ==
    /\ out \in Seq(Messages) /\ Len(out) <= Len(stream)
    /\ Decoded <= sent
    /\ \A k \in 1 .. Len(out) :
          /\ out[k] = Message(stream[k])
          /\ Rejected(stream[k]) = "none" /\ EndOf(k) <= sent

\* While all is well the buffer begins where a frame does.
BufferOK ==
    /\ md_buffer \in Seq(Cell) /\ md_havebytes = Len(md_buffer)
    /\ md_error = "none" =>
          /\ md_version = NoVersion
          /\ md_havebytes = sent - Decoded
          /\ \A i \in 1 .. md_havebytes :
                md_buffer[i] = Wire(stream)[Decoded + i]

\* Wrong, for the frame after the first n.
WrongAt(n) ==
    IF n = Len(stream) THEN "none"
    ELSE LET frame == stream[n + 1]
             header == HeaderError(frame.version, frame.type, frame.status,
                                   frame.msgid)
             arrived == sent - EndOf(n)
         IN  IF arrived >= FP_HEADER_SZ /\ header # "none" THEN header
             ELSE IF arrived >= Len(Cells(frame)) THEN Rejected(frame)
             ELSE IF md_done /\ arrived > 0 THEN "incomplete_message"
             ELSE "none"

\* Outside the loop there is no good frame left, and the error is known.
Settled ==
    /\ Len(out) < Len(stream) =>
          \/ Rejected(stream[Len(out) + 1]) # "none"
          \/ EndOf(Len(out) + 1) > sent
    /\ md_error = WrongAt(Len(out))

\* After an error nothing is decoded.
StateOK ==
    /\ decoding \in {"idle", "loop", "callback"}
    /\ outcome \in {"none", "error", "end"}
    /\ md_error \in Errors
    /\ decoding = "loop" => md_error = "none"
    /\ decoding = "idle" /\ md_error # "none" => outcome = "error"
    /\ decoding # "loop" => Settled

IInv == InputOK /\ OutOK /\ BufferOK /\ StateOK /\ crashed = FALSE
-----------------------------------------------------------------------------
(* What the buffer holds *)

\* The stream and where its frames end.
LEMMA StreamFacts ==
    ASSUME InputOK
    PROVE  /\ stream \in Seq(Frames) /\ Len(stream) \in Nat
           /\ Len(Wire(stream)) \in Nat /\ Wire(stream) \in Seq(Cell)
           /\ EndOf(0) = 0 /\ EndOf(Len(stream)) = Len(Wire(stream))
           /\ \A n \in 0 .. Len(stream) : EndOf(n) \in Nat
<1>1. stream \in Seq(Frames)
    BY DecoderAssumption DEF InputOK
<1>2. Len(stream) \in Nat
    BY <1>1, LenProperties
<1>3. \A n \in 0 .. Len(stream) : Upto(stream)[n] \in Seq(Cell)
    BY <1>1, UptoCells
<1>4. \A n \in 0 .. Len(stream) : EndOf(n) \in Nat
    BY <1>3, LenProperties, Zenon DEF EndOf
<1>5. EndOf(0) = 0
  <2>1. Upto(stream)[0] = <<>>
    BY <1>1, UptoEquations
  <2> QED
    BY <2>1, EmptySeq DEF EndOf
<1>6. EndOf(Len(stream)) = Len(Wire(stream))
    BY DEF EndOf, Wire
<1>7. Len(stream) \in 0 .. Len(stream)
    BY <1>2
<1>8. Wire(stream) \in Seq(Cell)
    BY <1>3, <1>7 DEF Wire
<1> QED
    BY <1>1, <1>2, <1>4, <1>5, <1>6, <1>7, <1>8

\* The frame after the first n, on the wire.
LEMMA FrameAfter ==
    ASSUME InputOK, NEW n \in Nat, n < Len(stream)
    PROVE  /\ stream[n + 1] \in Frames
           /\ Len(Cells(stream[n + 1])) \in Nat
           /\ Len(Cells(stream[n + 1])) >= FP_HEADER_SZ
           /\ EndOf(n + 1) = EndOf(n) + Len(Cells(stream[n + 1]))
           /\ EndOf(n + 1) <= Len(Wire(stream))
           /\ \A i \in 1 .. Len(Cells(stream[n + 1])) :
                 Wire(stream)[EndOf(n) + i] = Cells(stream[n + 1])[i]
<1>1. n + 1 \in 1 .. Len(stream) /\ (n + 1) - 1 = n
    BY StreamFacts
<1>2. stream[n + 1] \in Frames
    BY <1>1, StreamFacts, ElementOfSeq
<1>3. Len(Cells(stream[n + 1])) \in Nat
      /\ Len(Cells(stream[n + 1])) >= FP_HEADER_SZ
    BY <1>2, CellsOfFrame DEF FP_HEADER_SZ
<1>4. /\ Len(Upto(stream)[n + 1])
            = Len(Upto(stream)[n]) + Len(Cells(stream[n + 1]))
      /\ Len(Upto(stream)[n]) + Len(Cells(stream[n + 1])) <= Len(Wire(stream))
      /\ \A i \in 1 .. Len(Cells(stream[n + 1])) :
            Wire(stream)[Len(Upto(stream)[n]) + i] = Cells(stream[n + 1])[i]
  <2>1. stream \in Seq(Frames)
    BY StreamFacts
  <2>2. PICK k \in 1 .. Len(stream) : k = n + 1
    BY <1>1
  <2>3. k - 1 = n
    BY <1>1, <2>2
  <2>4. /\ Len(Upto(stream)[k])
                = Len(Upto(stream)[k - 1]) + Len(Cells(stream[k]))
        /\ Len(Upto(stream)[k - 1]) + Len(Cells(stream[k])) <= Len(Wire(stream))
        /\ \A i \in 1 .. Len(Cells(stream[k])) :
              Wire(stream)[Len(Upto(stream)[k - 1]) + i] = Cells(stream[k])[i]
    BY <2>1, FrameOnWire, Zenon
  <2> QED
    BY <2>2, <2>3, <2>4, Zenon
<1>5. EndOf(n + 1) = EndOf(n) + Len(Cells(stream[n + 1]))
    BY <1>4 DEF EndOf
<1> QED
    BY <1>2, <1>3, <1>4, <1>5 DEF EndOf

\* The types of what was decoded.
LEMMA OutFacts ==
    ASSUME InputOK, OutOK
    PROVE  Len(out) \in Nat /\ Len(out) \in 0 .. Len(stream) /\ Decoded \in Nat
<1>1. Len(out) \in Nat
    BY LenProperties DEF OutOK
<1>2. Len(out) \in 0 .. Len(stream)
    BY <1>1, StreamFacts DEF OutOK
<1> QED
    BY <1>1, <1>2, StreamFacts DEF Decoded

\* Where anything is in the buffer, it is of the frame after the last that was
\* decoded.
LEMMA BufferFacts ==
    ASSUME InputOK, OutOK, BufferOK, md_error = "none"
    PROVE  LET frame == stream[Len(out) + 1] IN
           /\ md_havebytes \in Nat
           /\ Len(out) = Len(stream) => md_havebytes = 0
           /\ Len(out) < Len(stream) =>
                /\ frame \in Frames
                /\ \A i \in 1 .. md_havebytes :
                      i <= Len(Cells(frame)) => md_buffer[i] = Cells(frame)[i]
<1> DEFINE n == Len(out)
           frame == stream[n + 1]
<1>1. n \in Nat /\ n <= Len(stream) /\ Decoded \in Nat /\ Decoded = EndOf(n)
    BY OutFacts, StreamFacts DEF Decoded
<1>2. md_havebytes \in Nat /\ md_havebytes = sent - Decoded
    BY LenProperties DEF BufferOK
<1>3. n = Len(stream) => md_havebytes = 0
    BY <1>1, <1>2, StreamFacts DEF InputOK
<1>4. ASSUME n < Len(stream)
      PROVE  /\ frame \in Frames
             /\ \A i \in 1 .. md_havebytes :
                  i <= Len(Cells(frame)) => md_buffer[i] = Cells(frame)[i]
  <2>1. frame \in Frames /\ Len(Cells(frame)) \in Nat
        /\ \A i \in 1 .. Len(Cells(frame)) :
              Wire(stream)[EndOf(n) + i] = Cells(frame)[i]
    BY <1>1, <1>4, FrameAfter
  <2>2. \A i \in 1 .. md_havebytes : md_buffer[i] = Wire(stream)[EndOf(n) + i]
    BY <1>1 DEF BufferOK
  <2> HIDE DEF frame, n
  <2>3. ASSUME NEW i \in 1 .. md_havebytes, i <= Len(Cells(frame))
        PROVE  md_buffer[i] = Cells(frame)[i]
    <3>1. i \in 1 .. Len(Cells(frame))
        BY <1>2, <2>1, <2>3
    <3> QED
        BY <2>1, <2>2, <3>1, Zenon
  <2> QED
    BY <2>1, <2>3
<1> QED
    BY <1>2, <1>3, <1>4

\* The header that decode() reads is the frame's.
LEMMA HeaderFacts ==
    ASSUME InputOK, OutOK, BufferOK, md_error = "none",
           md_havebytes >= FP_HEADER_SZ
    PROVE  LET frame == stream[Len(out) + 1] IN
           /\ Len(out) < Len(stream) /\ frame \in Frames
           /\ HeaderErrorHere = HeaderError(frame.version, frame.type,
                                            frame.status, frame.msgid)
           /\ MessageSize = Len(Cells(frame))
           /\ MessageSize = FP_HEADER_SZ + Len(frame.data)
           /\ Len(frame.data) \in Nat
           /\ Field(FP_OFF_VERSION) = frame.version
           /\ Field(FP_OFF_STATUS) = frame.status
           /\ Field(FP_OFF_MSGID) = frame.msgid
           /\ Field(FP_OFF_CRC) = frame.crc
<1> DEFINE frame == stream[Len(out) + 1]
<1>1. md_havebytes \in Nat /\ Len(out) \in Nat /\ Len(out) <= Len(stream)
      /\ Len(stream) \in Nat
    BY BufferFacts, OutFacts, StreamFacts
<1>2. Len(out) < Len(stream)
    BY <1>1, BufferFacts DEF FP_HEADER_SZ
<1>3. /\ frame \in Frames
      /\ \A i \in 1 .. md_havebytes :
            i <= Len(Cells(frame)) => md_buffer[i] = Cells(frame)[i]
    BY <1>2, BufferFacts
<1> HIDE DEF frame
<1>4. Len(Cells(frame)) = FP_HEADER_SZ + Len(frame.data)
      /\ Len(frame.data) \in Nat
    BY <1>3, CellsOfFrame
<1>5. \A i \in 1 .. 6 : md_buffer[i] = Cells(frame)[i]
    BY <1>1, <1>3, <1>4 DEF FP_HEADER_SZ
<1>6. /\ md_buffer[1] = Cells(frame)[1] /\ md_buffer[2] = Cells(frame)[2]
      /\ md_buffer[3] = Cells(frame)[3] /\ md_buffer[4] = Cells(frame)[4]
      /\ md_buffer[5] = Cells(frame)[5] /\ md_buffer[6] = Cells(frame)[6]
    BY <1>5
<1>7. /\ Field(FP_OFF_VERSION) = frame.version
      /\ Field(FP_OFF_TYPE) = frame.type
      /\ Field(FP_OFF_STATUS) = frame.status
      /\ Field(FP_OFF_MSGID) = frame.msgid
      /\ Field(FP_OFF_CRC) = frame.crc
      /\ Field(FP_OFF_DATALEN) = Len(frame.data)
    BY <1>3, <1>6, CellsOfFrame, Zenon
    DEF Field, FP_OFF_VERSION, FP_OFF_TYPE, FP_OFF_STATUS, FP_OFF_MSGID,
        FP_OFF_CRC, FP_OFF_DATALEN
<1>8. HeaderErrorHere = HeaderError(frame.version, frame.type, frame.status,
                                    frame.msgid)
    BY <1>7, Zenon DEF HeaderErrorHere
<1>9. MessageSize = FP_HEADER_SZ + Len(frame.data)
    BY <1>7, Zenon DEF MessageSize
<1> QED
    BY <1>2, <1>3, <1>4, <1>7, <1>8, <1>9, Zenon DEF frame

\* And so is the data.
LEMMA DataFacts ==
    ASSUME InputOK, OutOK, BufferOK, md_error = "none",
           md_havebytes >= FP_HEADER_SZ, md_havebytes >= MessageSize
    PROVE  SubSeq(md_buffer, FP_HEADER_SZ + 1, MessageSize)
                = stream[Len(out) + 1].data
<1> DEFINE frame == stream[Len(out) + 1]
           data == SubSeq(md_buffer, FP_HEADER_SZ + 1, MessageSize)
<1>1. /\ Len(out) < Len(stream) /\ frame \in Frames
      /\ MessageSize = 6 + Len(frame.data) /\ Len(frame.data) \in Nat
      /\ MessageSize = Len(Cells(frame))
    BY HeaderFacts DEF FP_HEADER_SZ
<1>2. md_havebytes \in Nat
      /\ \A i \in 1 .. md_havebytes :
            i <= Len(Cells(frame)) => md_buffer[i] = Cells(frame)[i]
    BY <1>1, BufferFacts
<1> HIDE DEF frame
<1>3. md_buffer \in Seq(Cell) /\ md_havebytes = Len(md_buffer)
    BY DEF BufferOK
<1>4. \A i \in 7 .. MessageSize : md_buffer[i] \in Cell
    BY <1>1, <1>2, <1>3, ElementOfSeq
<1>5. MessageSize \in Int
    BY <1>1
<1>6. /\ data \in Seq(Cell)
      /\ Len(data) = IF 7 <= MessageSize THEN MessageSize - 7 + 1 ELSE 0
      /\ \A i \in 1 .. MessageSize - 7 + 1 : data[i] = md_buffer[7 + i - 1]
    BY <1>4, <1>5, SubSeqProperties DEF FP_HEADER_SZ
<1> HIDE DEF data
<1>7. frame.data \in Seq(Characters) /\ frame.data \in Seq(Cell)
  <2>1. frame.data \in Seq(Characters)
    BY <1>1 DEF Frames
  <2>2. Characters \subseteq Cell
    BY DEF Cell
  <2> QED
    BY <2>1, <2>2, SeqMonotonic
<1>8. Len(data) = Len(frame.data)
    BY <1>1, <1>6
<1>9. ASSUME NEW i \in 1 .. Len(data) PROVE data[i] = frame.data[i]
  <2>1. data[i] = md_buffer[6 + i]
    BY <1>1, <1>6, <1>8, <1>9
  <2>2. 6 + i \in 1 .. md_havebytes /\ 6 + i <= Len(Cells(frame))
    BY <1>1, <1>2, <1>8, <1>9
  <2>3. Cells(frame)[6 + i] = frame.data[i]
    BY <1>1, <1>8, <1>9, CellsOfFrame DEF FP_HEADER_SZ
  <2> QED
    BY <1>2, <2>1, <2>2, <2>3
<1>10. data = frame.data
    BY <1>6, <1>7, <1>8, <1>9, SeqEqual
<1> QED
    BY <1>10 DEF data, frame
-----------------------------------------------------------------------------
(* Preservation *)

\* Neither what was sent nor what was pushed changes.
LEMMA SameInput ==
    ASSUME InputOK, OutOK, UNCHANGED <<stream, sent, out>>, md_done' \in BOOLEAN
    PROVE  InputOK' /\ OutOK' /\ Decoded' = Decoded
<1>1. Decoded' = Decoded
    BY DEF Decoded, EndOf
<1>2. InputOK'
    BY DEF InputOK
<1>3. OutOK'
    BY <1>1 DEF OutOK, EndOf
<1> QED
    BY <1>1, <1>2, <1>3

\* What is wrong depends on the bytes and on whether they are all.
LEMMA SameWrong ==
    ASSUME UNCHANGED <<stream, sent, out, md_done>>
    PROVE  /\ WrongAt(Len(out))' = WrongAt(Len(out))
           /\ EndOf(Len(out) + 1)' = EndOf(Len(out) + 1)
BY DEF WrongAt, EndOf

LEMMA InitHolds == Init => IInv
<1> SUFFICES ASSUME Init PROVE IInv
    OBVIOUS
<1>1. InputOK
  <2>1. stream \in Seq(Frames)
    BY DecoderAssumption DEF Init
  <2>2. Len(stream) \in 0 .. Len(stream)
    BY <2>1, LenProperties
  <2>3. Wire(stream) \in Seq(Cell)
    BY <2>1, <2>2, UptoCells DEF Wire
  <2>4. Len(Wire(stream)) \in Nat
    BY <2>3, LenProperties
  <2>5. 0 <= Len(Wire(stream))
    BY <2>4
  <2> QED
    BY <2>5, Zenon DEF Init, InputOK
<1>2. Len(out) = 0 /\ out \in Seq(Messages) /\ Len(stream) \in Nat
      /\ Decoded = 0
    BY <1>1, EmptySeq, StreamFacts DEF Init, Decoded
<1>3. OutOK
    BY <1>2 DEF Init, OutOK
<1>4. BufferOK
    BY <1>2, EmptySeq DEF Init, BufferOK
<1>5. Settled
  <2>1. ASSUME 0 < Len(stream)
        PROVE  /\ EndOf(0 + 1) \in Nat /\ EndOf(0 + 1) > 0
               /\ Len(Cells(stream[0 + 1])) > 0
               /\ Len(Cells(stream[0 + 1])) \in Nat
    BY <1>1, <2>1, FrameAfter, StreamFacts DEF FP_HEADER_SZ
  <2>2. WrongAt(0) = "none"
    BY <1>1, <2>1, StreamFacts DEF WrongAt, Init, FP_HEADER_SZ
  <2> QED
    BY <1>2, <2>1, <2>2 DEF Settled, Init
<1> QED
    BY <1>1, <1>3, <1>4, <1>5 DEF Init, IInv, StateOK, Errors

\* A chunk is put after what is in the buffer.
LEMMA TransformKeeps ==
    ASSUME IInv, NEW n \in 1 .. MaxChunk, Transform(n)
    PROVE  IInv'
<1>1. InputOK /\ OutOK /\ BufferOK /\ StateOK /\ crashed = FALSE
    BY DEF IInv
<1>2. md_error = "none" /\ decoding = "idle" /\ outcome = "none"
    BY <1>1 DEF Transform, StateOK
<1>3. n \in Nat /\ sent \in Nat /\ sent + n <= Len(Wire(stream))
      /\ sent' = sent + n /\ UNCHANGED <<stream, md_done, out>>
    BY <1>1, DecoderAssumption DEF Transform, DecodeStarts, InputOK
<1>4. InputOK'
    BY <1>1, <1>3 DEF InputOK
<1>5. Decoded' = Decoded /\ Decoded \in Nat /\ Len(out) \in Nat
    BY <1>1, <1>3, OutFacts DEF Decoded, EndOf
<1>6. \A k \in 1 .. Len(out) : EndOf(k) \in Nat /\ EndOf(k)' = EndOf(k)
    BY <1>1, <1>3, StreamFacts, OutFacts DEF EndOf
<1>7. OutOK'
    BY <1>1, <1>3, <1>5, <1>6 DEF OutOK
<1> DEFINE chunk == SubSeq(Wire(stream), sent + 1, sent + n)
<1>8. /\ chunk \in Seq(Cell) /\ Len(chunk) = n
      /\ \A i \in 1 .. n : chunk[i] = Wire(stream)[sent + i]
  <2>1. Wire(stream) \in Seq(Cell) /\ Len(Wire(stream)) \in Nat
    BY <1>1, StreamFacts
  <2>2. \A i \in sent + 1 .. sent + n : Wire(stream)[i] \in Cell
    BY <1>3, <2>1, ElementOfSeq
  <2>3. /\ chunk \in Seq(Cell)
        /\ Len(chunk) = IF sent + 1 <= sent + n THEN sent + n - (sent + 1) + 1
                        ELSE 0
        /\ \A i \in 1 .. sent + n - (sent + 1) + 1 :
              chunk[i] = Wire(stream)[sent + 1 + i - 1]
    BY <1>3, <2>2, SubSeqProperties
  <2> HIDE DEF chunk
  <2>4. \A i \in 1 .. n : chunk[i] = Wire(stream)[sent + i]
    BY <1>3, <2>3
  <2> QED
    BY <1>3, <2>3, <2>4
<1> HIDE DEF chunk
<1>9. /\ md_buffer \in Seq(Cell) /\ md_havebytes = Len(md_buffer)
      /\ md_havebytes \in Nat /\ md_havebytes = sent - Decoded
      /\ md_version = NoVersion
      /\ \A i \in 1 .. md_havebytes : md_buffer[i] = Wire(stream)[Decoded + i]
    BY <1>1, <1>2, BufferFacts DEF BufferOK
<1>10. /\ md_buffer' = md_buffer \o chunk /\ md_havebytes' = md_havebytes + n
       /\ UNCHANGED <<md_error, md_version, out, outcome>>
       /\ decoding' = "loop" /\ crashed' = FALSE
    BY <1>1, <1>2 DEF Transform, DecodeStarts, chunk
<1>11. /\ md_buffer \o chunk \in Seq(Cell)
       /\ Len(md_buffer \o chunk) = md_havebytes + n
       /\ \A i \in 1 .. md_havebytes + n :
            (md_buffer \o chunk)[i] = IF i <= md_havebytes THEN md_buffer[i]
                                      ELSE chunk[i - md_havebytes]
  <2>1. /\ md_buffer \o chunk \in Seq(Cell)
        /\ Len(md_buffer \o chunk) = Len(md_buffer) + Len(chunk)
        /\ \A i \in 1 .. Len(md_buffer) + Len(chunk) :
              (md_buffer \o chunk)[i] = IF i <= Len(md_buffer) THEN md_buffer[i]
                                        ELSE chunk[i - Len(md_buffer)]
    BY <1>8, <1>9, ConcatProperties, Zenon
  <2> QED
    BY <1>8, <1>9, <2>1, Zenon
<1>12. ASSUME NEW i \in 1 .. md_havebytes'
       PROVE  md_buffer'[i] = Wire(stream)[Decoded + i]
  <2>1. CASE i <= md_havebytes
    BY <1>3, <1>9, <1>10, <1>11, <1>12, <2>1
  <2>2. CASE i > md_havebytes
    <3>1. i - md_havebytes \in 1 .. n /\ sent + (i - md_havebytes) = Decoded + i
        BY <1>3, <1>5, <1>9, <1>10, <1>12, <2>2
    <3>2. md_buffer'[i] = chunk[i - md_havebytes]
        BY <1>3, <1>9, <1>10, <1>11, <1>12, <2>2
    <3>3. chunk[i - md_havebytes] = Wire(stream)[sent + (i - md_havebytes)]
        BY <1>8, <3>1
    <3> QED
        BY <3>1, <3>2, <3>3
  <2>3. i <= md_havebytes \/ i > md_havebytes
    BY <1>3, <1>9, <1>10
  <2> QED
    BY <2>1, <2>2, <2>3, Zenon
<1>13. Wire(stream)' = Wire(stream)
    BY <1>3
<1>14. md_havebytes' = sent' - Decoded
    BY <1>3, <1>5, <1>9, <1>10
<1>15. BufferOK'
    BY <1>5, <1>9, <1>10, <1>11, <1>12, <1>13, <1>14 DEF BufferOK
<1>16. StateOK'
    BY <1>1, <1>2, <1>10 DEF StateOK
<1> QED
    BY <1>4, <1>7, <1>10, <1>15, <1>16 DEF IInv

\* The transport's end changes only what follows from it.
LEMMA FlushKeeps ==
    ASSUME IInv, Flush
    PROVE  IInv'
<1>1. InputOK /\ OutOK /\ BufferOK /\ StateOK /\ crashed = FALSE
    BY DEF IInv
<1>2. md_error = "none" /\ decoding = "idle" /\ outcome = "none"
    BY <1>1 DEF Flush, StateOK
<1>3. /\ UNCHANGED <<stream, sent, md_buffer, md_havebytes, md_error,
                     md_version, out, outcome>>
      /\ md_done' = TRUE /\ decoding' = "loop" /\ crashed' = FALSE
    BY <1>1, <1>2 DEF Flush, DecodeStarts, input
<1>4. InputOK' /\ OutOK' /\ Decoded' = Decoded
    BY <1>1, <1>3, SameInput
<1>5. BufferOK'
    BY <1>1, <1>3, <1>4 DEF BufferOK
<1>6. StateOK'
    BY <1>1, <1>2, <1>3 DEF StateOK
<1> QED
    BY <1>3, <1>4, <1>5, <1>6 DEF IInv

\* What is so in the loop.
LEMMA LoopFacts ==
    ASSUME IInv, InLoop
    PROVE  /\ InputOK /\ OutOK /\ BufferOK /\ StateOK /\ crashed = FALSE
           /\ md_error = "none" /\ md_version = NoVersion
           /\ md_havebytes \in Nat /\ md_havebytes = sent - EndOf(Len(out))
           /\ md_done \in BOOLEAN
           /\ Len(out) \in Nat /\ Len(stream) \in Nat /\ sent \in Nat
           /\ Len(out) <= Len(stream) /\ EndOf(Len(out)) \in Nat
           /\ LoopAsserts
<1>1. InputOK /\ OutOK /\ BufferOK /\ StateOK /\ crashed = FALSE
    BY DEF IInv
<1>2. md_error = "none"
    BY <1>1 DEF StateOK, InLoop
<1> QED
    BY <1>1, <1>2, BufferFacts, OutFacts, StreamFacts
    DEF BufferOK, InputOK, LoopAsserts, Decoded

\* The loop is left with the error that there is.
LEMMA BreakKeeps ==
    ASSUME IInv, InLoop, NEW error \in Errors, Break(error),
           UNCHANGED <<md_buffer, md_havebytes, crashed>>,
           md_error' = "none" => md_version' = NoVersion,
           AfterLoop(error) = WrongAt(Len(out)), AfterLoop(error) \in Errors,
           Len(out) < Len(stream) =>
                \/ Rejected(stream[Len(out) + 1]) # "none"
                \/ EndOf(Len(out) + 1) > sent
    PROVE  IInv'
<1>1. /\ md_error' = AfterLoop(error) /\ decoding' = "callback"
      /\ UNCHANGED <<stream, sent, md_done, out, outcome>>
    BY DEF Break, input
<1>2. InputOK /\ OutOK /\ BufferOK /\ StateOK /\ crashed = FALSE /\ md_error = "none"
      /\ md_done \in BOOLEAN
    BY LoopFacts
<1>3. InputOK' /\ OutOK' /\ Decoded' = Decoded
    BY <1>1, <1>2, SameInput
<1>4. BufferOK'
    BY <1>1, <1>2, <1>3 DEF BufferOK
<1>5. Settled'
    BY <1>1, SameWrong DEF Settled
<1>6. StateOK'
    BY <1>1, <1>2, <1>5 DEF StateOK
<1> QED
    BY <1>2, <1>3, <1>4, <1>6 DEF IInv

\* Nothing, or a part of a header, is in the buffer.
LEMMA NeedHeaderKeeps ==
    ASSUME IInv, NeedHeader
    PROVE  IInv'
<1> DEFINE n == Len(out)
<1>1. /\ InLoop /\ md_havebytes < FP_HEADER_SZ /\ Break("none")
      /\ UNCHANGED <<md_buffer, md_havebytes, md_version, crashed>>
    BY DEF NeedHeader
<1>2. /\ InputOK /\ OutOK /\ BufferOK /\ md_version = NoVersion
      /\ md_havebytes \in Nat /\ md_havebytes = sent - EndOf(n)
      /\ n \in Nat /\ Len(stream) \in Nat /\ n <= Len(stream)
      /\ sent \in Nat /\ EndOf(n) \in Nat /\ md_error = "none"
      /\ md_done \in BOOLEAN
    BY <1>1, LoopFacts
<1>3. n = Len(stream) => md_havebytes = 0
    BY <1>2, BufferFacts
<1>4. n < Len(stream) =>
        /\ Len(Cells(stream[n + 1])) \in Nat
        /\ Len(Cells(stream[n + 1])) >= FP_HEADER_SZ
        /\ EndOf(n + 1) = EndOf(n) + Len(Cells(stream[n + 1]))
    BY <1>2, FrameAfter
<1> HIDE DEF n
<1>5. n < Len(stream) => EndOf(n + 1) > sent
    BY <1>1, <1>2, <1>4 DEF FP_HEADER_SZ
<1>6. AfterLoop("none") = WrongAt(n)
  <2>1. CASE n = Len(stream)
    BY <1>3, <2>1 DEF AfterLoop, WrongAt
  <2>2. CASE n < Len(stream)
    <3>1. /\ ~(md_havebytes >= FP_HEADER_SZ)
          /\ ~(md_havebytes >= Len(Cells(stream[n + 1])))
        BY <1>1, <1>2, <1>4, <2>2 DEF FP_HEADER_SZ
    <3>2. n # Len(stream)
        BY <1>2, <2>2
    <3> QED
        BY <1>2, <3>1, <3>2, Zenon DEF AfterLoop, WrongAt
  <2> QED
    BY <1>2, <2>1, <2>2
<1>7. AfterLoop("none") \in Errors
    BY DEF AfterLoop, Errors
<1> QED
    BY <1>1, <1>2, <1>5, <1>6, <1>7, BreakKeeps DEF n, Errors

\* A bad header is the next frame's.
LEMMA RejectHeaderKeeps ==
    ASSUME IInv, InLoop, md_havebytes >= FP_HEADER_SZ, RejectHeader
    PROVE  IInv'
<1> DEFINE n == Len(out)
           frame == stream[n + 1]
           error == HeaderErrorHere
<1>1. /\ error # "none" /\ Break(error)
      /\ UNCHANGED <<md_buffer, md_havebytes, crashed>>
    BY DEF RejectHeader
<1>2. /\ InputOK /\ OutOK /\ BufferOK
      /\ md_havebytes = sent - EndOf(n) /\ md_error = "none"
    BY LoopFacts
<1>3. /\ n < Len(stream)
      /\ error = HeaderError(frame.version, frame.type, frame.status,
                             frame.msgid)
    BY <1>2, HeaderFacts
<1>4. error \in Errors
    BY <1>3 DEF HeaderError, Errors
<1>5. n # Len(stream)
    BY <1>2, <1>3, OutFacts, StreamFacts
<1> HIDE DEF n, frame, error
<1>6. AfterLoop(error) = error
    BY <1>1, Zenon DEF AfterLoop
<1>7. WrongAt(n) = error
    BY <1>1, <1>2, <1>3, <1>5, Zenon DEF WrongAt, frame
<1>8. Rejected(frame) # "none"
    BY <1>1, <1>3, Zenon DEF Rejected
<1>9. md_error' # "none"
    BY <1>1, <1>6 DEF Break
<1> QED
    BY <1>1, <1>4, <1>6, <1>7, <1>8, <1>9, BreakKeeps, Zenon DEF n, frame

\* The next frame has not arrived in full.
LEMMA NeedDataKeeps ==
    ASSUME IInv, InLoop, md_havebytes >= FP_HEADER_SZ, NeedData
    PROVE  IInv'
<1> DEFINE n == Len(out)
           frame == stream[n + 1]
<1>1. /\ HeaderErrorHere = "none" /\ md_havebytes < MessageSize
      /\ md_version' = NoVersion /\ Break("none")
      /\ UNCHANGED <<md_buffer, md_havebytes, crashed>>
    BY DEF NeedData, Forgotten
<1>2. /\ InputOK /\ OutOK /\ BufferOK /\ md_done \in BOOLEAN
      /\ md_havebytes \in Nat /\ md_havebytes = sent - EndOf(n)
      /\ md_error = "none" /\ n \in Nat /\ Len(stream) \in Nat
      /\ sent \in Nat /\ EndOf(n) \in Nat
    BY LoopFacts
<1>3. /\ n < Len(stream)
      /\ HeaderErrorHere = HeaderError(frame.version, frame.type, frame.status,
                                       frame.msgid)
      /\ MessageSize = Len(Cells(frame))
    BY <1>2, HeaderFacts
<1>4. /\ Len(Cells(frame)) \in Nat
      /\ EndOf(n + 1) = EndOf(n) + Len(Cells(frame))
    BY <1>2, <1>3, FrameAfter
<1>5. n # Len(stream)
    BY <1>2, <1>3
<1> HIDE DEF n, frame
<1>6. EndOf(n + 1) > sent
    BY <1>1, <1>2, <1>3, <1>4
<1>7. ~(md_havebytes >= Len(Cells(frame))) /\ md_havebytes > 0
    BY <1>1, <1>2, <1>3, <1>4 DEF FP_HEADER_SZ
<1>8. AfterLoop("none") = WrongAt(n)
    BY <1>1, <1>2, <1>3, <1>5, <1>7, Zenon DEF AfterLoop, WrongAt, frame
<1>9. AfterLoop("none") \in Errors /\ "none" \in Errors
    BY DEF AfterLoop, Errors
<1> QED
    BY <1>1, <1>6, <1>8, <1>9, BreakKeeps, Zenon DEF n

\* What fastMessageDecode() finds wrong.
LEMMA DataErrors ==
    ASSUME NEW version, NEW status, NEW crc, NEW payload
    PROVE  DataError(version, status, crc, payload) \in Errors
BY DEF DataError, Errors

\* A sequence without its first k members.
LEMMA Rest ==
    ASSUME NEW S, NEW s \in Seq(S), NEW k \in 0 .. Len(s)
    PROVE  LET rest == SubSeq(s, k + 1, Len(s)) IN
           /\ rest \in Seq(S)
           /\ Len(rest) = Len(s) - k
           /\ \A i \in 1 .. Len(s) - k : rest[i] = s[k + i]
<1> DEFINE rest == SubSeq(s, k + 1, Len(s))
<1>1. Len(s) \in Nat /\ k \in Nat /\ k <= Len(s)
    BY LenProperties
<1>2. \A i \in k + 1 .. Len(s) : s[i] \in S
    BY <1>1, ElementOfSeq
<1>3. /\ rest \in Seq(S)
      /\ Len(rest) = IF k + 1 <= Len(s) THEN Len(s) - (k + 1) + 1 ELSE 0
      /\ \A i \in 1 .. Len(s) - (k + 1) + 1 : rest[i] = s[k + 1 + i - 1]
    BY <1>1, <1>2, SubSeqProperties
<1> HIDE DEF rest
<1> QED
    BY <1>1, <1>3 DEF rest

\* A frame that is complete is consumed.
LEMMA ConsumeKeeps ==
    ASSUME IInv, InLoop, md_havebytes >= FP_HEADER_SZ, Consume
    PROVE  IInv'
<1> DEFINE n == Len(out)
           frame == stream[n + 1]
           error == Rejected(frame)
           size == Len(Cells(frame))
<1>1. /\ HeaderErrorHere = "none" /\ md_havebytes >= MessageSize
      /\ md_buffer' = SubSeq(md_buffer, MessageSize + 1, Len(md_buffer))
      /\ md_havebytes' = md_havebytes - MessageSize
      /\ UNCHANGED <<stream, sent, md_done, outcome, crashed>>
    BY DEF Consume, Consumed, input
<1>2. /\ InputOK /\ OutOK /\ BufferOK /\ StateOK /\ crashed = FALSE
      /\ md_done \in BOOLEAN /\ md_version = NoVersion
      /\ md_havebytes \in Nat /\ md_havebytes = sent - EndOf(n)
      /\ md_error = "none" /\ n \in Nat /\ Len(stream) \in Nat
      /\ sent \in Nat /\ EndOf(n) \in Nat
    BY LoopFacts
<1>3. /\ n < Len(stream) /\ frame \in Frames
      /\ HeaderErrorHere = HeaderError(frame.version, frame.type, frame.status,
                                       frame.msgid)
      /\ MessageSize = size
      /\ Field(FP_OFF_VERSION) = frame.version
      /\ Field(FP_OFF_STATUS) = frame.status
      /\ Field(FP_OFF_MSGID) = frame.msgid
      /\ Field(FP_OFF_CRC) = frame.crc
    BY <1>2, HeaderFacts
<1>4. /\ size \in Nat /\ size >= FP_HEADER_SZ
      /\ EndOf(n + 1) = EndOf(n) + size
      /\ EndOf(n + 1) <= Len(Wire(stream))
    BY <1>2, <1>3, FrameAfter
<1>5. SubSeq(md_buffer, FP_HEADER_SZ + 1, MessageSize) = frame.data
    BY <1>1, <1>2, DataFacts
<1>6. error = DataError(frame.version, frame.status, frame.crc, frame.data)
    BY <1>1, <1>3, Zenon DEF Rejected
<1>7. error \in Errors
    BY <1>6, DataErrors
<1>8. IF error = "none"
      THEN /\ out' = Append(out, Message(frame)) /\ decoding' = "loop"
           /\ UNCHANGED <<md_error, md_version>>
      ELSE /\ md_error' = error /\ decoding' = "callback" /\ UNCHANGED out
    BY <1>3, <1>5, <1>6, Zenon DEF Consume, Message, Again
<1> HIDE DEF n, frame, error, size
<1>9. md_buffer \in Seq(Cell) /\ md_havebytes = Len(md_buffer)
      /\ \A i \in 1 .. md_havebytes :
            md_buffer[i] = Wire(stream)[EndOf(n) + i]
    BY <1>2 DEF BufferOK, Decoded, n
<1>10. /\ md_buffer' \in Seq(Cell)
       /\ Len(md_buffer') = md_havebytes - size
       /\ \A i \in 1 .. md_havebytes - size : md_buffer'[i] = md_buffer[size + i]
  <2>1. size \in 0 .. Len(md_buffer)
    BY <1>1, <1>2, <1>3, <1>4, <1>9
  <2>2. md_buffer' = SubSeq(md_buffer, size + 1, Len(md_buffer))
    BY <1>1, <1>3
  <2> QED
    BY <1>9, <2>1, <2>2, Rest, Zenon
<1>11. EndOf(n + 1) <= sent /\ n + 1 <= Len(stream)
    BY <1>1, <1>2, <1>3, <1>4
<1>12. InputOK' /\ \A k : EndOf(k)' = EndOf(k)
    BY <1>1, <1>2 DEF InputOK, EndOf
<1>13. CASE error = "none"
  <2>1. /\ out' = Append(out, Message(frame)) /\ decoding' = "loop"
        /\ UNCHANGED <<md_error, md_version>>
    BY <1>8, <1>13
  <2>2. out \in Seq(Messages) /\ Message(frame) \in Messages
    BY <1>2, <1>3 DEF OutOK, Message, Messages, Frames
  <2>3. /\ out' \in Seq(Messages) /\ Len(out') = n + 1
        /\ \A k \in 1 .. n : out'[k] = out[k]
        /\ out'[n + 1] = Message(frame)
    BY <2>1, <2>2, AppendProperties DEF n
  <2>4. Decoded' = EndOf(n + 1)
    BY <1>12, <2>3 DEF Decoded
  <2>5. OutOK'
    <3>1. ASSUME NEW k \in 1 .. n + 1
          PROVE  /\ out'[k] = Message(stream[k])
                 /\ Rejected(stream[k]) = "none" /\ EndOf(k) <= sent
      <4>1. CASE k = n + 1
        BY <1>11, <1>13, <2>3, <4>1 DEF error, frame
      <4>2. CASE k # n + 1
        <5>1. k \in 1 .. n
            BY <1>2, <4>2
        <5> QED
            BY <1>2, <2>3, <5>1 DEF OutOK, n
      <4> QED
        BY <4>1, <4>2
    <3>2. \A k \in 1 .. Len(out') :
                /\ out'[k] = Message(stream'[k])
                /\ Rejected(stream'[k]) = "none" /\ EndOf(k)' <= sent'
        BY <1>1, <1>12, <2>3, <3>1
    <3> QED
        BY <1>1, <1>11, <2>3, <2>4, <3>2 DEF OutOK
  <2>6. BufferOK'
    <3>1. md_havebytes' = sent' - Decoded'
        BY <1>1, <1>2, <1>3, <1>4, <2>4
    <3>2. ASSUME NEW i \in 1 .. md_havebytes'
          PROVE  md_buffer'[i] = Wire(stream)'[Decoded' + i]
      <4>1. i \in 1 .. md_havebytes - size /\ size + i \in 1 .. md_havebytes
            /\ EndOf(n) + (size + i) = EndOf(n + 1) + i
        <5>1. size \in Nat /\ md_havebytes \in Nat /\ EndOf(n) \in Nat
              /\ md_havebytes' = md_havebytes - size /\ md_havebytes >= size
              /\ EndOf(n + 1) = EndOf(n) + size
          BY <1>1, <1>2, <1>3, <1>4
        <5> HIDE DEF size, n
        <5> QED
          BY <3>2, <5>1
      <4>2. md_buffer'[i] = md_buffer[size + i]
        BY <1>10, <4>1
      <4>3. md_buffer[size + i] = Wire(stream)[EndOf(n) + (size + i)]
        BY <1>9, <4>1
      <4> QED
        BY <1>1, <2>4, <4>1, <4>2, <4>3
    <3> QED
        BY <1>1, <1>2, <1>3, <1>10, <2>1, <3>1, <3>2 DEF BufferOK
  <2>7. StateOK'
    BY <1>1, <1>2, <2>1 DEF StateOK
  <2> QED
    BY <1>1, <1>2, <1>12, <2>5, <2>6, <2>7 DEF IInv
<1>14. CASE error # "none"
  <2>1. md_error' = error /\ decoding' = "callback" /\ UNCHANGED out
    BY <1>8, <1>14
  <2>2. OutOK'
    BY <1>1, <1>2, <2>1, SameInput
  <2>3. BufferOK'
    BY <1>1, <1>3, <1>10, <1>14, <2>1 DEF BufferOK
  <2>4. md_havebytes >= size /\ n # Len(stream)
    BY <1>1, <1>2, <1>3
  <2>5. HeaderError(frame.version, frame.type, frame.status, frame.msgid)
            = "none"
    BY <1>1, <1>3
  <2>6. WrongAt(n) = error
    BY <1>2, <2>4, <2>5, Zenon DEF WrongAt, frame, size, error
  <2>7. Settled'
    <3>1. /\ WrongAt(Len(out))' = WrongAt(Len(out))
          /\ EndOf(Len(out) + 1)' = EndOf(Len(out) + 1)
        BY <1>1, <2>1, SameWrong
    <3>2. Rejected(stream[Len(out) + 1])' # "none"
        BY <1>1, <1>14, <2>1 DEF error, frame, n
    <3> QED
        BY <2>1, <2>6, <3>1, <3>2, Zenon DEF Settled, n
  <2>8. StateOK'
    BY <1>1, <1>2, <1>7, <2>1, <2>7 DEF StateOK
  <2> QED
    BY <1>1, <1>2, <1>12, <2>2, <2>3, <2>8 DEF IInv
<1> QED
    BY <1>13, <1>14

\* decode() calls back.
LEMMA CallbackKeeps ==
    ASSUME IInv, Callback
    PROVE  IInv'
<1>1. InputOK /\ OutOK /\ BufferOK /\ StateOK /\ crashed = FALSE
    BY DEF IInv
<1>2. /\ decoding = "callback" /\ decoding' = "idle" /\ outcome' = Outcome
      /\ UNCHANGED <<stream, sent, md_buffer, md_havebytes, md_done, md_error,
                     md_version, out, crashed>>
    BY DEF Callback, input
<1>3. InputOK' /\ OutOK' /\ Decoded' = Decoded
    BY <1>1, <1>2, SameInput DEF InputOK
<1>4. BufferOK'
    BY <1>1, <1>2, <1>3 DEF BufferOK
<1>5. Settled'
    BY <1>1, <1>2, SameWrong DEF Settled, StateOK
<1>6. StateOK'
    BY <1>1, <1>2, <1>5 DEF StateOK, Outcome
<1> QED
    BY <1>1, <1>2, <1>3, <1>4, <1>6 DEF IInv

LEMMA StepKeeps == IInv /\ [Next]_vars => IInv'
<1> SUFFICES ASSUME IInv, [Next]_vars PROVE IInv'
    OBVIOUS
<1>1. ASSUME NEW n \in 1 .. MaxChunk, Transform(n) PROVE IInv'
    BY <1>1, TransformKeeps
<1>2. CASE Flush
    BY <1>2, FlushKeeps
<1>3. CASE NeedHeader
    BY <1>3, NeedHeaderKeeps
<1>4. CASE ReadHeader
  <2>1. InLoop /\ md_havebytes >= FP_HEADER_SZ /\ LoopAsserts
    BY <1>4, LoopFacts DEF ReadHeader
  <2>2. RejectHeader \/ NeedData \/ Consume
    BY <1>4, <2>1 DEF ReadHeader
  <2> QED
    BY <2>1, <2>2, RejectHeaderKeeps, NeedDataKeeps, ConsumeKeeps
<1>5. CASE Callback
    BY <1>5, CallbackKeeps
<1>6. CASE UNCHANGED vars
  <2>1. UNCHANGED <<stream, sent, md_buffer, md_havebytes, md_done, md_error,
                    md_version, decoding, out, outcome, crashed>>
    BY <1>6 DEF vars, input
  <2>2. InputOK /\ OutOK /\ BufferOK /\ StateOK /\ crashed = FALSE
    BY DEF IInv
  <2>3. InputOK' /\ OutOK' /\ Decoded' = Decoded
    BY <2>1, <2>2, SameInput DEF InputOK
  <2>4. BufferOK'
    BY <2>1, <2>2, <2>3 DEF BufferOK
  <2>5. decoding # "loop" => Settled'
    BY <2>1, <2>2, SameWrong DEF Settled, StateOK
  <2> QED
    BY <2>1, <2>2, <2>3, <2>4, <2>5 DEF IInv, StateOK
<1> QED
    BY <1>1, <1>2, <1>3, <1>4, <1>5, <1>6 DEF Next, Decode
-----------------------------------------------------------------------------
\* The inductive invariant, of every behaviour of the decoder.
THEOREM Invariance == Spec => []IInv
<1> QED
    BY InitHolds, StepKeeps, PTL DEF Spec

\* Every variable of the decoder keeps its type, whatever bytes arrive.
THEOREM TypeCorrect == Spec => []TypeOK
<1>1. IInv => TypeOK
  <2> SUFFICES ASSUME IInv PROVE TypeOK
    OBVIOUS
  <2>1. md_havebytes \in Nat
    BY LenProperties DEF IInv, BufferOK
  <2> QED
    BY <2>1 DEF IInv, InputOK, StateOK, TypeOK, Errors
<1> QED
    BY <1>1, Invariance, PTL

\* decode() is never entered after an error, and whenever it looks for a header
\* its count is that of the bytes and no fields are left of another message.
THEOREM NoAssertionFails == Spec => []NoAssertionFailure
<1>1. IInv => NoAssertionFailure
    BY DEF IInv, NoAssertionFailure
<1> QED
    BY <1>1, Invariance, PTL

\* The frames that were decoded are those that Wrong and DecodesWhatArrived speak
\* of.
LEMMA DecodedAreGood ==
    ASSUME InputOK, OutOK, Settled
    PROVE  NGood = Len(out)
<1> DEFINE Arrived(n) ==
            /\ \A k \in 1 .. n : Rejected(stream[k]) = "none" /\ EndOf(k) <= sent
            /\ n < Len(stream) =>
                  Rejected(stream[n + 1]) # "none" \/ EndOf(n + 1) > sent
<1>1. Len(stream) \in Nat /\ sent \in Nat /\ Len(out) \in 0 .. Len(stream)
      /\ \A n \in 0 .. Len(stream) : EndOf(n) \in Nat
    BY StreamFacts, OutFacts DEF InputOK
<1>2. Arrived(Len(out))
    BY DEF OutOK, Settled
<1>3. ASSUME NEW m \in 0 .. Len(stream), NEW n \in 0 .. Len(stream),
             Arrived(m), Arrived(n), m < n
      PROVE  FALSE
  <2>1. m + 1 \in 1 .. n /\ m < Len(stream) /\ m + 1 \in 0 .. Len(stream)
    BY <1>1, <1>3
  <2>2. Rejected(stream[m + 1]) = "none" /\ EndOf(m + 1) <= sent
    BY <1>3, <2>1
  <2>3. Rejected(stream[m + 1]) # "none" \/ EndOf(m + 1) > sent
    BY <1>3, <2>1
  <2> QED
    BY <1>1, <2>1, <2>2, <2>3
<1>4. NGood = CHOOSE n \in 0 .. Len(stream) : Arrived(n)
    BY DEF NGood
<1> HIDE DEF Arrived
<1>5. NGood \in 0 .. Len(stream) /\ Arrived(NGood)
    BY <1>1, <1>2, <1>4
<1>6. ~(NGood < Len(out)) /\ ~(Len(out) < NGood)
    BY <1>1, <1>2, <1>3, <1>5
<1> QED
    BY <1>1, <1>5, <1>6

\* For any streams, payloads and chunks: whenever the decoder has dealt with a
\* chunk it has pushed every good message before any bad one that has arrived in
\* full, in order, and has the error that the stream has by then.
THEOREM ChunksAreInvisible == Spec => []DecodesWhatArrived
<1>1. IInv => DecodesWhatArrived
  <2> SUFFICES ASSUME IInv, decoding = "idle"
               PROVE  /\ out = [k \in 1 .. NGood |-> Message(stream[k])]
                      /\ md_error = Wrong
    BY DEF DecodesWhatArrived
  <2>1. InputOK /\ OutOK /\ Settled
    BY DEF IInv, StateOK
  <2>2. NGood = Len(out)
    BY <2>1, DecodedAreGood
  <2>3. md_error = Wrong
    BY <2>1, <2>2 DEF Settled, WrongAt, Wrong
  <2>4. out \in [1 .. Len(out) -> Messages]
    BY <2>1, LenProperties DEF OutOK
  <2>5. out = [k \in 1 .. Len(out) |-> out[k]]
    BY <2>4
  <2>6. \A k \in 1 .. Len(out) : out[k] = Message(stream[k])
    BY <2>1 DEF OutOK
  <2> QED
    BY <2>2, <2>3, <2>5, <2>6, Zenon
<1> QED
    BY <1>1, Invariance, PTL

\* What the encoder makes of well-formed messages, in either version, is never
\* rejected, however it is cut; only its end may be missing.
THEOREM EncodedMessagesAreAccepted == Spec => []EncodedIsAccepted
<1>1. IInv => EncodedIsAccepted
  <2> SUFFICES ASSUME IInv, \A k \in 1 .. Len(stream) : WellFormed(stream[k])
               PROVE  md_error \in {"none", "incomplete_message"}
    BY DEF EncodedIsAccepted
  <2>1. InputOK /\ OutOK /\ (md_error = "none" \/ Settled)
    BY DEF IInv, StateOK
  <2>2. ASSUME Len(out) # Len(stream)
        PROVE  LET frame == stream[Len(out) + 1] IN
               /\ HeaderError(frame.version, frame.type, frame.status,
                              frame.msgid) = "none"
               /\ Rejected(frame) = "none"
    <3> DEFINE frame == stream[Len(out) + 1]
    <3>1. Len(out) + 1 \in 1 .. Len(stream) /\ Len(out) < Len(stream)
        BY <2>1, <2>2, OutFacts, StreamFacts
    <3>2. WellFormed(frame)
        BY <3>1
    <3>3. frame \in Frames
        BY <2>1, <3>1, OutFacts, FrameAfter
    <3> HIDE DEF frame
    <3>4. /\ frame.type = FP_TYPE_JSON
          /\ frame.crc = Crc(frame.version, frame.data)
        BY <3>2 DEF WellFormed, Encode
    <3>5. ~(frame.msgid > FP_MSGID_MAX)
        BY <3>2, DecoderAssumption DEF WellFormed
    <3>6. HeaderError(frame.version, frame.type, frame.status, frame.msgid)
            = "none"
        BY <3>2, <3>4, <3>5 DEF WellFormed, HeaderError
    <3>7. Validates(frame.version, frame.crc, frame.data)
        BY <3>4 DEF Validates, Crc
    <3>8. Parse(frame.data) = IF frame.status = FP_STATUS_ERROR THEN "error"
                              ELSE "array"
        BY <3>2 DEF WellFormed
    <3>9. DataError(frame.version, frame.status, frame.crc, frame.data) = "none"
        BY <3>7, <3>8 DEF DataError
    <3>10. Rejected(frame) = "none"
        BY <3>6, <3>9 DEF Rejected
    <3> QED
        BY <3>6, <3>10 DEF frame
  <2>3. WrongAt(Len(out)) \in {"none", "incomplete_message"}
    BY <2>2 DEF WrongAt
  <2> QED
    BY <2>1, <2>3 DEF Settled
<1> QED
    BY <1>1, Invariance, PTL
=============================================================================
