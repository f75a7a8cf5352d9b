--------------------------- MODULE RpcCallsProofs ---------------------------
(***************************************************************************)
(* Theorems about rpcBufferAndCallback() and the benchmarks' workloads, for *)
(* any number of calls on any streams that keep the promise of RpcStream.  *)
(***************************************************************************)
EXTENDS RpcCalls, SequenceTheorems, TLAPS

\* A workload keeps nothing that it did not see either.
KeepsWhatItSaw == \A r \in Requests : Len(data[r]) <= Len(emitted[r])

IInv == TypeOK /\ CallbackCorrect /\ KeepsWhatItSaw
-----------------------------------------------------------------------------
\* What was a prefix of a sequence is one of a longer sequence.
LEMMA PrefixOfAppend ==
    ASSUME NEW S, NEW s \in Seq(S), NEW e \in S, NEW n \in 0 .. Len(s)
    PROVE  SubSeq(Append(s, e), 1, n) = SubSeq(s, 1, n)
<1>1. \A i \in 1 .. n : Append(s, e)[i] = s[i]
    BY AppendProperties
<1> QED
    BY <1>1, SubSeqProperties, AppendProperties, LenProperties

\* What a step of the stream can do to one request: nothing, one object, or a
\* change of phase.
Quiet(r)  == emitted'[r] = emitted[r] /\ phase'[r] = phase[r]
Gets(r) ==
    /\ phase[r] = "open" /\ phase'[r] = "open"
    /\ \E object \in Object : emitted'[r] = Append(emitted[r], object)
Moves(r)  ==
    /\ emitted'[r] = emitted[r]
    /\ phase'[r] # phase[r] /\ phase[r] \notin {"ended", "failed"}

LEMMA EmitStep ==
    ASSUME Stream!TypeOK, NEW q \in Requests, NEW object \in Object,
           Stream!Emit(q, object)
    PROVE  /\ Stream!TypeOK'
           /\ \A r \in Requests : Quiet(r) \/ Gets(r)
<1>1. Append(emitted[q], object) \in Seq(Object)
    BY AppendProperties DEF Stream!TypeOK
<1> QED
    BY <1>1 DEF Stream!Emit, Stream!TypeOK, Quiet, Gets

LEMMA FailStep ==
    ASSUME Stream!TypeOK, NEW R \in SUBSET Requests, Stream!Fail(R)
    PROVE  /\ Stream!TypeOK'
           /\ \A r \in Requests : Quiet(r) \/ Moves(r)
BY DEF Stream!Fail, Stream!TypeOK, Stream!Phases, Quiet, Moves

LEMMA StreamStep ==
    ASSUME Stream!TypeOK, Stream!Next
    PROVE  /\ Stream!TypeOK'
           /\ \A r \in Requests : Quiet(r) \/ Gets(r) \/ Moves(r)
<1>1. CASE \E q \in Requests : \E object \in Object : Stream!Emit(q, object)
    BY <1>1, EmitStep
<1>2. CASE \E R \in SUBSET Requests : Stream!Fail(R)
    BY <1>2, FailStep
<1>3. CASE \E q \in Requests :
              Stream!Issue(q) \/ Stream!Finish(q) \/ Stream!EmitEnd(q)
              \/ Stream!EmitError(q)
  <2>1. PICK q \in Requests :
            \/ Stream!Move(q, "idle", "open") \/ Stream!Move(q, "idle", "failing")
            \/ Stream!Move(q, "open", "ending") \/ Stream!Move(q, "ending", "ended")
            \/ Stream!Move(q, "failing", "failed")
    BY <1>3 DEF Stream!Issue, Stream!Finish, Stream!EmitEnd, Stream!EmitError
  <2> QED
    BY <2>1 DEF Stream!Move, Stream!TypeOK, Stream!Phases, Quiet, Moves
<1> QED
    BY <1>1, <1>2, <1>3 DEF Stream!Next
-----------------------------------------------------------------------------
\* What the listeners make of a step, for one request.
One(r) ==
    /\ data'[r] \in Seq(Object) /\ ndata'[r] \in Nat
    /\ callback'[r] \in Seq(Outcome)
    /\ Len(data'[r]) <= Len(emitted'[r])
    /\ ndata'[r] = Len(emitted'[r])
    /\ data'[r] = SubSeq(emitted'[r], 1, Len(data'[r]))
    /\ r \notin Workload =>
        Len(data'[r]) = IF ndata'[r] < maxObjectsToBuffer THEN ndata'[r]
                        ELSE maxObjectsToBuffer
    /\ r \in done' <=> phase'[r] \in {"ended", "failed"}
    /\ callback'[r] =
        IF r \notin done' THEN <<>>
        ELSE <<[err |-> phase'[r] = "failed"
                        \/ (r \in Workload /\ ndata'[r] # Expected),
                data |-> data'[r], ndata |-> ndata'[r]]>>
    /\ ListenerAsserts(r)

\* The listeners' part of a step, for one request.
Listens(r) ==
    /\ ndata'[r] = IF OnData(r) THEN ndata[r] + 1 ELSE ndata[r]
    /\ data'[r] = IF OnData(r) /\ Keeps(r)
                  THEN Append(data[r], emitted'[r][Len(emitted'[r])])
                  ELSE data[r]
    /\ r \in done' <=> r \in done \/ OnEnd(r) \/ OnError(r)
    /\ callback'[r] = callback[r] \o Outcomes(r)

LEMMA ListenEach ==
    ASSUME TypeOK, Listen, NEW r \in Requests
    PROVE  Listens(r)
BY DEF Listen, Listens, TypeOK

\* Nothing happens to r.
LEMMA QuietOne ==
    ASSUME CallsAssumption, IInv, NEW r \in Requests, Quiet(r), Listens(r)
    PROVE  One(r)
<1>1. ~OnData(r) /\ ~OnEnd(r) /\ ~OnError(r)
    BY DEF Quiet, OnData, OnEnd, OnError, IInv, TypeOK, Stream!TypeOK
<1>2. Outcomes(r) = <<>> /\ callback[r] \in Seq(Outcome)
    BY <1>1 DEF Outcomes, IInv, TypeOK
<1>3. callback'[r] = callback[r]
    BY <1>2 DEF Listens
<1>4. data'[r] = data[r] /\ ndata'[r] = ndata[r] /\ (r \in done' <=> r \in done)
    BY <1>1 DEF Listens
<1>5. ListenerAsserts(r)
    BY <1>1 DEF ListenerAsserts
<1> QED
    BY <1>3, <1>4, <1>5
    DEF One, Quiet, IInv, TypeOK, CallbackCorrect, KeepsWhatItSaw

\* r gets an object.
LEMMA ObjectOne ==
    ASSUME CallsAssumption, IInv, NEW r \in Requests, Gets(r), Listens(r)
    PROVE  One(r)
<1>1. PICK object \in Object : emitted'[r] = Append(emitted[r], object)
    BY DEF Gets
<1>2. /\ emitted[r] \in Seq(Object) /\ data[r] \in Seq(Object)
      /\ ndata[r] \in Nat /\ callback[r] \in Seq(Outcome)
    BY DEF IInv, TypeOK, Stream!TypeOK
<1>3. /\ Len(emitted[r]) \in Nat /\ Len(data[r]) \in Nat
      /\ Len(emitted'[r]) = Len(emitted[r]) + 1
      /\ emitted'[r][Len(emitted'[r])] = object
    BY <1>1, <1>2, AppendProperties, LenProperties
<1>4. OnData(r) /\ ~OnEnd(r) /\ ~OnError(r)
    BY <1>3 DEF Gets, OnData, OnEnd, OnError
<1>5. r \notin done /\ r \notin done'
    BY <1>4 DEF Gets, Listens, IInv, CallbackCorrect
<1>6. callback[r] = <<>> /\ callback'[r] = <<>>
  <2>1. callback[r] = <<>>
    BY <1>5 DEF IInv, CallbackCorrect
  <2>2. Outcomes(r) = <<>>
    BY <1>4 DEF Outcomes
  <2> QED
    BY <2>1, <2>2 DEF Listens
<1>7. ndata'[r] = ndata[r] + 1
    BY <1>4 DEF Listens
<1>8. /\ Len(data[r]) <= Len(emitted[r]) /\ ndata[r] = Len(emitted[r])
      /\ data[r] = SubSeq(emitted[r], 1, Len(data[r]))
      /\ r \notin Workload =>
            Len(data[r]) = IF ndata[r] < maxObjectsToBuffer THEN ndata[r]
                           ELSE maxObjectsToBuffer
    BY DEF IInv, CallbackCorrect, KeepsWhatItSaw
<1>9. /\ data'[r] \in Seq(Object) /\ Len(data'[r]) <= Len(emitted'[r])
      /\ data'[r] = SubSeq(emitted'[r], 1, Len(data'[r]))
      /\ r \notin Workload =>
            Len(data'[r]) = IF ndata'[r] < maxObjectsToBuffer THEN ndata'[r]
                            ELSE maxObjectsToBuffer
  <2>1. CASE Keeps(r)
    <3>1. Len(data[r]) = Len(emitted[r])
        BY <2>1, <1>8 DEF Keeps, CallsAssumption
    <3>2. data[r] = emitted[r]
        BY <3>1, <1>2, <1>8, SubSeqFull
    <3>3. data'[r] = emitted'[r] /\ emitted'[r] \in Seq(Object)
        BY <3>2, <2>1, <1>1, <1>2, <1>3, <1>4, AppendProperties DEF Listens
    <3>4. data'[r] = SubSeq(emitted'[r], 1, Len(data'[r]))
        BY <3>3, SubSeqFull
    <3>5. Len(data'[r]) = ndata'[r] /\ ndata'[r] <= maxObjectsToBuffer
        BY <3>3, <2>1, <1>2, <1>3, <1>7, <1>8 DEF Keeps, CallsAssumption
    <3> QED
        BY <3>3, <3>4, <3>5, <2>1, <1>3, <1>7, <1>2 DEF Keeps, CallsAssumption
  <2>2. CASE ~Keeps(r)
    <3>1. data'[r] = data[r]
        BY <2>2 DEF Listens
    <3>2. SubSeq(emitted'[r], 1, Len(data[r])) = SubSeq(emitted[r], 1, Len(data[r]))
        BY <1>1, <1>2, <1>3, <1>8, PrefixOfAppend
    <3> QED
        BY <3>1, <3>2, <2>2, <1>2, <1>3, <1>7, <1>8 DEF Keeps, CallsAssumption
  <2> QED
    BY <2>1, <2>2
<1>10. ListenerAsserts(r)
    BY <1>4, <1>5 DEF ListenerAsserts
<1> QED
    BY <1>1, <1>2, <1>3, <1>5, <1>6, <1>7, <1>8, <1>9, <1>10
    DEF One, Gets

\* r changes its phase.
LEMMA MovesOne ==
    ASSUME CallsAssumption, IInv, NEW r \in Requests, Moves(r), Listens(r)
    PROVE  One(r)
<1>1. /\ emitted[r] \in Seq(Object) /\ data[r] \in Seq(Object)
      /\ ndata[r] \in Nat /\ Len(data[r]) \in Nat
    BY LenProperties DEF IInv, TypeOK, Stream!TypeOK
<1>2. ~OnData(r)
    BY <1>1, LenProperties DEF Moves, OnData
<1>3. data'[r] = data[r] /\ ndata'[r] = ndata[r]
    BY <1>2 DEF Listens
<1>4. r \notin done /\ callback[r] = <<>>
    BY DEF Moves, IInv, CallbackCorrect
<1>5. callback'[r] = Outcomes(r)
    BY <1>4 DEF Listens, Outcomes
<1>6. OnEnd(r) \/ OnError(r) <=> phase'[r] \in {"ended", "failed"}
    BY DEF Moves, OnEnd, OnError
<1>7. r \in done' <=> phase'[r] \in {"ended", "failed"}
    BY <1>4, <1>6 DEF Listens
<1>8. callback'[r] =
        IF r \notin done' THEN <<>>
        ELSE <<[err |-> phase'[r] = "failed"
                        \/ (r \in Workload /\ ndata'[r] # Expected),
                data |-> data'[r], ndata |-> ndata'[r]]>>
    BY <1>3, <1>5, <1>6, <1>7 DEF Outcomes, Fails, OnError, OnEnd, Moves
<1>9. callback'[r] \in Seq(Outcome)
  <2> DEFINE failed == phase'[r] = "failed"
                       \/ (r \in Workload /\ ndata'[r] # Expected)
             outcome == [err |-> failed, data |-> data'[r], ndata |-> ndata'[r]]
  <2>1. failed \in BOOLEAN
    OBVIOUS
  <2> HIDE DEF failed
  <2>2. outcome \in Outcome
    BY <2>1, <1>1, <1>3 DEF Outcome
  <2>3. callback'[r] = IF r \notin done' THEN <<>> ELSE <<outcome>>
    BY <1>8 DEF failed
  <2> HIDE DEF outcome
  <2> QED
    BY <2>2, <2>3
<1>10. ListenerAsserts(r)
  <2>1. Len(data[r]) <= Len(emitted[r]) /\ ndata[r] = Len(emitted[r])
    BY DEF IInv, CallbackCorrect, KeepsWhatItSaw
  <2>2. r \notin Workload =>
            Len(data[r]) = IF ndata[r] < maxObjectsToBuffer THEN ndata[r]
                           ELSE maxObjectsToBuffer
    BY DEF IInv, CallbackCorrect
  <2> QED
    BY <2>1, <2>2, <1>1, <1>4 DEF ListenerAsserts, CallsAssumption
<1> QED
    BY <1>1, <1>3, <1>7, <1>8, <1>9, <1>10
    DEF One, Moves, IInv, CallbackCorrect, KeepsWhatItSaw
-----------------------------------------------------------------------------
LEMMA InitHolds ==
    ASSUME CallsAssumption, Init
    PROVE  IInv
<1>1. Stream!TypeOK
    BY DEF Init, Stream!Init, Stream!TypeOK, Stream!Phases
<1>2. SubSeq(<<>>, 1, 0) = <<>> /\ Len(<<>>) = 0
    BY SubSeqEmpty, EmptySeq
<1>3. TypeOK
  <2>1. <<>> \in Seq(Object) /\ <<>> \in Seq(Outcome)
    BY EmptySeq
  <2> QED
    BY <2>1, <1>1 DEF Init, CallsInit, TypeOK
<1>4. \A r \in Requests :
        /\ emitted[r] = <<>> /\ data[r] = <<>> /\ ndata[r] = 0
        /\ callback[r] = <<>> /\ phase[r] = "idle"
    BY DEF Init, Stream!Init, CallsInit
<1>5. ~throws /\ done = {}
    BY DEF Init, CallsInit
<1>6. \A r \in Requests : Len(data[r]) = 0 /\ Len(emitted[r]) = 0
    BY <1>2, <1>4, Zenon
<1>7. KeepsWhatItSaw
  <2>1. 0 <= 0
    OBVIOUS
  <2> QED
    BY <1>6, <2>1, Zenon DEF KeepsWhatItSaw
<1>8. ASSUME NEW r \in Requests
      PROVE  /\ ndata[r] = Len(emitted[r])
             /\ data[r] = SubSeq(emitted[r], 1, Len(data[r]))
             /\ r \notin Workload =>
                Len(data[r]) = IF ndata[r] < maxObjectsToBuffer THEN ndata[r]
                               ELSE maxObjectsToBuffer
  <2>1. ndata[r] = Len(emitted[r])
    BY <1>4, <1>6
  <2>2. data[r] = SubSeq(emitted[r], 1, Len(data[r]))
    BY <1>2, <1>4, <1>6, Zenon
  <2>3. Len(data[r]) = IF ndata[r] < maxObjectsToBuffer THEN ndata[r]
                       ELSE maxObjectsToBuffer
    BY <1>4, <1>6 DEF CallsAssumption
  <2> QED
    BY <2>1, <2>2, <2>3
<1>9. CallbackCorrect
    BY <1>4, <1>5, <1>8 DEF CallbackCorrect
<1> QED
    BY <1>3, <1>7, <1>9 DEF IInv

\* Listeners that are called as the stream goes on, or stays where it is.
LEMMA ListenKeeps ==
    ASSUME CallsAssumption, IInv, Listen, Stream!TypeOK',
           \A r \in Requests : Quiet(r) \/ Gets(r) \/ Moves(r)
    PROVE  IInv'
<1>1. TypeOK
    BY DEF IInv
<1>2. \A r \in Requests : One(r)
    BY <1>1, ListenEach, QuietOne, ObjectOne, MovesOne
<1>3. ~throws' /\ throws' \in BOOLEAN
    BY <1>2 DEF Listen, One, IInv, CallbackCorrect
<1>4. done' \subseteq Requests
    BY <1>1 DEF Listen, TypeOK
<1>5. /\ data' \in [Requests -> Seq(Object)] /\ ndata' \in [Requests -> Nat]
      /\ callback' \in [Requests -> Seq(Outcome)]
    BY <1>2 DEF Listen, One
<1> QED
    BY <1>2, <1>3, <1>4, <1>5
    DEF One, IInv, TypeOK, CallbackCorrect, KeepsWhatItSaw

LEMMA StutterKeeps ==
    ASSUME IInv, UNCHANGED vars
    PROVE  IInv'
BY DEF vars, stream, calls, IInv, TypeOK, Stream!TypeOK, CallbackCorrect,
       KeepsWhatItSaw

LEMMA StepKeeps ==
    ASSUME CallsAssumption, IInv, [Next]_vars
    PROVE  IInv'
<1>1. CASE UNCHANGED vars
    BY <1>1, StutterKeeps
<1>2. CASE Next
    BY <1>2, StreamStep, ListenKeeps DEF Next, IInv, TypeOK
<1> QED
    BY <1>1, <1>2

\* Types, callbacks and what workloads keep, in every behaviour.
THEOREM Invariance == ASSUME CallsAssumption PROVE Spec => []IInv
<1>1. Init => IInv
    BY InitHolds
<1>2. IInv /\ [Next]_vars => IInv'
    BY StepKeeps
<1> QED
    BY <1>1, <1>2, PTL DEF Spec

\* Any number of calls, buffers and expectations are of the right types.
THEOREM TypeCorrect == ASSUME CallsAssumption PROVE Spec => []TypeOK
<1>1. IInv => TypeOK
    BY DEF IInv
<1> QED
    BY <1>1, Invariance, PTL

\* Any stream that keeps the promise of RpcStream, however it ends, makes one
\* right callback and trips none of the listeners' assertions.
THEOREM CallbacksAreCorrect == ASSUME CallsAssumption PROVE Spec => []CallbackCorrect
<1>1. IInv => CallbackCorrect
    BY DEF IInv
<1> QED
    BY <1>1, Invariance, PTL

\* A stream that is over has had its callback made.
LEMMA OverIsReported ==
    ASSUME CallbackCorrect, NEW r \in Requests, phase[r] \in {"ended", "failed"}
    PROVE  callback[r] # <<>>
<1>1. r \in done
    BY DEF CallbackCorrect
<1> DEFINE outcome == [err |-> phase[r] = "failed"
                                \/ (r \in Workload /\ ndata[r] # Expected),
                       data |-> data[r], ndata |-> ndata[r]]
<1>2. callback[r] = <<outcome>>
    BY <1>1 DEF CallbackCorrect
<1> HIDE DEF outcome
<1> QED
    BY <1>2
=============================================================================
