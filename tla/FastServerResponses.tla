------------------------ MODULE FastServerResponses ------------------------
(***************************************************************************)
(* What clients are promised of the server's responses, for any number of  *)
(* connections, requests and objects: each is DATA messages and then one   *)
(* END or ERROR, whole or cut off.  PipelinesOK is the invariant: what     *)
(* stage each request's pipeline is in, and what its response has then.    *)
(***************************************************************************)
EXTENDS FastServerProofs

Messages == [req : Reqs, status : Status]

\* The response of r when w was written to the socket and q is queued.
In(q, r) == {i \in 1 .. Len(q) : q[i].req = r}

Length(w, q, r) == Len(w) + Cardinality(In(q, r))

Data(w, q, r) ==
    /\ \A i \in 1 .. Len(w) : w[i] = "data"
    /\ \A i \in In(q, r) : q[i].status = "data"

Closed(w, q, r, status) ==
    \/ /\ In(q, r) = {} /\ w # <<>>
       /\ \A i \in 1 .. Len(w) : w[i] = IF i = Len(w) THEN status ELSE "data"
    \/ /\ \A i \in 1 .. Len(w) : w[i] = "data"
       /\ \E last \in In(q, r) :
             /\ q[last].status = status
             /\ \A i \in In(q, r) \ {last} : i < last /\ q[i].status = "data"

\* The same response, in other places.
SameAs(w, q, v, p, r) ==
    /\ Length(v, p, r) = Length(w, q, r)
    /\ Data(w, q, r) => Data(v, p, r)
    /\ \A status \in {"end", "error"} :
            Closed(w, q, r, status) => Closed(v, p, r, status)

\* Messages are in the encoder of their request's connection.
EncodersOK ==
    \A c \in Conns : \A i \in 1 .. Len(fc_msgencoder[c]) :
        fsr_conn[fc_msgencoder[c][i].req] = c

\* The request is not made yet.
NotMade(r) ==
    /\ fsr_state[r] = "none" /\ fsr_conn[r] = None
    /\ handler[r] = "none" /\ r \notin flushed
    /\ wire[r] = <<>> /\ fsr_encoder[r] = <<>> /\ fsr_context[r] = 0
    /\ nwritten[r] = 0

\* Every object written is somewhere in the pipeline, in its order.
Open(r) ==
    /\ fsr_state[r] = "RUNNING" /\ r \notin fsr_blackhole \cup flushed
    /\ AllData(r)
    /\ \A i \in 1 .. Len(fsr_encoder[r]) : fsr_encoder[r][i] = "data"
    /\ ResponseLen(r) + Len(fsr_encoder[r]) + fsr_context[r] = nwritten[r]

\* The END is the last thing the request's encoder holds.
Ending(r) ==
    /\ fsr_state[r] = "RUNNING" /\ r \in flushed \ fsr_blackhole
    /\ handler[r] = "ended" /\ fsr_context[r] = 0
    /\ AllData(r)
    /\ fsr_encoder[r] # <<>>
    /\ \A i \in 1 .. Len(fsr_encoder[r]) :
          fsr_encoder[r][i] = IF i = Len(fsr_encoder[r]) THEN "end" ELSE "data"
    /\ ResponseLen(r) + Len(fsr_encoder[r]) = nwritten[r] + 1

\* The END has left the request's encoder.
Ended(r) ==
    /\ fsr_state[r] # "none" /\ r \in flushed
    /\ handler[r] \in {"ended", "finished"}
    /\ fsr_context[r] = 0 /\ fsr_encoder[r] = <<>>
    /\ ClosedBy(r, "end") /\ ResponseLen(r) = nwritten[r] + 1

\* requestFail() was called: nothing leaves the request's encoder any more.
Failed(r) ==
    /\ fsr_state[r] = "COMPLETE" /\ handler[r] \in {"none", "failed"}
    /\ fsr_encoder[r] = <<>>
    /\ ClosedBy(r, "error") /\ ResponseLen(r) <= nwritten[r] + 1

\* Cut off before the END left the request's encoder.
CutOff(r) ==
    /\ fsr_state[r] # "none" /\ r \in fsr_blackhole
    /\ fsr_context[r] = 0 /\ fsr_encoder[r] = <<>>
    /\ AllData(r) /\ ResponseLen(r) <= nwritten[r]

Stages(r) ==
    NotMade(r) \/ Open(r) \/ Ending(r) \/ Ended(r) \/ Failed(r) \/ CutOff(r)

PipelinesOK == \A r \in Reqs : Stages(r)
-----------------------------------------------------------------------------
(* Queues of messages of several requests *)

LEMMA InFinite ==
    ASSUME NEW S, NEW q \in Seq(S), NEW r
    PROVE  IsFiniteSet(In(q, r)) /\ Cardinality(In(q, r)) \in Nat
<1>1. Len(q) \in Nat
    OBVIOUS
<1>2. IsFiniteSet(1 .. Len(q))
    BY <1>1, FS_Interval
<1> QED
    BY <1>2, FS_Subset, FS_CardinalityType DEF In

\* A message appended is in the response of its own request and of no other.
LEMMA AppendOther ==
    ASSUME NEW q \in Seq(Messages), NEW m \in Messages, NEW r, m.req # r,
           NEW w \in Seq(Status)
    PROVE  SameAs(w, q, w, Append(q, m), r)
<1> DEFINE p == Append(q, m)
<1>1. /\ Len(q) \in Nat /\ Len(p) = Len(q) + 1 /\ p[Len(q) + 1] = m
      /\ \A i \in 1 .. Len(q) : p[i] = q[i]
    OBVIOUS
<1> HIDE DEF p
<1>2. In(p, r) = In(q, r) /\ \A i \in In(q, r) : p[i] = q[i]
    BY <1>1 DEF In
<1>3. Length(w, p, r) = Length(w, q, r)
    BY <1>2 DEF Length
<1>4. Data(w, q, r) => Data(w, p, r)
    BY <1>2 DEF Data
<1>5. ASSUME NEW status, Closed(w, q, r, status) PROVE Closed(w, p, r, status)
    BY <1>2, <1>5 DEF Closed
<1> QED
    BY <1>3, <1>4, <1>5 DEF SameAs, p

LEMMA AppendOwn ==
    ASSUME NEW q \in Seq(Messages), NEW m \in Messages, NEW r, m.req = r,
           NEW w \in Seq(Status)
    PROVE  /\ Length(w, Append(q, m), r) = Length(w, q, r) + 1
           /\ Data(w, q, r) /\ m.status = "data" => Data(w, Append(q, m), r)
           /\ Data(w, q, r) => Closed(w, Append(q, m), r, m.status)
<1> DEFINE n == Len(q) + 1
           p == Append(q, m)
<1>1. /\ Len(q) \in Nat /\ Len(p) = n /\ p[n] = m
      /\ \A i \in 1 .. Len(q) : p[i] = q[i]
    OBVIOUS
<1> HIDE DEF p
<1>2. In(p, r) = In(q, r) \cup {n} /\ n \notin In(q, r)
      /\ \A i \in In(q, r) : p[i] = q[i] /\ i < n
    BY <1>1 DEF In
<1>3. Length(w, p, r) = Length(w, q, r) + 1
  <2>1. Cardinality(In(p, r)) = Cardinality(In(q, r)) + 1
      BY <1>2, InFinite, FS_AddElement
  <2> QED
      BY <2>1, InFinite DEF Length
<1>4. p[n].status = m.status
    BY <1>1
<1> HIDE DEF n
<1>5. Data(w, q, r) /\ m.status = "data" => Data(w, p, r)
    BY <1>2, <1>4 DEF Data
<1>6. Data(w, q, r) => Closed(w, p, r, m.status)
    BY <1>2, <1>4 DEF Data, Closed
<1> QED
    BY <1>3, <1>5, <1>6 DEF p

\* The message at the head of the queue moves on: places shift by one.
LEMMA TailPlaces ==
    ASSUME NEW S, NEW q \in Seq(S), q # <<>>, NEW r
    PROVE  /\ \A i \in In(Tail(q), r) : i + 1 \in In(q, r) /\ i \in Nat
                                        /\ Tail(q)[i] = q[i + 1]
           /\ \A i \in In(q, r) \ {1} : i - 1 \in In(Tail(q), r) /\ i \in Nat
                                        /\ Tail(q)[i - 1] = q[i]
           /\ Cardinality(In(Tail(q), r)) = Cardinality(In(q, r) \ {1})
<1> DEFINE p == Tail(q)
<1>1. /\ Len(q) \in Nat \ {0} /\ Len(p) = Len(q) - 1
      /\ \A i \in 1 .. Len(p) : p[i] = q[i + 1]
    OBVIOUS
<1> HIDE DEF p
<1>2. \A i \in In(p, r) : i + 1 \in In(q, r) \ {1} /\ i \in Nat /\ p[i] = q[i + 1]
    BY <1>1 DEF In
<1>3. ASSUME NEW i \in In(q, r) \ {1}
      PROVE  i - 1 \in In(p, r) /\ i \in Nat /\ p[i - 1] = q[i]
  <2>1. i \in 1 .. Len(q) /\ i # 1 /\ q[i].req = r
      BY <1>3 DEF In
  <2>2. PICK j \in 1 .. Len(p) : j = i - 1
      BY <1>1, <2>1
  <2>3. p[j] = q[j + 1] /\ j + 1 = i
      BY <1>1, <2>1, <2>2
  <2> QED
      BY <2>1, <2>2, <2>3 DEF In
<1>4. Cardinality(In(p, r)) = Cardinality(In(q, r) \ {1})
  <2> DEFINE f == [i \in In(p, r) |-> i + 1]
  <2>1. \A i \in In(p, r) : f[i] \in In(q, r) \ {1}
      BY <1>2
  <2>2. \A i, j \in In(p, r) : f[i] = f[j] => i = j
      BY <1>2
  <2>3. \A k \in In(q, r) \ {1} : \E i \in In(p, r) : f[i] = k
    <3> SUFFICES ASSUME NEW k \in In(q, r) \ {1}
                 PROVE  \E i \in In(p, r) : f[i] = k
        OBVIOUS
    <3>1. PICK i \in In(p, r) : i = k - 1
        BY <1>3
    <3>2. k \in Nat /\ i + 1 = k
        BY <1>3, <3>1
    <3> QED
        BY <3>1, <3>2
  <2>4. f \in Bijection(In(p, r), In(q, r) \ {1})
      BY <2>1, <2>2, <2>3 DEF Bijection, Injection, Surjection, IsInjective
  <2>5. ExistsBijection(In(p, r), In(q, r) \ {1})
      BY <2>4 DEF ExistsBijection
  <2>6. p \in Seq(S)
      BY DEF p
  <2> QED
      BY <2>5, <2>6, InFinite, FS_Bijection
<1> QED
    BY <1>2, <1>3, <1>4 DEF p

\* What is written to the socket is another's.
LEMMA TailOther ==
    ASSUME NEW q \in Seq(Messages), q # <<>>, NEW r, q[1].req # r,
           NEW w \in Seq(Status)
    PROVE  SameAs(w, q, w, Tail(q), r)
<1> DEFINE p == Tail(q)
<1>1. 1 \notin In(q, r)
    BY DEF In
<1>2. /\ \A i \in In(p, r) : i + 1 \in In(q, r) /\ i \in Nat /\ p[i] = q[i + 1]
      /\ \A i \in In(q, r) : i - 1 \in In(p, r) /\ i \in Nat /\ p[i - 1] = q[i]
      /\ Cardinality(In(p, r)) = Cardinality(In(q, r))
  <2>1. In(q, r) \ {1} = In(q, r)
      BY <1>1
  <2> HIDE DEF p
  <2>2. p = Tail(q)
      BY DEF p
  <2>3. /\ \A i \in In(Tail(q), r) :
              i + 1 \in In(q, r) /\ i \in Nat /\ Tail(q)[i] = q[i + 1]
        /\ \A i \in In(q, r) \ {1} :
              i - 1 \in In(Tail(q), r) /\ i \in Nat /\ Tail(q)[i - 1] = q[i]
        /\ Cardinality(In(Tail(q), r)) = Cardinality(In(q, r) \ {1})
      BY TailPlaces
  <2> QED
      BY <2>1, <2>2, <2>3
<1> HIDE DEF p
<1>3. Length(w, p, r) = Length(w, q, r)
    BY <1>2 DEF Length
<1>4. Data(w, q, r) => Data(w, p, r)
    BY <1>2 DEF Data
<1>5. ASSUME NEW status, Closed(w, q, r, status) PROVE Closed(w, p, r, status)
  <2>1. CASE In(q, r) = {}
    <3>1. In(p, r) = {}
        BY <1>2, <2>1
    <3> QED
        BY <1>5, <2>1, <3>1 DEF Closed
  <2>2. CASE In(q, r) # {}
    <3>1. /\ \A i \in 1 .. Len(w) : w[i] = "data"
          /\ \E last \in In(q, r) :
                /\ q[last].status = status
                /\ \A i \in In(q, r) \ {last} : i < last /\ q[i].status = "data"
        BY <1>5, <2>2 DEF Closed
    <3>2. PICK last \in In(q, r) :
                /\ q[last].status = status
                /\ \A i \in In(q, r) \ {last} : i < last /\ q[i].status = "data"
        BY <3>1
    <3>3. PICK new \in In(p, r) : new = last - 1
        BY <1>2
    <3>4. p[new].status = status
        BY <1>2, <3>2, <3>3
    <3>5. ASSUME NEW i \in In(p, r) \ {new}
          PROVE  i < new /\ p[i].status = "data"
      <4>1. PICK j \in In(q, r) : j = i + 1
          BY <1>2, <3>5
      <4>2. i \in Nat /\ j \in Nat /\ last \in Nat /\ j # last
          BY <1>2, <3>3, <3>5, <4>1
      <4> QED
          BY <1>2, <3>2, <3>3, <3>5, <4>1, <4>2
    <3> QED
        BY <3>1, <3>4, <3>5 DEF Closed
  <2> QED
      BY <2>1, <2>2
<1> QED
    BY <1>3, <1>4, <1>5 DEF SameAs, p

\* What is written to the socket is the response's next message.
LEMMA TailOwn ==
    ASSUME NEW q \in Seq(Messages), q # <<>>, NEW r, q[1].req = r,
           NEW w \in Seq(Status)
    PROVE  SameAs(w, q, Append(w, q[1].status), Tail(q), r)
<1> DEFINE p == Tail(q)
           v == Append(w, q[1].status)
<1>1. 1 \in In(q, r)
    BY DEF In
<1>2. /\ \A i \in In(p, r) : i + 1 \in In(q, r) /\ i \in Nat /\ p[i] = q[i + 1]
      /\ \A i \in In(q, r) \ {1} : i - 1 \in In(p, r) /\ i \in Nat
                                   /\ p[i - 1] = q[i]
      /\ Cardinality(In(p, r)) = Cardinality(In(q, r) \ {1})
    BY ZenonT(40), TailPlaces
<1>3. Cardinality(In(p, r)) = Cardinality(In(q, r)) - 1
  <2>1. IsFiniteSet(In(q, r))
      BY InFinite
  <2>2. Cardinality(In(q, r) \ {1}) = Cardinality(In(q, r)) - 1
      BY <1>1, <2>1, FS_RemoveElement
  <2> QED
      BY <1>2, <2>2
<1>4. /\ Len(w) \in Nat /\ Len(v) = Len(w) + 1 /\ v # <<>>
      /\ v[Len(w) + 1] = q[1].status
      /\ \A i \in 1 .. Len(w) : v[i] = w[i]
    OBVIOUS
<1> HIDE DEF p, v
<1>5. Length(v, p, r) = Length(w, q, r)
    BY <1>3, <1>4, InFinite DEF Length
<1>6. Data(w, q, r) => Data(v, p, r)
    BY <1>1, <1>2, <1>4 DEF Data
<1>7. ASSUME NEW status, Closed(w, q, r, status) PROVE Closed(v, p, r, status)
  <2>1. /\ \A i \in 1 .. Len(w) : w[i] = "data"
        /\ \E last \in In(q, r) :
              /\ q[last].status = status
              /\ \A i \in In(q, r) \ {last} : i < last /\ q[i].status = "data"
      BY <1>1, <1>7 DEF Closed
  <2>2. PICK last \in In(q, r) :
              /\ q[last].status = status
              /\ \A i \in In(q, r) \ {last} : i < last /\ q[i].status = "data"
      BY <2>1
  <2>3. CASE last = 1
    <3>1. In(p, r) = {}
      <4> SUFFICES ASSUME NEW i \in In(p, r) PROVE FALSE
          OBVIOUS
      <4>1. PICK j \in In(q, r) : j = i + 1 /\ i \in Nat /\ i >= 1
          BY <1>2 DEF In
      <4> QED
          BY <2>2, <2>3, <4>1
    <3> QED
        BY <1>4, <2>1, <2>2, <2>3, <3>1 DEF Closed
  <2>4. CASE last # 1
    <3>1. q[1].status = "data"
        BY <1>1, <2>2, <2>4
    <3>2. \A i \in 1 .. Len(v) : v[i] = "data"
        BY <1>4, <2>1, <3>1
    <3>3. PICK new \in In(p, r) : new = last - 1
        BY <1>2, <2>4
    <3>4. p[new].status = status
        BY <1>2, <2>2, <2>4, <3>3
    <3>5. ASSUME NEW i \in In(p, r) \ {new}
          PROVE  i < new /\ p[i].status = "data"
      <4>1. PICK j \in In(q, r) : j = i + 1
          BY <1>2, <3>5
      <4>2. i \in Nat /\ j \in Nat /\ last \in Nat /\ j # last
          BY <1>2, <2>4, <3>3, <3>5, <4>1
      <4> QED
          BY <1>2, <2>2, <3>3, <3>5, <4>1, <4>2
    <3> QED
        BY <3>2, <3>4, <3>5 DEF Closed
  <2> QED
      BY <2>3, <2>4
<1> QED
    BY <1>5, <1>6, <1>7 DEF SameAs, p, v

LEMMA QueueTypes ==
    ASSUME TypeOK
    PROVE  /\ \A r \in Reqs : EncoderOf(r) \in Seq(Messages) /\ wire[r] \in Seq(Status)
           /\ fc_msgencoder \in [Conns -> Seq(Messages)]
           /\ fsr_conn \in [Reqs -> Conns \cup {None}]
<1>1. <<>> \in Seq(Messages)
    OBVIOUS
<1> QED
    BY <1>1 DEF TypeOK, OutTypeOK, TableTypeOK, EncoderOf, Messages

\* A response that is closed is not all data.
LEMMA ClosedIsNotOpen ==
    ASSUME NEW r, NEW status \in {"end", "error"}, ClosedBy(r, status)
    PROVE  ~AllData(r)
<1>1. status # "data"
    OBVIOUS
<1>2. CASE wire[r] # <<>> /\ \A i \in 1 .. Len(wire[r]) :
                wire[r][i] = IF i = Len(wire[r]) THEN status ELSE "data"
    BY <1>1, <1>2 DEF AllData
<1> QED
    BY <1>1, <1>2 DEF ClosedBy, AllData

LEMMA EndIsNotError ==
    ASSUME TypeOK, NEW r \in Reqs, ClosedBy(r, "end"), ClosedBy(r, "error")
    PROVE  FALSE
<1>1. wire[r] \in Seq(Status) /\ EncoderOf(r) \in Seq(Messages)
    BY QueueTypes
<1>2. Places(r) \subseteq Nat
    BY <1>1 DEF Places
<1>3. CASE Places(r) = {}
  <2>1. Len(wire[r]) \in Nat /\ (wire[r] # <<>> => Len(wire[r]) \in 1 .. Len(wire[r]))
      BY <1>1
  <2> QED
      BY <1>3, <2>1 DEF ClosedBy
<1>4. CASE Places(r) # {}
  <2>1. PICK i \in Places(r) :
            /\ EncoderOf(r)[i].status = "end"
            /\ \A j \in Places(r) \ {i} : j < i /\ EncoderOf(r)[j].status = "data"
      BY <1>4 DEF ClosedBy
  <2>2. PICK i2 \in Places(r) :
            /\ EncoderOf(r)[i2].status = "error"
            /\ \A j \in Places(r) \ {i2} : j < i2 /\ EncoderOf(r)[j].status = "data"
      BY <1>4 DEF ClosedBy
  <2> QED
      BY <2>1, <2>2
<1> QED
    BY <1>3, <1>4
-----------------------------------------------------------------------------
(* Stages of a request *)

\* The step does nothing to the response of r, but move its messages on.
ResponseKept(r) ==
    /\ SameAs(wire[r], EncoderOf(r), wire'[r], EncoderOf(r)', r)
    /\ fsr_conn'[r] = fsr_conn[r]
    /\ wire'[r] = wire[r] \/ fsr_conn[r] # None

\* Nor anything else about r.
Untouched(r) ==
    /\ ResponseKept(r)
    /\ fsr_state'[r] = fsr_state[r] /\ handler'[r] = handler[r]
    /\ fsr_context'[r] = fsr_context[r] /\ fsr_encoder'[r] = fsr_encoder[r]
    /\ nwritten'[r] = nwritten[r]
    /\ r \in flushed' <=> r \in flushed
    /\ r \in fsr_blackhole' <=> r \in fsr_blackhole

LEMMA KeptMeans ==
    ASSUME NEW r \in Reqs, ResponseKept(r)
    PROVE  /\ ResponseLen(r)' = ResponseLen(r)
           /\ AllData(r) => AllData(r)'
           /\ \A status \in {"end", "error"} :
                ClosedBy(r, status) => ClosedBy(r, status)'
BY DEF ResponseKept, SameAs, ResponseLen, Length, AllData, Data, ClosedBy, Closed,
       Places, In

LEMMA UntouchedKeeps ==
    ASSUME NEW r \in Reqs, Stages(r), Untouched(r)
    PROVE  Stages(r)'
<1> USE DEF Untouched
<1>1. CASE NotMade(r)
    BY <1>1 DEF NotMade, ResponseKept, Stages
<1>2. CASE Open(r)
    BY <1>2, KeptMeans DEF Open, Stages
<1>3. CASE Ending(r)
    BY <1>3, KeptMeans DEF Ending, Stages
<1>4. CASE Ended(r)
    BY <1>4, KeptMeans DEF Ended, Stages
<1>5. CASE Failed(r)
    BY <1>5, KeptMeans DEF Failed, Stages
<1>6. CASE CutOff(r)
    BY <1>6, KeptMeans DEF CutOff, Stages
<1> QED
    BY <1>1, <1>2, <1>3, <1>4, <1>5, <1>6 DEF Stages

LEMMA LengthTypes ==
    ASSUME TypeOK, NEW r \in Reqs
    PROVE  ResponseLen(r) \in Nat /\ Len(fsr_encoder[r]) \in Nat
<1>1. /\ EncoderOf(r) \in Seq(Messages) /\ wire[r] \in Seq(Status)
      /\ fsr_encoder[r] \in Seq({"data", "end"})
    BY QueueTypes DEF TypeOK, PipeTypeOK
<1>2. Cardinality(Places(r)) \in Nat
    BY <1>1, InFinite DEF Places, In
<1> QED
    BY <1>1, <1>2 DEF ResponseLen

\* What is not over has no more messages than the handler wrote objects.
LEMMA AtMostWritten ==
    ASSUME TypeOK, NEW r \in Reqs, Open(r) \/ Ending(r) \/ CutOff(r)
    PROVE  AllData(r) /\ ResponseLen(r) <= nwritten[r]
<1>1. /\ ResponseLen(r) \in Nat /\ Len(fsr_encoder[r]) \in Nat
      /\ fsr_context[r] \in Nat /\ nwritten[r] \in Nat
      /\ fsr_encoder[r] \in Seq({"data", "end"})
    BY LengthTypes DEF TypeOK, PipeTypeOK
<1>2. CASE Open(r)
    BY <1>1, <1>2 DEF Open
<1>3. CASE Ending(r)
    BY <1>1, <1>3 DEF Ending
<1> QED
    BY <1>2, <1>3 DEF CutOff

\* Nothing moves.
LEMMA NothingMoves ==
    ASSUME UNCHANGED outVars
    PROVE  /\ \A r \in Reqs : fsr_conn'[r] = fsr_conn[r] => ResponseKept(r)
           /\ EncodersOK /\ fsr_conn' = fsr_conn => EncodersOK'
BY DEF outVars, EncoderOf, ResponseKept, SameAs, EncodersOK

\* The encoder of c is given another message of q.
Given(c, q, status) ==
    /\ fc_msgencoder' = [fc_msgencoder EXCEPT ![c] =
                            Append(@, [req |-> q, status |-> status])]
    /\ wire' = wire
    /\ fsr_conn'[q] = c
    /\ \A r \in Reqs \ {q} : fsr_conn'[r] = fsr_conn[r]

LEMMA GivenMeans ==
    ASSUME TypeOK, EncodersOK, NEW c \in Conns, NEW q \in Reqs,
           NEW status \in Status, fsr_conn[q] \in {c, None}, Given(c, q, status)
    PROVE  /\ \A r \in Reqs \ {q} : ResponseKept(r)
           /\ ResponseLen(q)' = ResponseLen(q) + 1
           /\ AllData(q) /\ status = "data" => AllData(q)'
           /\ AllData(q) => ClosedBy(q, status)'
           /\ EncodersOK'
<1> DEFINE m == [req |-> q, status |-> status]
           new == Append(fc_msgencoder[c], m)
<1>1. /\ m \in Messages /\ m.req = q
      /\ fc_msgencoder \in [Conns -> Seq(Messages)] /\ fc_msgencoder[c] \in Seq(Messages)
      /\ c # None
    BY QueueTypes, ServerAssumption DEF Messages
<1>2. /\ fc_msgencoder'[c] = new
      /\ \A d \in Conns \ {c} : fc_msgencoder'[d] = fc_msgencoder[d]
    BY <1>1 DEF Given
<1>3. ASSUME NEW r \in Reqs \ {q} PROVE ResponseKept(r)
  <2>1. /\ wire'[r] = wire[r] /\ fsr_conn'[r] = fsr_conn[r]
        /\ fsr_conn[r] \in Conns \cup {None} /\ wire[r] \in Seq(Status)
      BY QueueTypes DEF Given
  <2>2. CASE fsr_conn[r] = c
    <3>1. EncoderOf(r) = fc_msgencoder[c] /\ EncoderOf(r)' = new
        BY <1>1, <1>2, <2>1, <2>2 DEF EncoderOf
    <3>2. SameAs(wire[r], fc_msgencoder[c], wire[r], new, r)
        BY <1>1, <2>1, AppendOther
    <3> QED
        BY <2>1, <3>1, <3>2 DEF ResponseKept
  <2>3. CASE fsr_conn[r] # c
    <3>1. EncoderOf(r)' = EncoderOf(r)
        BY <1>2, <2>1, <2>3 DEF EncoderOf
    <3> QED
        BY <2>1, <3>1 DEF ResponseKept, SameAs
  <2> QED
      BY <2>2, <2>3
<1>4. /\ Length(wire[q], fc_msgencoder[c], q) = ResponseLen(q)
      /\ AllData(q) => Data(wire[q], fc_msgencoder[c], q)
  <2>1. CASE fsr_conn[q] = c
      BY <1>1, <2>1 DEF Length, ResponseLen, AllData, Data, Places, In, EncoderOf
  <2>2. CASE fsr_conn[q] = None
    <3>1. EncoderOf(q) = <<>> /\ Len(<<>>) = 0
        BY <2>2 DEF EncoderOf
    <3>2. Places(q) = {}
        BY <3>1 DEF Places
    <3>3. In(fc_msgencoder[c], q) = {}
        BY <1>1, <2>2 DEF In, EncodersOK
    <3> QED
        BY <3>2, <3>3 DEF Length, ResponseLen, AllData, Data
  <2> QED
      BY <2>1, <2>2
<1>5. wire'[q] = wire[q] /\ wire[q] \in Seq(Status) /\ EncoderOf(q)' = new
    BY <1>1, <1>2, QueueTypes DEF Given, EncoderOf
<1>6. /\ Length(wire[q], new, q) = Length(wire[q], fc_msgencoder[c], q) + 1
      /\ Data(wire[q], fc_msgencoder[c], q) /\ status = "data" => Data(wire[q], new, q)
      /\ Data(wire[q], fc_msgencoder[c], q) => Closed(wire[q], new, q, status)
  <2>1. m.status = status
      OBVIOUS
  <2> HIDE DEF m
  <2> QED
      BY <1>1, <1>5, <2>1, AppendOwn
<1>7. /\ ResponseLen(q)' = Length(wire[q], new, q)
      /\ Data(wire[q], new, q) => AllData(q)'
      /\ Closed(wire[q], new, q, status) => ClosedBy(q, status)'
  <2> HIDE DEF new
  <2> QED
      BY <1>5 DEF Length, ResponseLen, AllData, Data, ClosedBy, Closed, Places, In
<1>8. EncodersOK'
  <2> SUFFICES ASSUME NEW d \in Conns, NEW i \in 1 .. Len(fc_msgencoder'[d])
               PROVE  fsr_conn'[fc_msgencoder'[d][i].req] = d
      BY DEF EncodersOK
  <2>1. \A j \in 1 .. Len(fc_msgencoder[d]) :
            /\ fc_msgencoder[d][j].req \in Reqs
            /\ fsr_conn[fc_msgencoder[d][j].req] = d
            /\ fsr_conn'[fc_msgencoder[d][j].req] = d
    <3> SUFFICES ASSUME NEW j \in 1 .. Len(fc_msgencoder[d])
                 PROVE  /\ fc_msgencoder[d][j].req \in Reqs
                        /\ fsr_conn[fc_msgencoder[d][j].req] = d
                        /\ fsr_conn'[fc_msgencoder[d][j].req] = d
        OBVIOUS
    <3>1. fc_msgencoder[d] \in Seq(Messages)
        BY <1>1
    <3>2. fc_msgencoder[d][j] \in Messages
        BY <3>1
    <3>3. fc_msgencoder[d][j].req \in Reqs
        BY <3>2 DEF Messages
    <3>4. fsr_conn[fc_msgencoder[d][j].req] = d
        BY DEF EncodersOK
    <3>5. d # None
        BY ServerAssumption
    <3> QED
        BY <3>3, <3>4, <3>5 DEF Given
  <2>2. CASE d # c
      BY <1>2, <2>1, <2>2
  <2>3. CASE d = c
    <3>1. /\ Len(fc_msgencoder[c]) \in Nat /\ Len(new) = Len(fc_msgencoder[c]) + 1
          /\ new[Len(fc_msgencoder[c]) + 1] = m
          /\ \A j \in 1 .. Len(fc_msgencoder[c]) : new[j] = fc_msgencoder[c][j]
        BY <1>1
    <3>2. CASE i = Len(fc_msgencoder[c]) + 1
        BY <1>1, <1>2, <2>3, <3>1, <3>2 DEF Given
    <3>3. CASE i # Len(fc_msgencoder[c]) + 1
      <4>1. i \in 1 .. Len(fc_msgencoder[c])
          BY <1>2, <2>3, <3>1, <3>3
      <4> QED
          BY <1>2, <2>1, <2>3, <3>1, <4>1
    <3> QED
        BY <3>2, <3>3
  <2> QED
      BY <2>2, <2>3
<1> QED
    BY <1>3, <1>4, <1>6, <1>7, <1>8

\* The socket is given the next message of c's encoder.
LEMMA WrittenMeans ==
    ASSUME TypeOK, EncodersOK, NEW c \in Conns, SocketWrite(c)
    PROVE  /\ \A r \in Reqs : ResponseKept(r)
           /\ EncodersOK'
<1> DEFINE q == fc_msgencoder[c]
<1>1. /\ q \in Seq(Messages) /\ q # <<>> /\ c # None
      /\ fc_msgencoder \in [Conns -> Seq(Messages)]
    BY QueueTypes, ServerAssumption DEF SocketWrite
<1>2. /\ fc_msgencoder'[c] = Tail(q)
      /\ \A d \in Conns \ {c} : fc_msgencoder'[d] = fc_msgencoder[d]
    BY <1>1 DEF SocketWrite
<1>3. /\ Len(q) \in Nat /\ Len(q) >= 1 /\ Head(q) = q[1] /\ q[1] \in Messages
      /\ Len(Tail(q)) = Len(q) - 1
      /\ \A i \in 1 .. Len(Tail(q)) : Tail(q)[i] = q[i + 1]
    BY <1>1
<1>4. q[1].req \in Reqs /\ fsr_conn[q[1].req] = c
    BY <1>3 DEF Messages, EncodersOK
<1>5. /\ wire' = [wire EXCEPT ![q[1].req] = Append(@, q[1].status)]
      /\ fsr_conn' = fsr_conn
    BY <1>3 DEF SocketWrite, tableVars
<1> HIDE DEF q
<1>6. ASSUME NEW r \in Reqs PROVE ResponseKept(r)
  <2>1. /\ fsr_conn'[r] = fsr_conn[r] /\ wire[r] \in Seq(Status)
        /\ fsr_conn[r] \in Conns \cup {None}
      BY <1>5, QueueTypes
  <2>2. CASE r = q[1].req
    <3>1. wire'[r] = Append(wire[r], q[1].status)
        BY <1>4, <1>5, <2>2 DEF TypeOK, OutTypeOK
    <3>2. EncoderOf(r) = q /\ EncoderOf(r)' = Tail(q)
        BY <1>1, <1>2, <1>4, <2>1, <2>2 DEF EncoderOf, q
    <3>3. SameAs(wire[r], q, Append(wire[r], q[1].status), Tail(q), r)
        BY <1>1, <2>1, <2>2, TailOwn
    <3> QED
        BY <1>1, <1>4, <2>1, <2>2, <3>1, <3>2, <3>3 DEF ResponseKept
  <2>3. CASE r # q[1].req
    <3>1. wire'[r] = wire[r]
        BY <1>5, <2>3 DEF TypeOK, OutTypeOK
    <3>2. CASE fsr_conn[r] = c
      <4>1. EncoderOf(r) = q /\ EncoderOf(r)' = Tail(q)
          BY <1>1, <1>2, <2>1, <3>2 DEF EncoderOf, q
      <4>2. SameAs(wire[r], q, wire[r], Tail(q), r)
          BY <1>1, <2>1, <2>3, TailOther
      <4> QED
          BY <2>1, <3>1, <4>1, <4>2 DEF ResponseKept
    <3>3. CASE fsr_conn[r] # c
      <4>1. EncoderOf(r)' = EncoderOf(r)
          BY <1>2, <2>1, <3>3 DEF EncoderOf
      <4> QED
          BY <2>1, <3>1, <4>1 DEF ResponseKept, SameAs
    <3> QED
        BY <3>2, <3>3
  <2> QED
      BY <2>2, <2>3
<1>7. EncodersOK'
  <2> SUFFICES ASSUME NEW d \in Conns, NEW i \in 1 .. Len(fc_msgencoder'[d])
               PROVE  fsr_conn'[fc_msgencoder'[d][i].req] = d
      BY DEF EncodersOK
  <2>1. CASE d # c
      BY <1>2, <1>5, <2>1 DEF EncodersOK
  <2>2. CASE d = c
    <3>1. i \in 1 .. Len(Tail(q)) /\ fc_msgencoder'[d][i] = q[i + 1]
        BY <1>2, <1>3, <2>2
    <3>2. PICK j \in 1 .. Len(q) : j = i + 1
        BY <1>3, <3>1
    <3> QED
        BY <1>5, <2>2, <3>1, <3>2 DEF EncodersOK, q
  <2> QED
      BY <2>1, <2>2
<1> QED
    BY <1>6, <1>7

RInv == EncodersOK /\ PipelinesOK

\* A step that is about one request.
LEMMA OneRequest ==
    ASSUME PipelinesOK, NEW q \in Reqs, \A r \in Reqs \ {q} : Untouched(r),
           Stages(q)'
    PROVE  PipelinesOK'
BY UntouchedKeeps DEF PipelinesOK

\* Or about none.
LEMMA NoRequest ==
    ASSUME RInv, UNCHANGED <<outVars, pipeVars, handlerVars, fsr_state, fsr_conn>>
    PROVE  RInv'
<1>1. \A r \in Reqs : Untouched(r)
    BY NothingMoves DEF Untouched, pipeVars, handlerVars
<1> QED
    BY <1>1, NothingMoves, UntouchedKeeps DEF RInv, PipelinesOK

\* What is written to the socket stays the same response.
LEMMA SocketResponses ==
    ASSUME TypeOK, RInv, NEW c \in Conns, SocketWrite(c)
    PROVE  RInv'
<1>1. \A r \in Reqs : Untouched(r)
    BY WrittenMeans DEF Untouched, SocketWrite, tableVars, pipeVars, handlerVars, RInv
<1> QED
    BY <1>1, WrittenMeans, UntouchedKeeps DEF RInv, PipelinesOK
-----------------------------------------------------------------------------
(* Actions *)

\* requestDisconnect() leaves what the connection has of a response, and adds
\* nothing to it.
LEMMA CutResponses ==
    ASSUME TypeOK, RequestsOK, RInv, NEW C \in SUBSET Conns, AbandonConns(C),
           UNCHANGED <<tableVars, outVars, handlerVars>>
    PROVE  RInv'
<1> DEFINE R == RequestsOf(C)
<1>1. \A r \in R : r \in Reqs /\ fsr_state[r] = "RUNNING"
    BY NowPending DEF RequestsOf
<1>2. /\ fsr_blackhole' = fsr_blackhole \cup R
      /\ fsr_context' = [r \in Reqs |-> IF r \in R THEN 0 ELSE fsr_context[r]]
      /\ fsr_encoder' = [r \in Reqs |-> IF r \in R THEN <<>> ELSE fsr_encoder[r]]
      /\ flushed' = flushed
    BY DEF AbandonConns, RequestDisconnect
<1> HIDE DEF R
<1>3. /\ EncodersOK'
      /\ \A r \in Reqs : ResponseKept(r) /\ fsr_state'[r] = fsr_state[r]
                         /\ handler'[r] = handler[r] /\ nwritten'[r] = nwritten[r]
    BY NothingMoves DEF tableVars, handlerVars, RInv
<1>4. ASSUME NEW r \in Reqs \ R PROVE Stages(r)'
  <2>1. Untouched(r)
      BY <1>2, <1>3, <1>4 DEF Untouched
  <2> QED
      BY <2>1, UntouchedKeeps DEF RInv, PipelinesOK
<1>5. ASSUME NEW r \in R PROVE Stages(r)'
  <2>1. /\ r \in Reqs /\ fsr_state'[r] = "RUNNING" /\ r \in fsr_blackhole'
        /\ fsr_context'[r] = 0 /\ fsr_encoder'[r] = <<>>
        /\ fsr_state[r] = "RUNNING" /\ Stages(r)
      BY <1>1, <1>2, <1>3, <1>5 DEF RInv, PipelinesOK
  <2>2. CASE AllData(r) /\ ResponseLen(r) <= nwritten[r]
      BY <1>3, <2>1, <2>2, KeptMeans DEF CutOff, Stages
  <2>3. CASE Ended(r)
      BY <1>2, <1>3, <2>1, <2>3, KeptMeans DEF Ended, Stages
  <2>4. CASE Open(r) \/ Ending(r)
      BY <2>1, <2>2, <2>4, AtMostWritten DEF IInv
  <2> QED
      BY <2>1, <2>2, <2>3, <2>4 DEF Stages, NotMade, Failed, CutOff
<1> QED
    BY <1>3, <1>4, <1>5 DEF RInv, PipelinesOK

\* A call that starts running has an empty response.
LEMMA StartResponses ==
    ASSUME IInv, RInv, NEW c \in Conns, StartCall(c)
    PROVE  RInv'
<1>1. PICK n \in Reqs : n = fs_nrequests_started + 1
    BY NextCall DEF StartCall, IInv
<1>2. fsr_state[n] = "none" /\ handler[n] = "none" /\ n \notin fsr_blackhole
    BY <1>1, NextIsNew DEF IInv
<1>3. NotMade(n)
    BY <1>2 DEF RInv, PipelinesOK, Stages, Open, Ending, Ended, Failed, CutOff
<1>4. /\ fsr_state' = [fsr_state EXCEPT ![n] = "RUNNING"]
      /\ fsr_conn' = [fsr_conn EXCEPT ![n] = c]
      /\ handler' = [handler EXCEPT ![n] = "running"]
      /\ UNCHANGED <<pipeVars, outVars, nwritten>>
    BY <1>1 DEF StartCall, NewRequest
<1>5. /\ fsr_state \in [Reqs -> States] /\ fsr_conn \in [Reqs -> Conns \cup {None}]
      /\ DOMAIN handler = Reqs /\ c # None
      /\ fc_msgencoder \in [Conns -> Seq(Messages)]
    BY QueueTypes, ServerAssumption DEF IInv, TypeOK, TableTypeOK, PipeTypeOK
<1>6. \A i \in 1 .. Len(fc_msgencoder[c]) : fc_msgencoder[c][i].req # n
    BY <1>3, <1>5 DEF RInv, EncodersOK, NotMade
<1>7. EncodersOK'
  <2> SUFFICES ASSUME NEW d \in Conns, NEW i \in 1 .. Len(fc_msgencoder[d])
               PROVE  fsr_conn'[fc_msgencoder[d][i].req] = d
      BY <1>4 DEF EncodersOK, outVars
  <2>1. fsr_conn[fc_msgencoder[d][i].req] = d /\ d # None
      BY ServerAssumption DEF RInv, EncodersOK
  <2> QED
      BY <1>3, <1>4, <1>5, <2>1 DEF NotMade
<1>8. \A r \in Reqs \ {n} : Untouched(r)
    BY <1>4, <1>5, NothingMoves DEF Untouched, pipeVars
<1>9. Stages(n)'
  <2>1. /\ fsr_state'[n] = "RUNNING" /\ n \notin fsr_blackhole' \cup flushed'
        /\ wire'[n] = <<>> /\ fsr_encoder'[n] = <<>> /\ fsr_context'[n] = 0
        /\ nwritten'[n] = 0 /\ Len(<<>>) = 0
        /\ EncoderOf(n)' = fc_msgencoder[c]
      BY <1>2, <1>3, <1>4, <1>5 DEF NotMade, pipeVars, outVars, EncoderOf
  <2>2. Places(n)' = {}
      BY <1>6, <2>1 DEF Places
  <2>3. AllData(n)' /\ ResponseLen(n)' = 0
      BY <2>1, <2>2, FS_EmptySet DEF AllData, ResponseLen
  <2> QED
      BY <2>1, <2>3 DEF Open, Stages
<1> QED
    BY <1>7, <1>8, <1>9, OneRequest DEF RInv

\* A call that is rejected has an ERROR for a response.
LEMMA RejectResponses ==
    ASSUME IInv, RInv, NEW c \in Conns, RejectCall(c)
    PROVE  RInv'
<1>1. CASE UNCHANGED <<tableVars, pipeVars, fc_msgencoder>>
    BY <1>1, NoRequest
       DEF RejectCall, TakesMessage, outVars, tableVars, handlerVars
<1>2. CASE /\ NewRequest(c, "COMPLETE")
           /\ fc_msgencoder' = [fc_msgencoder EXCEPT ![c] =
                   Append(@, [req |-> fs_nrequests_started + 1,
                              status |-> "error"])]
           /\ UNCHANGED pipeVars
  <2>1. PICK n \in Reqs : n = fs_nrequests_started + 1
      BY NextCall DEF RejectCall, TakesMessage, IInv
  <2>2. fsr_state[n] = "none" /\ handler[n] = "none" /\ n \notin fsr_blackhole
      BY <2>1, NextIsNew DEF IInv
  <2>3. NotMade(n)
      BY <2>2 DEF RInv, PipelinesOK, Stages, Open, Ending, Ended, Failed, CutOff
  <2>4. /\ fsr_state' = [fsr_state EXCEPT ![n] = "COMPLETE"]
        /\ fsr_conn' = [fsr_conn EXCEPT ![n] = c]
        /\ UNCHANGED <<pipeVars, wire, handlerVars>>
      BY <1>2, <2>1 DEF NewRequest, RejectCall, TakesMessage
  <2>5. /\ fsr_state \in [Reqs -> States] /\ fsr_conn \in [Reqs -> Conns \cup {None}]
      BY DEF IInv, TypeOK, TableTypeOK
  <2>6. Given(c, n, "error") /\ fsr_conn[n] \in {c, None}
      BY <1>2, <2>1, <2>3, <2>4, <2>5 DEF Given, NotMade
  <2>7. AllData(n) /\ ResponseLen(n) = 0
    <3>1. EncoderOf(n) = <<>> /\ wire[n] = <<>> /\ Len(<<>>) = 0
        BY <2>3 DEF NotMade, EncoderOf
    <3>2. Places(n) = {}
        BY <3>1 DEF Places
    <3> QED
        BY <3>1, <3>2, FS_EmptySet DEF AllData, ResponseLen
  <2>8. /\ EncodersOK' /\ ClosedBy(n, "error")' /\ ResponseLen(n)' = 1
        /\ \A r \in Reqs \ {n} : ResponseKept(r)
      BY <2>6, <2>7, GivenMeans DEF RInv, IInv, Status
  <2>9. \A r \in Reqs \ {n} : Untouched(r)
      BY <2>4, <2>5, <2>8 DEF Untouched, pipeVars, handlerVars
  <2>10. Stages(n)'
    <3>1. /\ fsr_state'[n] = "COMPLETE" /\ handler'[n] = "none"
          /\ fsr_encoder'[n] = <<>> /\ nwritten'[n] = 0
        BY <2>3, <2>4, <2>5 DEF NotMade, pipeVars, handlerVars
    <3> QED
        BY <2>8, <3>1 DEF Failed, Stages
  <2> QED
      BY <2>8, <2>9, <2>10, OneRequest DEF RInv
<1> QED
    BY <1>1, <1>2 DEF RejectCall

\* An object written goes in at the head of the pipeline, if that is whole.
LEMMA WriteResponses ==
    ASSUME IInv, RInv, NEW r \in Reqs, HandlerWrite(r)
    PROVE  RInv'
<1>1. /\ nwritten' = [nwritten EXCEPT ![r] = @ + 1]
      /\ fsr_context' = IF r \in fsr_blackhole THEN fsr_context
                        ELSE [fsr_context EXCEPT ![r] = @ + 1]
      /\ handler[r] \in {"running", "failed"}
      /\ UNCHANGED <<outVars, fsr_state, fsr_conn, handler, fsr_blackhole,
                     fsr_encoder, flushed>>
    BY DEF HandlerWrite, tableVars
<1>2. nwritten \in [Reqs -> Nat] /\ fsr_context \in [Reqs -> Nat]
    BY DEF IInv, TypeOK, PipeTypeOK
<1>3. EncodersOK' /\ \A q \in Reqs : ResponseKept(q)
    BY <1>1, NothingMoves DEF RInv
<1>4. \A q \in Reqs \ {r} : Untouched(q)
    BY <1>1, <1>2, <1>3 DEF Untouched
<1>5. Stages(r)
    BY DEF RInv, PipelinesOK
<1>6. /\ ResponseLen(r) \in Nat /\ nwritten[r] \in Nat
      /\ nwritten'[r] = nwritten[r] + 1
    BY <1>1, <1>2, LengthTypes DEF IInv
<1>7. CASE Open(r)
  <2>1. /\ ResponseLen(r) \in Nat /\ Len(fsr_encoder[r]) \in Nat
        /\ nwritten'[r] = nwritten[r] + 1 /\ fsr_context'[r] = fsr_context[r] + 1
        /\ nwritten[r] \in Nat /\ fsr_context[r] \in Nat
      BY <1>1, <1>2, <1>7, LengthTypes DEF Open, IInv
  <2>2. Open(r)'
      BY <1>1, <1>3, <1>7, <2>1, KeptMeans DEF Open
  <2> QED
      BY <1>3, <1>4, <2>2, OneRequest DEF RInv, Stages
<1>8. CASE Failed(r)
  <2>1. Failed(r)'
      BY <1>1, <1>3, <1>8, KeptMeans, <1>6 DEF Failed
  <2> QED
      BY <1>3, <1>4, <2>1, OneRequest DEF RInv, Stages
<1>9. CASE CutOff(r)
  <2>1. CutOff(r)'
      BY <1>1, <1>3, <1>9, KeptMeans, <1>6 DEF CutOff
  <2> QED
      BY <1>3, <1>4, <2>1, OneRequest DEF RInv, Stages
<1> QED
    BY <1>1, <1>5, <1>7, <1>8, <1>9 DEF Stages, NotMade, Ending, Ended

\* A handler that says it is done, adds nothing.
LEMMA EndResponses ==
    ASSUME IInv, RInv, NEW r \in Reqs, HandlerEnd(r)
    PROVE  RInv'
<1>1. /\ handler[r] = "running" /\ handler' = [handler EXCEPT ![r] = "ended"]
      /\ UNCHANGED <<outVars, pipeVars, fsr_state, fsr_conn, nwritten>>
    BY DEF HandlerEnd, tableVars
<1>2. EncodersOK' /\ \A q \in Reqs : ResponseKept(q)
    BY <1>1, NothingMoves DEF RInv
<1>3. \A q \in Reqs \ {r} : Untouched(q)
    BY <1>1, <1>2 DEF Untouched, pipeVars
<1>4. Stages(r)'
  <2>1. Open(r) \/ CutOff(r)
      BY <1>1 DEF RInv, PipelinesOK, Stages, NotMade, Ending, Ended, Failed
  <2> QED
      BY <1>1, <1>2, <2>1, KeptMeans DEF Open, CutOff, Stages, pipeVars
<1> QED
    BY <1>2, <1>3, <1>4, OneRequest DEF RInv

\* fail() closes the response and takes the rest of the pipeline from it.
LEMMA FailResponses ==
    ASSUME IInv, RInv, NEW r \in Reqs, HandlerFail(r)
    PROVE  RInv'
<1>1. CASE Crashes
    BY <1>1, NoRequest DEF Crashes, Crash, outVars, tableVars
<1>2. CASE CleanupAsserts(r)
  <2>1. /\ handler[r] = "running" /\ handler' = [handler EXCEPT ![r] = "failed"]
        /\ fc_msgencoder' = [fc_msgencoder EXCEPT ![fsr_conn[r]] =
                                Append(@, [req |-> r, status |-> "error"])]
        /\ fsr_encoder' = [fsr_encoder EXCEPT ![r] = <<>>]
        /\ fsr_state' = [fsr_state EXCEPT ![r] = "COMPLETE"]
        /\ UNCHANGED <<wire, fsr_conn, fsr_blackhole, fsr_context, flushed,
                       nwritten>>
      BY <1>2 DEF HandlerFail, RequestCleanup, Unpiped
  <2>2. PICK c \in Conns : c = fsr_conn[r]
      BY <2>1 DEF IInv, Accounts, RequestsOK, Agree
  <2>3. /\ DOMAIN fsr_state = Reqs /\ DOMAIN fsr_encoder = Reqs
        /\ DOMAIN handler = Reqs
      BY DEF IInv, TypeOK, TableTypeOK, PipeTypeOK
  <2>4. AllData(r) /\ ResponseLen(r) <= nwritten[r]
      BY <2>1, AtMostWritten DEF RInv, PipelinesOK, Stages, NotMade, Ended, Failed,
                                 IInv
  <2>5. Given(c, r, "error")
      BY <2>1, <2>2 DEF Given
  <2>6. /\ EncodersOK' /\ ClosedBy(r, "error")'
        /\ ResponseLen(r)' = ResponseLen(r) + 1
        /\ \A q \in Reqs \ {r} : ResponseKept(q)
      BY <2>2, <2>4, <2>5, GivenMeans DEF RInv, IInv, Status
  <2>7. \A q \in Reqs \ {r} : Untouched(q)
      BY <2>1, <2>6 DEF Untouched
  <2>8. Stages(r)'
    <3>1. ResponseLen(r) \in Nat /\ nwritten[r] \in Nat
        BY LengthTypes DEF IInv, TypeOK, PipeTypeOK
    <3> QED
        BY <2>1, <2>3, <2>4, <2>6, <3>1 DEF Failed, Stages
  <2> QED
      BY <2>6, <2>7, <2>8, OneRequest DEF RInv
<1> QED
    BY <1>1, <1>2 DEF HandlerFail, Crashes

\* An object becomes a message, or is lost if the request is over.
LEMMA TransformResponses ==
    ASSUME IInv, RInv, NEW r \in Reqs, Transform(r)
    PROVE  RInv'
<1>1. /\ fsr_context[r] > 0 /\ fsr_context' = [fsr_context EXCEPT ![r] = @ - 1]
      /\ fsr_encoder' = IF fsr_state[r] # "RUNNING" THEN fsr_encoder
                        ELSE [fsr_encoder EXCEPT ![r] = Append(@, "data")]
      /\ UNCHANGED <<outVars, handlerVars, fsr_state, fsr_conn, fsr_blackhole,
                     flushed>>
    BY DEF Transform, tableVars
<1>2. /\ fsr_context \in [Reqs -> Nat] /\ fsr_encoder \in [Reqs -> Seq({"data", "end"})]
      /\ nwritten \in [Reqs -> Nat]
    BY DEF IInv, TypeOK, PipeTypeOK
<1>3. EncodersOK' /\ \A q \in Reqs : ResponseKept(q)
    BY <1>1, NothingMoves DEF RInv
<1>4. \A q \in Reqs \ {r} : Untouched(q)
    BY <1>1, <1>2, <1>3 DEF Untouched, handlerVars
<1>5. Open(r) \/ Failed(r)
    BY <1>1 DEF RInv, PipelinesOK, Stages, NotMade, Ending, Ended, CutOff
<1>6. CASE Failed(r)
  <2>1. Failed(r)'
      BY <1>1, <1>3, <1>6, KeptMeans DEF Failed, handlerVars
  <2> QED
      BY <1>3, <1>4, <2>1, OneRequest DEF RInv, Stages
<1>7. CASE Open(r)
  <2> DEFINE s == fsr_encoder[r]
             t == Append(s, "data")
  <2>1. /\ s \in Seq({"data", "end"}) /\ fsr_encoder'[r] = t
        /\ fsr_context'[r] = fsr_context[r] - 1 /\ fsr_context[r] \in Nat
        /\ nwritten[r] \in Nat /\ ResponseLen(r) \in Nat
      BY <1>1, <1>2, <1>7, LengthTypes DEF Open, IInv
  <2>2. /\ Len(s) \in Nat /\ Len(t) = Len(s) + 1 /\ t[Len(s) + 1] = "data"
        /\ \A i \in 1 .. Len(s) : t[i] = s[i]
      BY <2>1
  <2>3. \A i \in 1 .. Len(t) : t[i] = "data"
      BY <1>7, <2>2 DEF Open
  <2> HIDE DEF t
  <2>4. /\ ResponseLen(r)' = ResponseLen(r) /\ AllData(r)'
        /\ ResponseLen(r) + Len(s) + fsr_context[r] = nwritten[r]
      BY <1>3, <1>7, KeptMeans DEF Open
  <2>5. Open(r)'
      BY <1>1, <1>7, <2>1, <2>2, <2>3, <2>4 DEF Open, handlerVars
  <2> QED
      BY <1>3, <1>4, <2>5, OneRequest DEF RInv, Stages
<1> QED
    BY <1>5, <1>6, <1>7

\* The END follows the last object.
LEMMA FlushResponses ==
    ASSUME IInv, RInv, NEW r \in Reqs, Flush(r)
    PROVE  RInv'
<1>1. /\ handler[r] = "ended" /\ fsr_context[r] = 0
      /\ r \notin fsr_blackhole \cup flushed /\ flushed' = flushed \cup {r}
      /\ fsr_encoder' = IF fsr_state[r] # "RUNNING" THEN fsr_encoder
                        ELSE [fsr_encoder EXCEPT ![r] = Append(@, "end")]
      /\ UNCHANGED <<outVars, handlerVars, fsr_state, fsr_conn, fsr_blackhole,
                     fsr_context>>
    BY DEF Flush, Drained, tableVars
<1>2. /\ fsr_encoder \in [Reqs -> Seq({"data", "end"})]
      /\ nwritten \in [Reqs -> Nat] /\ fsr_context \in [Reqs -> Nat]
    BY DEF IInv, TypeOK, PipeTypeOK
<1>3. EncodersOK' /\ \A q \in Reqs : ResponseKept(q)
    BY <1>1, NothingMoves DEF RInv
<1>4. \A q \in Reqs \ {r} : Untouched(q)
    BY <1>1, <1>2, <1>3 DEF Untouched, handlerVars
<1>5. Open(r)
    BY <1>1 DEF RInv, PipelinesOK, Stages, NotMade, Ending, Ended, Failed, CutOff
<1> DEFINE s == fsr_encoder[r]
           t == Append(s, "end")
<1>6. /\ s \in Seq({"data", "end"}) /\ fsr_encoder'[r] = t
      /\ nwritten[r] \in Nat /\ ResponseLen(r) \in Nat
    BY <1>1, <1>2, <1>5, LengthTypes DEF Open, IInv
<1>7. /\ Len(s) \in Nat /\ Len(t) = Len(s) + 1 /\ t[Len(s) + 1] = "end"
      /\ t # <<>> /\ \A i \in 1 .. Len(s) : t[i] = s[i]
    BY <1>6
<1>8. \A i \in 1 .. Len(t) : t[i] = IF i = Len(t) THEN "end" ELSE "data"
    BY <1>5, <1>7 DEF Open
<1> HIDE DEF t
<1>9. /\ ResponseLen(r)' = ResponseLen(r) /\ AllData(r)'
      /\ ResponseLen(r) + Len(s) + fsr_context[r] = nwritten[r]
    BY <1>3, <1>5, KeptMeans DEF Open
<1>10. Ending(r)'
  <2>1. ResponseLen(r)' + Len(t) = nwritten'[r] + 1
      BY <1>1, <1>6, <1>7, <1>9 DEF handlerVars
  <2>2. /\ fsr_state'[r] = "RUNNING" /\ r \in flushed' \ fsr_blackhole'
        /\ handler'[r] = "ended" /\ fsr_context'[r] = 0
      BY <1>1, <1>5 DEF Open, handlerVars
  <2> QED
      BY <1>6, <1>7, <1>8, <1>9, <2>1, <2>2 DEF Ending
<1> QED
    BY <1>3, <1>4, <1>10, OneRequest DEF RInv, Stages

\* A message that the request's encoder hands on is the response's next.
LEMMA PipeResponses ==
    ASSUME IInv, RInv, NEW r \in Reqs, Pipe(r)
    PROVE  RInv'
<1> DEFINE s == fsr_encoder[r]
           t == Tail(s)
<1>1. /\ s # <<>>
      /\ fc_msgencoder' = [fc_msgencoder EXCEPT ![fsr_conn[r]] =
                              Append(@, [req |-> r, status |-> Head(s)])]
      /\ fsr_encoder' = [fsr_encoder EXCEPT ![r] = t]
      /\ UNCHANGED <<wire, handlerVars, fsr_state, fsr_conn, fsr_blackhole,
                     fsr_context, flushed>>
    BY DEF Pipe, tableVars
<1>2. /\ fsr_encoder \in [Reqs -> Seq({"data", "end"})]
      /\ nwritten \in [Reqs -> Nat] /\ fsr_context \in [Reqs -> Nat]
    BY DEF IInv, TypeOK, PipeTypeOK
<1>3. Open(r) \/ Ending(r)
    BY <1>1 DEF RInv, PipelinesOK, Stages, NotMade, Ended, Failed, CutOff
<1>4. PICK c \in Conns : c = fsr_conn[r]
    BY <1>3 DEF Open, Ending, IInv, Accounts, RequestsOK, Agree
<1>5. /\ s \in Seq({"data", "end"}) /\ fsr_encoder'[r] = t
      /\ nwritten[r] \in Nat /\ fsr_context[r] \in Nat /\ ResponseLen(r) \in Nat
    BY <1>1, <1>2, LengthTypes DEF IInv
<1>6. /\ Len(s) \in Nat \ {0} /\ Len(t) = Len(s) - 1 /\ Head(s) = s[1]
      /\ s[1] \in {"data", "end"} /\ t \in Seq({"data", "end"})
      /\ \A i \in 1 .. Len(t) : t[i] = s[i + 1]
    BY <1>1, <1>5
<1> HIDE DEF s, t
<1>7. PICK status \in Status : status = s[1]
    BY <1>6 DEF Status
<1>8. Given(c, r, status)
    BY <1>1, <1>4, <1>6, <1>7 DEF Given
<1>9. AllData(r)
    BY <1>3 DEF Open, Ending
<1>10. /\ EncodersOK' /\ \A q \in Reqs \ {r} : ResponseKept(q)
       /\ ResponseLen(r)' = ResponseLen(r) + 1
       /\ status = "data" => AllData(r)'
       /\ ClosedBy(r, status)'
    BY <1>4, <1>8, <1>9, GivenMeans DEF RInv, IInv
<1>11. \A q \in Reqs \ {r} : Untouched(q)
    BY <1>1, <1>2, <1>10 DEF Untouched, handlerVars
<1>12. ResponseLen(r)' + Len(t) = ResponseLen(r) + Len(s)
    BY <1>5, <1>6, <1>10
<1>13. CASE Open(r)
  <2>1. status = "data"
      BY <1>6, <1>7, <1>13 DEF Open, s
  <2>2. \A i \in 1 .. Len(t) : t[i] = "data"
    <3> SUFFICES ASSUME NEW i \in 1 .. Len(t) PROVE t[i] = "data"
        OBVIOUS
    <3>1. PICK j \in 1 .. Len(s) : j = i + 1
        BY <1>6
    <3> QED
        BY <1>6, <1>13, <3>1 DEF Open, s
  <2>3. ResponseLen(r)' + Len(t) + fsr_context'[r] = nwritten'[r]
    <3>1. ResponseLen(r) + Len(s) + fsr_context[r] = nwritten[r]
        BY <1>13 DEF Open, s
    <3> QED
        BY <1>1, <1>12, <3>1 DEF handlerVars
  <2>4. Open(r)'
      BY <1>1, <1>5, <1>10, <1>13, <2>1, <2>2, <2>3 DEF Open
  <2> QED
      BY <1>10, <1>11, <2>4, OneRequest DEF RInv, Stages
<1>14. CASE Ending(r)
  <2>1. /\ \A i \in 1 .. Len(s) : s[i] = IF i = Len(s) THEN "end" ELSE "data"
        /\ ResponseLen(r) + Len(s) = nwritten[r] + 1
        /\ fsr_state[r] = "RUNNING" /\ r \in flushed \ fsr_blackhole
        /\ handler[r] = "ended" /\ fsr_context[r] = 0
      BY <1>14 DEF Ending, s
  <2>2. /\ ResponseLen(r)' + Len(t) = nwritten'[r] + 1
        /\ fsr_state'[r] = "RUNNING" /\ r \in flushed' \ fsr_blackhole'
        /\ handler'[r] = "ended" /\ fsr_context'[r] = 0
      BY <1>1, <1>12, <2>1 DEF handlerVars
  <2>3. CASE Len(s) = 1
    <3>1. status = "end" /\ Len(t) = 0 /\ t = <<>>
        BY <1>6, <1>7, <2>1, <2>3
    <3>2. ResponseLen(r)' = nwritten'[r] + 1
        BY <1>5, <1>10, <2>2, <3>1
    <3>3. Ended(r)'
        BY <1>5, <1>10, <2>2, <3>1, <3>2 DEF Ended
    <3> QED
        BY <1>10, <1>11, <3>3, OneRequest DEF RInv, Stages
  <2>4. CASE Len(s) # 1
    <3>1. status = "data" /\ t # <<>>
        BY <1>6, <1>7, <2>1, <2>4
    <3>2. \A i \in 1 .. Len(t) : t[i] = IF i = Len(t) THEN "end" ELSE "data"
      <4> SUFFICES ASSUME NEW i \in 1 .. Len(t)
                   PROVE  t[i] = IF i = Len(t) THEN "end" ELSE "data"
          OBVIOUS
      <4>1. PICK j \in 1 .. Len(s) : j = i + 1
          BY <1>6
      <4>2. i = Len(t) <=> j = Len(s)
          BY <1>6, <4>1
      <4> QED
          BY <1>6, <2>1, <4>1, <4>2
    <3>3. Ending(r)'
        BY <1>5, <1>10, <2>2, <3>1, <3>2 DEF Ending
    <3> QED
        BY <1>10, <1>11, <3>3, OneRequest DEF RInv, Stages
  <2> QED
      BY <2>3, <2>4
<1> QED
    BY <1>3, <1>13, <1>14

\* A request completes with its END handed on, or cut off.
LEMMA CompleteResponses ==
    ASSUME IInv, RInv, NEW r \in Reqs, RequestComplete(r)
    PROVE  RInv'
<1>1. CASE Crashes
    BY <1>1, NoRequest DEF Crashes, Crash, outVars, tableVars
<1>2. CASE fsr_state[r] = "RUNNING" /\ CleanupAsserts(r)
  <2>1. /\ handler[r] = "ended" /\ handler' = [handler EXCEPT ![r] = "finished"]
        /\ fsr_state' = [fsr_state EXCEPT ![r] = "COMPLETE"]
        /\ EndReachesServer(r)
        /\ UNCHANGED <<outVars, pipeVars, fsr_conn, nwritten>>
      BY <1>2 DEF RequestComplete, RequestCleanup
  <2>2. /\ DOMAIN fsr_state = Reqs /\ DOMAIN handler = Reqs
      BY DEF IInv, TypeOK, TableTypeOK, PipeTypeOK
  <2>3. EncodersOK' /\ \A q \in Reqs : ResponseKept(q)
      BY <2>1, NothingMoves DEF RInv
  <2>4. \A q \in Reqs \ {r} : Untouched(q)
      BY <2>1, <2>3 DEF Untouched, pipeVars
  <2>5. Ended(r) \/ CutOff(r)
      BY <1>2, <2>1 DEF RInv, PipelinesOK, Stages, NotMade, Open, Ending, Failed,
                        EndReachesServer
  <2>6. fsr_state'[r] = "COMPLETE" /\ handler'[r] = "finished"
      BY <2>1, <2>2
  <2>7. Stages(r)'
    <3>1. CASE Ended(r)
        BY <2>1, <2>3, <2>6, <3>1, KeptMeans DEF Ended, Stages, pipeVars
    <3>2. CASE CutOff(r)
        BY <2>1, <2>3, <2>6, <3>2, KeptMeans DEF CutOff, Stages, pipeVars
    <3> QED
        BY <2>5, <3>1, <3>2
  <2> QED
      BY <2>3, <2>4, <2>7, OneRequest DEF RInv
<1> QED
    BY <1>1, <1>2 DEF RequestComplete, Crashes
-----------------------------------------------------------------------------
\* Connections come and go, and cut the pipelines of their requests.
LEMMA ConnectionResponses ==
    ASSUME IInv, RInv, NEW c \in Conns,
           ConnCreate(c) \/ OnConnectionEnd(c) \/ OnConnectionError(c)
    PROVE  RInv'
<1>1. CASE Crashes
    BY <1>1, NoRequest DEF Crashes, Crash, outVars, tableVars
<1>2. CASE ConnCreate(c) \/ OnConnectionEnd(c)
    BY <1>1, <1>2, NoRequest DEF ConnCreate, OnConnectionEnd, Crashes, tableVars
<1>3. CASE /\ AbandonConns({c} \ fc_server_error)
           /\ UNCHANGED <<tableVars, outVars, handlerVars>>
    BY <1>3, CutResponses DEF IInv, Accounts
<1>4. CASE OnConnectionError(c)
    BY <1>1, <1>3, <1>4 DEF OnConnectionError, Crashes
<1> QED
    BY <1>2, <1>4

\* So does close(); its callbacks have nothing to do with responses.
LEMMA ApiResponses ==
    ASSUME IInv, RInv,
           Close \/ RunImmediate
           \/ \E callback \in Callbacks : OnConnsDestroyed(callback)
    PROVE  RInv'
<1>1. CASE Crashes
    BY <1>1, NoRequest DEF Crashes, Crash, outVars, tableVars
<1>2. CASE RunImmediate \/ \E callback \in Callbacks : OnConnsDestroyed(callback)
    BY <1>2, NoRequest DEF RunImmediate, OnConnsDestroyed, tableVars
<1>3. CASE ConnTerminate(fs_conns) /\ UNCHANGED <<tableVars, outVars, handlerVars>>
  <2>1. fs_conns \ (fc_server_error \cup fc_socket_error) \in SUBSET Conns
      BY DEF IInv, TypeOK, ConnTypeOK
  <2> QED
      BY <1>3, <2>1, CutResponses DEF ConnTerminate, IInv, Accounts
<1>4. CASE Close
    BY <1>1, <1>3, <1>4 DEF Close, Crashes
<1> QED
    BY <1>2, <1>4

\* Messages start requests, fail them at once, or cut pipelines too.
LEMMA MessageResponses ==
    ASSUME IInv, RInv, NEW c \in Conns, OnMessage(c)
    PROVE  RInv'
<1>1. CASE DropMessage(c)
    BY <1>1, NoRequest
       DEF DropMessage, TakesMessage, outVars, tableVars
<1>2. CASE RejectMessage(c)
  <2>1. CASE UNCHANGED <<tableVars, pipeVars, fc_msgencoder>>
      BY <1>2, <2>1, NoRequest
         DEF RejectMessage, TakesMessage, outVars, tableVars
  <2>2. CASE ConnTerminate({c}) /\ UNCHANGED <<tableVars, fc_msgencoder>>
    <3>1. UNCHANGED <<outVars, handlerVars>>
        BY <1>2, <2>2 DEF RejectMessage, TakesMessage, outVars
    <3> QED
        BY <2>2, <3>1, CutResponses DEF ConnTerminate, IInv, Accounts
  <2> QED
      BY <1>2, <2>1, <2>2 DEF RejectMessage
<1> QED
    BY <1>1, <1>2, RejectResponses, StartResponses DEF OnMessage

\* No step leaves a response ill-formed.
LEMMA StepResponses ==
    ASSUME IInv, RInv, [Next]_vars
    PROVE  RInv'
<1>1. ASSUME NEW c \in Conns, ClientSends(c) \/ SocketClosed(c) \/ InputFails(c)
      PROVE  RInv'
    BY <1>1, NoRequest
       DEF ClientSends, SocketClosed, InputFails, Crash, outVars, tableVars
<1>2. CASE UNCHANGED vars
    BY <1>2, NoRequest DEF vars, tableVars
<1>3. ASSUME NEW r \in Reqs, PipelineStep(r) PROVE RInv'
    BY <1>3, TransformResponses, FlushResponses, PipeResponses, CompleteResponses
       DEF PipelineStep
<1> QED
    BY <1>1, <1>2, <1>3, ApiResponses, ConnectionResponses, MessageResponses,
       SocketResponses, WriteResponses, EndResponses, FailResponses
       DEF Next, IInv

LEMMA InitResponses == Init => RInv
<1> SUFFICES ASSUME Init PROVE RInv
    OBVIOUS
<1>1. EncodersOK
    BY DEF Init, EncodersOK
<1>2. \A r \in Reqs : NotMade(r)
    BY DEF Init, NotMade
<1> QED
    BY <1>1, <1>2 DEF RInv, PipelinesOK, Stages

\* The stages of the requests and what their responses have then, in every
\* behaviour.
THEOREM ResponseInvariance == Spec => []RInv
<1>1. IInv /\ RInv /\ [Next]_vars => RInv'
    BY StepResponses
<1> QED
    BY <1>1, InitResponses, Invariance, PTL DEF Spec

\* Whatever handlers, clients and sockets do, and whenever fail(), close(), an
\* end or an error comes in: a response is DATA messages and then one END, after
\* every object the handler wrote, or one ERROR, and nothing more; and only a
\* request that was cut off completes without one.
THEOREM ResponsesAreWellFormed == Spec => []ResponsesWellFormed
<1>1. IInv /\ RInv => ResponsesWellFormed
  <2> SUFFICES ASSUME IInv, RInv, NEW r \in Reqs
               PROVE  /\ AllData(r) \/ ClosedBy(r, "end") \/ ClosedBy(r, "error")
                      /\ fsr_state[r] = "COMPLETE" /\ r \notin fsr_blackhole
                            => ~AllData(r)
                      /\ ClosedBy(r, "end") => ResponseLen(r) = nwritten[r] + 1
                      /\ ClosedBy(r, "error") => fsr_state[r] = "COMPLETE"
      BY DEF ResponsesWellFormed
  <2>1. Stages(r)
      BY DEF RInv, PipelinesOK
  <2>2. CASE AllData(r) /\ (fsr_state[r] # "COMPLETE" \/ r \in fsr_blackhole)
      BY <2>2, ClosedIsNotOpen
  <2>3. CASE ClosedBy(r, "end") /\ ResponseLen(r) = nwritten[r] + 1
      BY <2>3, ClosedIsNotOpen, EndIsNotError DEF IInv
  <2>4. CASE ClosedBy(r, "error") /\ fsr_state[r] = "COMPLETE"
      BY <2>4, ClosedIsNotOpen, EndIsNotError DEF IInv
  <2>5. CASE NotMade(r)
    <3>1. EncoderOf(r) = <<>> /\ wire[r] = <<>> /\ Len(<<>>) = 0
        BY <2>5 DEF NotMade, EncoderOf
    <3>2. AllData(r)
        BY <3>1 DEF AllData, Places
    <3> QED
        BY <2>2, <2>5, <3>2 DEF NotMade
  <2> QED
      BY <2>1, <2>2, <2>3, <2>4, <2>5 DEF Stages, Open, Ending, Ended, Failed, CutOff
<1> QED
    BY <1>1, Invariance, ResponseInvariance, PTL
=============================================================================
