------------------------- MODULE FastClientPromises -------------------------
(***************************************************************************)
(* What the client promises its peer and its caller, for any number of     *)
(* requests and message ids.                                               *)
(*                                                                         *)
(* An honest peer never sees a message id in use twice, and every answer it*)
(* sends finds the request that it answers: PeerInv.  For the caller each  *)
(* request is a stream that keeps to RpcStream: StreamInv, and a step or a *)
(* stutter of RpcStream for every step of the client.                      *)
(***************************************************************************)
EXTENDS FastClientProofs

\* The request that a message id leads to, pending or abandoned.
Held(id) == IF fc_pending[id] # None THEN fc_pending[id] ELSE fc_abandoned[id]

IsAnswer(m) == m.status \in Status
IsLast(m)   == m.status \in {"end", "error"}

\* The peer has sent its last message of this id, and the client has it queued.
LastQueued(id) ==
    \E i \in 1 .. Len(fc_msgdecoder) :
        fc_msgdecoder[i].msgid = id /\ IsLast(fc_msgdecoder[i])

\* Nothing is on its way with this id, either way, nor being served.
Unused(id) ==
    /\ peer[id] = None
    /\ \A i \in 1 .. Len(fc_msgencoder) : fc_msgencoder[i].msgid # id
    /\ \A i \in 1 .. Len(fc_msgdecoder) : fc_msgdecoder[i].msgid # id

\* An id leads to one request, which knows it.
HeldOnce ==
    \A id \in MsgIds :
        fc_abandoned[id] # None =>
            /\ fc_pending[id] = None
            /\ fc_abandoned[id] \in Requests
            /\ frq_msgid[fc_abandoned[id]] = id

\* Requests on their way to the peer: each id is held, once, and its peer
\* neither serves it nor has answered it.
SentOK ==
    \A i \in 1 .. Len(fc_msgencoder), id \in MsgIds :
        fc_msgencoder[i].msgid = id =>
            /\ Held(id) = fc_msgencoder[i].req
            /\ peer[id] = None
            /\ \A j \in 1 .. Len(fc_msgencoder) :
                  fc_msgencoder[j].msgid = id => i = j
            /\ \A j \in 1 .. Len(fc_msgdecoder) : fc_msgdecoder[j].msgid # id

\* What the peer serves is held and has not been answered to the end.
ServedOK ==
    \A id \in MsgIds :
        peer[id] # None => Held(id) = peer[id] /\ ~LastQueued(id)

\* Answers lead to their requests, and the last one of an id comes last.
AnswersOK ==
    \A i \in 1 .. Len(fc_msgdecoder), id \in MsgIds :
        fc_msgdecoder[i].msgid = id =>
            /\ fc_msgdecoder[i].req # None
            /\ Held(id) = fc_msgdecoder[i].req
            /\ \A j \in 1 .. i - 1 :
                  fc_msgdecoder[j].msgid = id => ~IsLast(fc_msgdecoder[j])

\* Nothing more is to come for the request whose END is being emitted.
EndingOK ==
    \A id \in MsgIds :
        /\ running.kind = "emit" /\ running.status = "end"
        /\ frq_msgid[running.req] = id
        => Held(id) = running.req /\ Unused(id)

PeerInv == HeldOnce /\ SentOK /\ ServedOK /\ AnswersOK /\ EndingOK

\* What the stream of a request has come to fits the flags of the request.
StreamOK ==
    \A r \in Requests :
        /\ frq_buffer[r] = <<>>
        /\ terminal[r] \in {<<>>, <<"end">>, <<"error">>}
        /\ terminal[r] = <<"end">> =>
              r \in frq_done_graceful /\ frq_error[r] = "none"
        /\ terminal[r] = <<"error">> => frq_error[r] # "none"
        /\ r \in immediates => frq_error[r] # "none" /\ terminal[r] = <<>>
-----------------------------------------------------------------------------
(* Queues that get shorter *)

\* p is what is left of q without its first elements, and maybe its last ones.
Shorter(q, p) ==
    \E k \in 0 .. Len(q) :
        /\ Len(p) <= Len(q) - k
        /\ \A i \in 1 .. Len(p) : p[i] = q[i + k]

\* Nothing happens to the queue, its head is taken, or only a prefix is left.
LEMMA QueuesShorten ==
    ASSUME NEW S, NEW q \in Seq(S)
    PROVE  /\ Shorter(q, q)
           /\ q # <<>> => Shorter(q, Tail(q))
           /\ \A k \in 0 .. Len(q) : Shorter(q, SubSeq(q, 1, k))
<1>1. Shorter(q, q)
    BY DEF Shorter
<1>2. q # <<>> => Shorter(q, Tail(q))
  <2> SUFFICES ASSUME q # <<>> PROVE Shorter(q, Tail(q))
      OBVIOUS
  <2>1. /\ Len(q) \in Nat /\ Len(q) >= 1 /\ Len(Tail(q)) = Len(q) - 1
        /\ \A i \in 1 .. Len(Tail(q)) : Tail(q)[i] = q[i + 1]
      OBVIOUS
  <2> QED
      BY <2>1 DEF Shorter
<1>3. ASSUME NEW k \in 0 .. Len(q) PROVE Shorter(q, SubSeq(q, 1, k))
  <2>1. Len(SubSeq(q, 1, k)) = k /\ \A i \in 1 .. k : SubSeq(q, 1, k)[i] = q[i]
      OBVIOUS
  <2> QED
      BY <2>1 DEF Shorter
<1> QED
    BY <1>1, <1>2, <1>3

\* What is in the shorter queue was in the longer one.
LEMMA ShorterMember ==
    ASSUME NEW S, NEW q \in Seq(S), NEW p \in Seq(S), Shorter(q, p),
           NEW i \in 1 .. Len(p)
    PROVE  \E x \in 1 .. Len(q) : p[i] = q[x]
<1>1. PICK k \in 0 .. Len(q) : Len(p) <= Len(q) - k /\ p[i] = q[i + k]
    BY DEF Shorter
<1>2. Len(q) \in Nat /\ Len(p) \in Nat
    OBVIOUS
<1>3. i + k \in 1 .. Len(q)
    BY <1>1, <1>2
<1> QED
    BY <1>1, <1>3

\* The message that is handled comes first, the others after it.
LEMMA TailMeans ==
    ASSUME NEW S, NEW q \in Seq(S), q # <<>>
    PROVE  /\ Len(q) \in Nat \ {0} /\ Head(q) = q[1]
           /\ Len(Tail(q)) = Len(q) - 1
           /\ \A i \in 1 .. Len(Tail(q)) : Tail(q)[i] = q[i + 1]
OBVIOUS

\* What is appended comes last.
LEMMA AppendMeans ==
    ASSUME NEW S, NEW q \in Seq(S), NEW e
    PROVE  /\ Len(Append(q, e)) = Len(q) + 1
           /\ \A i \in 1 .. Len(q) : Append(q, e)[i] = q[i]
           /\ Append(q, e)[Len(q) + 1] = e
OBVIOUS

\* An element of a sequence has the type of its elements.
LEMMA ElementType ==
    ASSUME NEW S, NEW q \in Seq(S), NEW i \in 1 .. Len(q)
    PROVE  q[i] \in S
OBVIOUS

\* The queues of the client are sequences of messages, in terms of indices.
LEMMA QueueTypes ==
    ASSUME PeerTypeOK, DecoderTypeOK
    PROVE  /\ fc_msgencoder \in Seq([msgid : MsgIds, req : Requests])
           /\ fc_msgdecoder \in Seq(Event)
           /\ Len(fc_msgencoder) \in Nat /\ Len(fc_msgdecoder) \in Nat
           /\ \A i \in 1 .. Len(fc_msgencoder) :
                 fc_msgencoder[i].msgid \in MsgIds
                 /\ fc_msgencoder[i].req \in Requests
           /\ \A i \in 1 .. Len(fc_msgdecoder) :
                 IsAnswer(fc_msgdecoder[i]) <=> fc_msgdecoder[i].msgid \in MsgIds
<1>1. /\ fc_msgencoder \in Seq([msgid : MsgIds, req : Requests])
      /\ fc_msgdecoder \in Seq(Event)
    BY DEF PeerTypeOK, DecoderTypeOK
<1>2. \A i \in 1 .. Len(fc_msgencoder) :
            fc_msgencoder[i] \in [msgid : MsgIds, req : Requests]
    BY <1>1, ElementType
<1>3. \A i \in 1 .. Len(fc_msgdecoder) : fc_msgdecoder[i] \in Event
    BY <1>1, ElementType
<1>4. ASSUME NEW m \in Event PROVE IsAnswer(m) <=> m.msgid \in MsgIds
    BY DEF Event, IsAnswer, Status, MsgIds
<1> QED
    BY <1>1, <1>2, <1>3, <1>4
-----------------------------------------------------------------------------
(* Steps that add nothing to the queues *)

\* What is on its way stays in order when queues get shorter, and ids change
\* hands only if nothing is on its way with them.
LEMMA ShorterKeeps ==
    ASSUME PeerTypeOK, DecoderTypeOK, PeerTypeOK', DecoderTypeOK', PeerInv,
           HeldOnce', EndingOK', peer' = peer,
           Shorter(fc_msgencoder, fc_msgencoder'),
           Shorter(fc_msgdecoder, fc_msgdecoder'),
           \A id \in MsgIds : Held(id)' = Held(id) \/ Unused(id)'
    PROVE  PeerInv'
<1>1. PICK k \in 0 .. Len(fc_msgencoder) :
        /\ Len(fc_msgencoder') <= Len(fc_msgencoder) - k
        /\ \A i \in 1 .. Len(fc_msgencoder') :
              fc_msgencoder'[i] = fc_msgencoder[i + k]
    BY DEF Shorter
<1>2. PICK n \in 0 .. Len(fc_msgdecoder) :
        /\ Len(fc_msgdecoder') <= Len(fc_msgdecoder) - n
        /\ \A i \in 1 .. Len(fc_msgdecoder') :
              fc_msgdecoder'[i] = fc_msgdecoder[i + n]
    BY DEF Shorter
<1>3. /\ Len(fc_msgencoder) \in Nat /\ Len(fc_msgdecoder) \in Nat
      /\ Len(fc_msgencoder') \in Nat /\ Len(fc_msgdecoder') \in Nat
    BY DEF PeerTypeOK, DecoderTypeOK
<1>4. /\ \A i \in 1 .. Len(fc_msgencoder') : i + k \in 1 .. Len(fc_msgencoder)
      /\ \A i \in 1 .. Len(fc_msgdecoder') : i + n \in 1 .. Len(fc_msgdecoder)
    BY <1>1, <1>2, <1>3
<1>5. SentOK'
  <2> SUFFICES ASSUME NEW i \in 1 .. Len(fc_msgencoder'), NEW id \in MsgIds,
                      fc_msgencoder'[i].msgid = id
               PROVE  /\ Held(id)' = fc_msgencoder'[i].req
                      /\ peer'[id] = None
                      /\ \A j \in 1 .. Len(fc_msgencoder') :
                            fc_msgencoder'[j].msgid = id => i = j
                      /\ \A j \in 1 .. Len(fc_msgdecoder') :
                            fc_msgdecoder'[j].msgid # id
      BY DEF SentOK
  <2>0. PICK x \in 1 .. Len(fc_msgencoder) :
            x = i + k /\ fc_msgencoder'[i] = fc_msgencoder[x]
      BY <1>1, <1>4
  <2>1. /\ Held(id) = fc_msgencoder'[i].req /\ peer[id] = None
        /\ \A j \in 1 .. Len(fc_msgencoder) :
              fc_msgencoder[j].msgid = id => x = j
        /\ \A j \in 1 .. Len(fc_msgdecoder) : fc_msgdecoder[j].msgid # id
      BY <2>0 DEF PeerInv, SentOK
  <2>2. ~Unused(id)'
      BY DEF Unused
  <2>3. ASSUME NEW j \in 1 .. Len(fc_msgencoder'), fc_msgencoder'[j].msgid = id
        PROVE  i = j
    <3>1. j + k \in 1 .. Len(fc_msgencoder)
          /\ fc_msgencoder'[j] = fc_msgencoder[j + k]
        BY <1>1, <1>4
    <3>2. x = j + k
        BY <2>1, <2>3, <3>1
    <3> QED
        BY <1>3, <2>0, <3>2
  <2>4. \A j \in 1 .. Len(fc_msgdecoder') : fc_msgdecoder'[j].msgid # id
      BY <1>2, <1>4, <2>1
  <2> QED
      BY <2>1, <2>2, <2>3, <2>4
<1>6. ServedOK'
  <2> SUFFICES ASSUME NEW id \in MsgIds, peer'[id] # None
               PROVE  Held(id)' = peer'[id] /\ ~LastQueued(id)'
      BY DEF ServedOK
  <2>1. Held(id) = peer[id] /\ ~LastQueued(id)
      BY DEF PeerInv, ServedOK
  <2>2. Held(id)' = Held(id)
      BY DEF Unused
  <2>3. ~LastQueued(id)'
      BY <1>2, <1>4, <2>1 DEF LastQueued, IsLast
  <2> QED
      BY <2>1, <2>2, <2>3
<1>7. AnswersOK'
  <2> SUFFICES ASSUME NEW i \in 1 .. Len(fc_msgdecoder'), NEW id \in MsgIds,
                      fc_msgdecoder'[i].msgid = id
               PROVE  /\ fc_msgdecoder'[i].req # None
                      /\ Held(id)' = fc_msgdecoder'[i].req
                      /\ \A j \in 1 .. i - 1 :
                            fc_msgdecoder'[j].msgid = id =>
                                ~IsLast(fc_msgdecoder'[j])
      BY DEF AnswersOK, IsLast
  <2>0. PICK x \in 1 .. Len(fc_msgdecoder) :
            x = i + n /\ fc_msgdecoder'[i] = fc_msgdecoder[x]
      BY <1>2, <1>4
  <2>1. /\ fc_msgdecoder'[i].req # None /\ Held(id) = fc_msgdecoder'[i].req
        /\ \A j \in 1 .. x - 1 :
              fc_msgdecoder[j].msgid = id => ~IsLast(fc_msgdecoder[j])
      BY <2>0 DEF PeerInv, AnswersOK
  <2>2. ~Unused(id)'
      BY DEF Unused
  <2>3. ASSUME NEW j \in 1 .. i - 1
        PROVE  j + n \in 1 .. x - 1 /\ fc_msgdecoder'[j] = fc_msgdecoder[j + n]
    <3>1. j \in 1 .. Len(fc_msgdecoder') /\ j + n \in 1 .. x - 1
        BY SMTT(30), <1>3, <2>0
    <3> QED
        BY <1>2, <3>1
  <2> QED
      BY <2>1, <2>2, <2>3
<1> QED
    BY <1>5, <1>6, <1>7 DEF PeerInv

\* Nothing turns up for an id by itself.
LEMMA UnusedStays ==
    ASSUME PeerTypeOK, DecoderTypeOK, PeerTypeOK', DecoderTypeOK', peer' = peer,
           Shorter(fc_msgencoder, fc_msgencoder'),
           Shorter(fc_msgdecoder, fc_msgdecoder'),
           NEW id \in MsgIds, Unused(id)
    PROVE  Unused(id)'
<1>1. /\ fc_msgencoder \in Seq([msgid : MsgIds, req : Requests])
      /\ fc_msgencoder' \in Seq([msgid : MsgIds, req : Requests])
      /\ fc_msgdecoder \in Seq(Event) /\ fc_msgdecoder' \in Seq(Event)
    BY DEF PeerTypeOK, DecoderTypeOK
<1>2. ASSUME NEW i \in 1 .. Len(fc_msgencoder') PROVE fc_msgencoder'[i].msgid # id
  <2>1. PICK x \in 1 .. Len(fc_msgencoder) : fc_msgencoder'[i] = fc_msgencoder[x]
      BY <1>1, ShorterMember
  <2> QED
      BY <2>1 DEF Unused
<1>3. ASSUME NEW i \in 1 .. Len(fc_msgdecoder') PROVE fc_msgdecoder'[i].msgid # id
  <2>1. PICK x \in 1 .. Len(fc_msgdecoder) : fc_msgdecoder'[i] = fc_msgdecoder[x]
    <3> HIDE DEF Event
    <3> QED
        BY <1>1, ShorterMember
  <2> QED
      BY <2>1 DEF Unused
<1> QED
    BY <1>2, <1>3 DEF Unused

\* The message that requestEmitData() is at, if it still is, is the same.
SameEmission ==
    running'.kind = "emit" =>
        /\ running.kind = "emit"
        /\ running'.req = running.req /\ running'.status = running.status

\* A step that adds nothing to the queues and leaves every id where it was.
LEMMA CalmKeeps ==
    ASSUME IInv, IInv', PeerInv, HeldOnce', SameEmission, peer' = peer,
           \A r \in Requests : frq_msgid[r] # 0 => frq_msgid'[r] = frq_msgid[r],
           \A id \in MsgIds : Held(id)' = Held(id),
           Shorter(fc_msgencoder, fc_msgencoder'),
           Shorter(fc_msgdecoder, fc_msgdecoder')
    PROVE  PeerInv'
<1>1. PeerTypeOK /\ DecoderTypeOK /\ PeerTypeOK' /\ DecoderTypeOK'
    BY DEF IInv, TypeOK
<1>2. EndingOK'
  <2> SUFFICES ASSUME NEW id \in MsgIds, running'.kind = "emit",
                      running'.status = "end", frq_msgid'[running'.req] = id
               PROVE  Held(id)' = running'.req /\ Unused(id)'
      BY DEF EndingOK
  <2>1. /\ running.kind = "emit" /\ running.status = "end"
        /\ running'.req = running.req /\ frq_msgid[running.req] = id
      BY DEF SameEmission, IInv, FrameOK
  <2>2. Held(id) = running.req /\ Unused(id)
      BY <2>1 DEF PeerInv, EndingOK
  <2> QED
      BY <1>1, <2>1, <2>2, UnusedStays
<1> QED
    BY <1>1, <1>2, ShorterKeeps

\* Abandoning requests moves ids from one table to the other, no more.
LEMMA AbandonHolds ==
    ASSUME IInv, HeldOnce, NEW R \in SUBSET Pending, NEW cause,
           RequestAbandon(R, cause)
    PROVE  /\ HeldOnce' /\ frq_msgid' = frq_msgid
           /\ \A id \in MsgIds : Held(id)' = Held(id)
<1>1. /\ frq_msgid' = frq_msgid
      /\ \A id \in MsgIds :
            /\ fc_pending'[id] = IF fc_pending[id] \in R THEN None
                                 ELSE fc_pending[id]
            /\ fc_abandoned'[id] = IF fc_pending[id] \in R THEN fc_pending[id]
                                   ELSE fc_abandoned[id]
    BY DEF RequestAbandon, RequestFail, RequestComplete
<1>2. \A id \in MsgIds :
        fc_pending[id] # None =>
            /\ fc_abandoned[id] = None /\ fc_pending[id] \in Requests
            /\ frq_msgid[fc_pending[id]] = id
    BY DEF HeldOnce, IInv, Bookkeeping, PendingById
<1>3. None \notin R
    BY DEF Pending
<1> QED
    BY <1>1, <1>2, <1>3 DEF HeldOnce, Held

\* The same tables lead to the same requests.
LEMMA SameTables ==
    ASSUME HeldOnce, UNCHANGED <<fc_pending, fc_abandoned, frq_msgid>>
    PROVE  HeldOnce' /\ \A id \in MsgIds : Held(id)' = Held(id)
BY DEF HeldOnce, Held

\* Queues that nobody touches.
LEMMA SameQueues ==
    ASSUME IInv
    PROVE  /\ Shorter(fc_msgencoder, fc_msgencoder)
           /\ Shorter(fc_msgdecoder, fc_msgdecoder)
           /\ fc_msgdecoder # <<>> => Shorter(fc_msgdecoder, Tail(fc_msgdecoder))
           /\ \A k \in 0 .. Len(fc_msgdecoder) :
                 Shorter(fc_msgdecoder, SubSeq(fc_msgdecoder, 1, k))
BY QueuesShorten DEF IInv, TypeOK, PeerTypeOK, DecoderTypeOK
-----------------------------------------------------------------------------
(* The client's steps *)

\* A step that changes no table and no queue.
LEMMA IdleKeeps ==
    ASSUME IInv, IInv', PeerInv, SameEmission,
           UNCHANGED <<fc_pending, fc_abandoned, frq_msgid, peer,
                       fc_msgencoder, fc_msgdecoder>>
    PROVE  PeerInv'
<1>1. HeldOnce' /\ \A id \in MsgIds : Held(id)' = Held(id)
    BY SameTables DEF PeerInv
<1>2. /\ Shorter(fc_msgencoder, fc_msgencoder')
      /\ Shorter(fc_msgdecoder, fc_msgdecoder')
    BY SameQueues
<1> QED
    BY <1>1, <1>2, CalmKeeps

\* A step that abandons requests and changes no queue.
LEMMA AbandoningKeeps ==
    ASSUME IInv, IInv', PeerInv, SameEmission,
           NEW R \in SUBSET Pending, NEW cause, RequestAbandon(R, cause),
           UNCHANGED <<peer, fc_msgencoder, fc_msgdecoder>>
    PROVE  PeerInv'
<1>1. /\ HeldOnce' /\ frq_msgid' = frq_msgid
      /\ \A id \in MsgIds : Held(id)' = Held(id)
    BY AbandonHolds DEF PeerInv
<1>2. /\ Shorter(fc_msgencoder, fc_msgencoder')
      /\ Shorter(fc_msgdecoder, fc_msgdecoder')
    BY SameQueues
<1> QED
    BY <1>1, <1>2, CalmKeeps

\* A message is taken that is for nobody any more.
LEMMA DiscardKeeps ==
    ASSUME IInv, IInv', PeerInv, SameEmission, fc_msgdecoder # <<>>,
           fc_msgdecoder' = Tail(fc_msgdecoder),
           UNCHANGED <<fc_pending, fc_abandoned, frq_msgid, peer,
                       fc_msgencoder>>
    PROVE  PeerInv'
<1>1. HeldOnce' /\ \A id \in MsgIds : Held(id)' = Held(id)
    BY SameTables DEF PeerInv
<1>2. /\ Shorter(fc_msgencoder, fc_msgencoder')
      /\ Shorter(fc_msgdecoder, fc_msgdecoder')
    BY SameQueues
<1> QED
    BY <1>1, <1>2, CalmKeeps

\* The last message of an id is the last of it: once it is taken the id is free.
LEMMA LastMeans ==
    ASSUME IInv, PeerInv, fc_msgdecoder # <<>>, IsLast(Message),
           NEW id \in MsgIds, Message.msgid = id,
           peer' = peer, fc_msgencoder' = fc_msgencoder,
           fc_msgdecoder' = Tail(fc_msgdecoder)
    PROVE  Unused(id)'
<1>1. fc_msgdecoder \in Seq(Event) /\ PeerTypeOK /\ DecoderTypeOK
    BY DEF IInv, TypeOK, DecoderTypeOK
<1>2. /\ Len(fc_msgdecoder) \in Nat \ {0} /\ Message = fc_msgdecoder[1]
      /\ Len(fc_msgdecoder') = Len(fc_msgdecoder) - 1
      /\ \A i \in 1 .. Len(fc_msgdecoder') :
            fc_msgdecoder'[i] = fc_msgdecoder[i + 1]
    BY <1>1, TailMeans DEF Message
<1>4. fc_msgdecoder[1].msgid = id /\ IsLast(fc_msgdecoder[1])
    BY <1>2
<1>5. peer[id] = None
    BY <1>2, <1>4 DEF PeerInv, ServedOK, LastQueued
<1>6. \A i \in 1 .. Len(fc_msgencoder) : fc_msgencoder[i].msgid # id
    BY <1>2, <1>4 DEF PeerInv, SentOK
<1>7. ASSUME NEW i \in 1 .. Len(fc_msgdecoder') PROVE fc_msgdecoder'[i].msgid # id
  <2>1. PICK x \in 1 .. Len(fc_msgdecoder) :
            x = i + 1 /\ fc_msgdecoder'[i] = fc_msgdecoder[x]
      BY <1>2
  <2>2. 1 \in 1 .. x - 1
      BY <1>2, <2>1
  <2> QED
      BY <1>4, <2>1, <2>2 DEF PeerInv, AnswersOK
<1> QED
    BY <1>5, <1>6, <1>7 DEF Unused

\* A step that frees an id with which nothing is on its way any more.
LEMMA FreeingKeeps ==
    ASSUME IInv, IInv', PeerInv, running'.kind # "emit", peer' = peer,
           frq_msgid' = frq_msgid,
           Shorter(fc_msgencoder, fc_msgencoder'),
           Shorter(fc_msgdecoder, fc_msgdecoder'),
           NEW x \in MsgIds, Unused(x)',
           fc_pending'[x] = None, fc_abandoned'[x] = None,
           \A id \in MsgIds \ {x} : /\ fc_pending'[id] = fc_pending[id]
                                    /\ fc_abandoned'[id] = fc_abandoned[id]
    PROVE  PeerInv'
<1>1. HeldOnce'
    BY DEF PeerInv, HeldOnce
<1>2. \A id \in MsgIds : Held(id)' = Held(id) \/ Unused(id)'
  <2> TAKE id \in MsgIds
  <2>1. CASE id = x
      BY <2>1
  <2>2. CASE id # x
      BY <2>2 DEF Held
  <2> QED
      BY <2>1, <2>2
<1>3. EndingOK'
    BY DEF EndingOK
<1> QED
    BY <1>1, <1>2, <1>3, ShorterKeeps DEF IInv, TypeOK

\* ERROR for a pending request.
LEMMA ServerErrorPromise ==
    ASSUME IInv, IInv', PeerInv, NEW r \in Requests, OnServerError(r)
    PROVE  PeerInv'
<1>1. /\ running.kind = "idle" /\ fc_msgdecoder # <<>>
      /\ Message.status = "error" /\ fc_pending[Message.msgid] = r
      /\ r \in Pending /\ ReceiveAsserts(r) /\ Registered(r)
    BY ReceivesMeans DEF OnServerError, Receives, InHandler
<1>2. /\ RequestComplete({r})
      /\ fc_msgdecoder' = Tail(fc_msgdecoder)
      /\ UNCHANGED <<loopVars, peerVars, fc_abandoned, frq_msgid>>
    BY <1>1 DEF OnServerError, RequestFail
<1>3. PICK x \in MsgIds : Message.msgid = x
    BY <1>1, MessageMeans DEF IInv, Status
<1>4. Unused(x)'
    BY <1>1, <1>2, <1>3, LastMeans DEF IsLast, peerVars
<1>5. /\ fc_abandoned[x] = None /\ r # None
      /\ \A id \in MsgIds : fc_pending[id] = r => id = x
    BY <1>1, <1>3, ClientAssumption
       DEF PeerInv, HeldOnce, IInv, Bookkeeping, PendingById
<1>6. /\ fc_pending'[x] = None /\ fc_abandoned'[x] = None
      /\ \A id \in MsgIds \ {x} : /\ fc_pending'[id] = fc_pending[id]
                                  /\ fc_abandoned'[id] = fc_abandoned[id]
    BY <1>1, <1>2, <1>3, <1>5 DEF RequestComplete
<1>7. /\ Shorter(fc_msgencoder, fc_msgencoder')
      /\ Shorter(fc_msgdecoder, fc_msgdecoder')
    BY <1>1, <1>2, SameQueues DEF peerVars
<1>8. running'.kind # "emit" /\ peer' = peer /\ frq_msgid' = frq_msgid
    BY <1>1, <1>2 DEF loopVars, peerVars
<1> QED
    BY <1>4, <1>6, <1>7, <1>8, FreeingKeeps

\* A message for an abandoned request: END is the last, and frees the id.
LEMMA AbandonedMessagePromise ==
    ASSUME IInv, IInv', PeerInv, NEW r \in Requests, OnAbandonedMessage(r)
    PROVE  PeerInv'
<1>1. /\ running.kind = "idle" /\ fc_msgdecoder # <<>>
      /\ Message.status \in Status /\ fc_pending[Message.msgid] = None
      /\ fc_abandoned[Message.msgid] = r /\ r # None
    BY ClientAssumption DEF OnAbandonedMessage, InHandler
<1>2. PICK x \in MsgIds : Message.msgid = x
    BY <1>1, MessageMeans DEF IInv
<1>3. r \in frq_abandoned /\ r \notin frq_done_graceful /\ frq_msgid[r] = x
    BY <1>1, <1>2
       DEF IInv, Bookkeeping, AbandonedFailed, PeerInv, HeldOnce
<1>4. /\ fc_abandoned' = IF GivesIdBack(Message.status)
                         THEN [fc_abandoned EXCEPT ![x] = None]
                         ELSE fc_abandoned
      /\ fc_msgdecoder' = Tail(fc_msgdecoder)
      /\ UNCHANGED <<loopVars, peerVars, fc_pending, frq_msgid>>
    BY <1>3 DEF OnAbandonedMessage
<1>5. SameEmission /\ running'.kind # "emit"
    BY <1>1, <1>4 DEF SameEmission, loopVars
<1>6. CASE ~GivesIdBack(Message.status)
    BY <1>1, <1>4, <1>5, <1>6, DiscardKeeps DEF peerVars
<1>7. CASE GivesIdBack(Message.status)
  <2>1. Unused(x)'
      BY <1>1, <1>2, <1>4, <1>7, LastMeans DEF GivesIdBack, IsLast, peerVars
  <2>2. fc_abandoned \in [MsgIds -> Requests \cup {None}]
      BY DEF IInv, TypeOK, RequestTypeOK
  <2>3. /\ fc_pending'[x] = None /\ fc_abandoned'[x] = None
        /\ \A id \in MsgIds \ {x} : /\ fc_pending'[id] = fc_pending[id]
                                    /\ fc_abandoned'[id] = fc_abandoned[id]
      BY <1>1, <1>2, <1>4, <1>7, <2>2
  <2>4. /\ Shorter(fc_msgencoder, fc_msgencoder')
        /\ Shorter(fc_msgdecoder, fc_msgdecoder')
      BY <1>1, <1>4, SameQueues DEF peerVars
  <2> QED
      BY <1>4, <1>5, <2>1, <2>3, <2>4, FreeingKeeps DEF peerVars
<1> QED
    BY <1>6, <1>7

\* Every object of an END message is out: its id is free.
LEMMA EndDonePromise ==
    ASSUME IInv, IInv', PeerInv, EndDone
    PROVE  PeerInv'
<1> DEFINE r == running.req
<1>1. CASE Crash
    BY <1>1, IdleKeeps
       DEF Crash, SameEmission, requestVars, transportVars, peerVars
<1>2. CASE ~Crash
  <2>1. /\ running.kind = "emit" /\ running.status = "end" /\ Registered(r)
        /\ RequestComplete({r}) /\ running' = Idle
        /\ UNCHANGED <<fc_abandoned, frq_msgid, transportVars>>
      BY <1>2 DEF EndDone, InHandler
  <2>2. r \in Requests /\ frq_msgid[r] # 0 /\ r # None
      BY <2>1, ClientAssumption DEF IInv, FrameOK
  <2>3. PICK x \in MsgIds : frq_msgid[r] = x
      BY <2>2 DEF IInv, TypeOK, RequestTypeOK, MsgIds
  <2>4. Unused(x) /\ fc_pending[x] = r
      BY <2>1, <2>3 DEF PeerInv, EndingOK, Registered
  <2>5. Unused(x)'
      BY <2>1, <2>4 DEF Unused, transportVars, peerVars
  <2>6. /\ fc_abandoned[x] = None
        /\ \A id \in MsgIds : fc_pending[id] = r => id = x
      BY <2>2, <2>3, <2>4 DEF PeerInv, HeldOnce, IInv, Bookkeeping, PendingById
  <2>7. /\ fc_pending'[x] = None /\ fc_abandoned'[x] = None
        /\ \A id \in MsgIds \ {x} : /\ fc_pending'[id] = fc_pending[id]
                                    /\ fc_abandoned'[id] = fc_abandoned[id]
      BY <2>1, <2>4, <2>6 DEF RequestComplete
  <2>8. /\ Shorter(fc_msgencoder, fc_msgencoder')
        /\ Shorter(fc_msgdecoder, fc_msgdecoder')
      BY <2>1, SameQueues DEF transportVars, peerVars
  <2> QED
      BY <2>1, <2>5, <2>7, <2>8, FreeingKeeps
         DEF Idle, transportVars, peerVars
<1> QED
    BY <1>1, <1>2

\* DATA or END for a pending request: after an END nothing more is to come.
LEMMA DataPromise ==
    ASSUME IInv, IInv', PeerInv, NEW r \in Requests, OnData(r)
    PROVE  PeerInv'
<1>1. /\ fc_msgdecoder # <<>> /\ Message.status \in Status
      /\ fc_pending[Message.msgid] = r
      /\ IsPending(r) /\ ReceiveAsserts(r) /\ frq_msgid[r] # 0 /\ r # None
    BY ReceivesMeans, ClientAssumption DEF OnData, Receives
<1>2. /\ running'.req = r /\ running'.status = Message.status
      /\ fc_msgdecoder' = Tail(fc_msgdecoder)
      /\ UNCHANGED <<requestVars, peerVars>>
    BY <1>1 DEF OnData
<1>3. PICK x \in MsgIds : Message.msgid = x
    BY <1>1, MessageMeans DEF IInv
<1>4. frq_msgid[r] = x /\ Held(x) = r
    BY <1>1, <1>3 DEF IInv, Bookkeeping, PendingById, Held
<1>5. HeldOnce' /\ \A id \in MsgIds : Held(id)' = Held(id)
    BY <1>2, SameTables DEF PeerInv, requestVars
<1>6. EndingOK'
  <2> SUFFICES ASSUME Message.status = "end"
               PROVE  Held(x)' = r /\ Unused(x)'
      BY <1>2, <1>4 DEF EndingOK, requestVars
  <2>1. Unused(x)'
      BY <1>1, <1>2, <1>3, LastMeans DEF IsLast, peerVars
  <2> QED
      BY <1>4, <1>5, <2>1
<1>7. /\ Shorter(fc_msgencoder, fc_msgencoder')
      /\ Shorter(fc_msgdecoder, fc_msgdecoder')
    BY <1>1, <1>2, SameQueues DEF peerVars
<1> QED
    BY <1>2, <1>5, <1>6, <1>7, ShorterKeeps DEF IInv, TypeOK, peerVars

\* An id that is held by no request is on its way nowhere.
LEMMA FreeIdUnused ==
    ASSUME IInv, PeerInv, NEW x \in MsgIds \ AllocatedIds
    PROVE  Held(x) = None /\ Unused(x)
<1>1. Held(x) = None
    BY DEF AllocatedIds, Held
<1>2. peer[x] = None
    BY <1>1 DEF PeerInv, ServedOK
<1>3. \A i \in 1 .. Len(fc_msgencoder) : fc_msgencoder[i].msgid # x
    BY <1>1, QueueTypes, ClientAssumption DEF PeerInv, SentOK, IInv, TypeOK
<1>4. \A i \in 1 .. Len(fc_msgdecoder) : fc_msgdecoder[i].msgid # x
    BY <1>1 DEF PeerInv, AnswersOK
<1> QED
    BY <1>1, <1>2, <1>3, <1>4 DEF Unused

\* rpc() sends with an id that is free.
LEMMA SentPromise ==
    ASSUME IInv, IInv', PeerInv, NEW r \in Requests, NEW x \in MsgIds \ AllocatedIds,
           fc_pending' = [fc_pending EXCEPT ![x] = r],
           frq_msgid[r] = 0, frq_msgid' = [frq_msgid EXCEPT ![r] = x],
           fc_msgencoder' = Append(fc_msgencoder, [msgid |-> x, req |-> r]),
           UNCHANGED <<fc_abandoned, running, peer, fc_msgdecoder>>
    PROVE  PeerInv'
<1>1. Held(x) = None /\ Unused(x)
    BY FreeIdUnused
<1>2. /\ fc_pending \in [MsgIds -> Requests \cup {None}]
      /\ fc_msgencoder \in Seq([msgid : MsgIds, req : Requests])
      /\ frq_msgid \in [Requests -> 0 .. MaxMsgId]
      /\ Len(fc_msgencoder) \in Nat /\ r # None /\ x # 0
    BY ClientAssumption
       DEF IInv, TypeOK, RequestTypeOK, PeerTypeOK, MsgIds
<1>3. /\ Held(x)' = r
      /\ \A id \in MsgIds \ {x} : Held(id)' = Held(id)
    BY <1>2 DEF Held
<1>4. HeldOnce'
  <2>1. fc_abandoned[x] = None
      BY DEF AllocatedIds
  <2>2. \A q \in Requests : frq_msgid[q] # 0 => frq_msgid'[q] = frq_msgid[q]
      BY <1>2
  <2> QED
      BY <1>2, <2>1, <2>2 DEF PeerInv, HeldOnce, MsgIds
<1>5. /\ Len(fc_msgencoder') = Len(fc_msgencoder) + 1
      /\ \A i \in 1 .. Len(fc_msgencoder) : fc_msgencoder'[i] = fc_msgencoder[i]
      /\ fc_msgencoder'[Len(fc_msgencoder) + 1] = [msgid |-> x, req |-> r]
    BY <1>2, AppendMeans
<1>6. \A i \in 1 .. Len(fc_msgencoder') :
        IF fc_msgencoder'[i].msgid = x
        THEN i = Len(fc_msgencoder) + 1 /\ fc_msgencoder'[i].req = r
        ELSE i \in 1 .. Len(fc_msgencoder)
             /\ fc_msgencoder'[i] = fc_msgencoder[i]
  <2> TAKE i \in 1 .. Len(fc_msgencoder')
  <2>1. i \in 1 .. Len(fc_msgencoder) \/ i = Len(fc_msgencoder) + 1
      BY <1>2, <1>5
  <2> QED
      BY <1>1, <1>5, <2>1 DEF Unused
<1>7. SentOK'
  <2> SUFFICES ASSUME NEW i \in 1 .. Len(fc_msgencoder'), NEW id \in MsgIds,
                      fc_msgencoder'[i].msgid = id
               PROVE  /\ Held(id)' = fc_msgencoder'[i].req
                      /\ peer'[id] = None
                      /\ \A j \in 1 .. Len(fc_msgencoder') :
                            fc_msgencoder'[j].msgid = id => i = j
                      /\ \A j \in 1 .. Len(fc_msgdecoder') :
                            fc_msgdecoder'[j].msgid # id
      BY DEF SentOK
  <2>1. CASE id = x
      BY <1>1, <1>3, <1>6, <2>1 DEF Unused
  <2>2. CASE id # x
    <3>1. /\ i \in 1 .. Len(fc_msgencoder)
          /\ fc_msgencoder'[i] = fc_msgencoder[i]
        BY <1>6, <2>2
    <3>2. /\ Held(id) = fc_msgencoder[i].req /\ peer[id] = None
          /\ \A j \in 1 .. Len(fc_msgencoder) :
                fc_msgencoder[j].msgid = id => i = j
          /\ \A j \in 1 .. Len(fc_msgdecoder) : fc_msgdecoder[j].msgid # id
        BY <3>1 DEF PeerInv, SentOK
    <3> QED
        BY <1>3, <1>6, <2>2, <3>1, <3>2
  <2> QED
      BY <2>1, <2>2
<1>8. ServedOK'
    BY <1>1, <1>3 DEF PeerInv, ServedOK, Unused, LastQueued, IsLast
<1>9. AnswersOK'
    BY <1>1, <1>3 DEF PeerInv, AnswersOK, Unused, IsLast
<1>10. EndingOK'
  <2> SUFFICES ASSUME NEW id \in MsgIds, running.kind = "emit",
                      running.status = "end", frq_msgid'[running.req] = id
               PROVE  Held(id)' = running.req /\ Unused(id)'
      BY DEF EndingOK
  <2>1. running.req \in Requests /\ frq_msgid[running.req] # 0
      BY DEF IInv, FrameOK
  <2>2. frq_msgid[running.req] = id
      BY <1>2, <2>1
  <2>3. Held(id) = running.req /\ Unused(id)
      BY <2>2 DEF PeerInv, EndingOK
  <2>4. id # x
      BY <1>1, <2>1, <2>3, ClientAssumption
  <2>5. Unused(id)'
      BY <1>6, <2>3, <2>4 DEF Unused
  <2> QED
      BY <1>3, <2>3, <2>4, <2>5
<1> QED
    BY <1>4, <1>7, <1>8, <1>9, <1>10 DEF PeerInv

\* rpc(), with a transport or without.
LEMMA RpcPromise ==
    ASSUME IInv, IInv', PeerInv, NEW r \in Requests, Rpc(r)
    PROVE  PeerInv'
<1> DEFINE x == Allocator!Alloc(ida_nextid, AllocatedIds)
<1>1. x \in MsgIds \ AllocatedIds
    BY AllocReturnsFree DEF Rpc, IInv, TypeOK, ClientTypeOK
<1> HIDE DEF x
<1>2. /\ frq_msgid[r] = 0 /\ frq_msgid' = [frq_msgid EXCEPT ![r] = x]
      /\ RpcSkipped(r) \/ RpcSent(r, x)
      /\ UNCHANGED <<loopVars, fc_abandoned, peer, fc_msgdecoder>>
    BY DEF Rpc, x
<1>3. CASE RpcSent(r, x)
    BY <1>1, <1>2, <1>3, SentPromise DEF RpcSent, loopVars
<1>4. CASE RpcSkipped(r)
  <2>1. UNCHANGED <<fc_pending, fc_abandoned, fc_msgencoder, fc_msgdecoder>>
      BY <1>2, <1>4 DEF RpcSkipped
  <2>2. \A q \in Requests : frq_msgid[q] # 0 => frq_msgid'[q] = frq_msgid[q]
      BY <1>2 DEF IInv, TypeOK, RequestTypeOK
  <2>3. HeldOnce' /\ \A id \in MsgIds : Held(id)' = Held(id)
      BY <2>1, <2>2 DEF PeerInv, HeldOnce, Held, MsgIds
  <2>4. /\ Shorter(fc_msgencoder, fc_msgencoder')
        /\ Shorter(fc_msgdecoder, fc_msgdecoder')
      BY <2>1, SameQueues
  <2> QED
      BY <1>2, <2>2, <2>3, <2>4, CalmKeeps DEF SameEmission, loopVars
<1> QED
    BY <1>2, <1>3, <1>4

\* What the caller does: ids stay with their requests.
LEMMA CallerPromise ==
    ASSUME IInv, IInv', PeerInv, CallerStep
    PROVE  PeerInv'
<1>1. CASE Detach
  <2>1. PICK k \in 0 .. Len(fc_msgdecoder) :
            fc_msgdecoder' = SubSeq(fc_msgdecoder, 1, k)
      BY <1>1, AssertionsHold DEF Detach
  <2>2. /\ RequestAbandon(Pending, "detached")
        /\ UNCHANGED <<loopVars, fc_msgencoder, peer>>
      BY <1>1, AssertionsHold DEF Detach
  <2>3. /\ HeldOnce' /\ frq_msgid' = frq_msgid
        /\ \A id \in MsgIds : Held(id)' = Held(id)
      BY <2>2, AbandonHolds DEF PeerInv
  <2>4. /\ Shorter(fc_msgencoder, fc_msgencoder')
        /\ Shorter(fc_msgdecoder, fc_msgdecoder')
      BY <2>1, <2>2, SameQueues
  <2> QED
      BY <2>2, <2>3, <2>4, CalmKeeps DEF SameEmission, loopVars
<1>2. ASSUME NEW r \in Requests, Rpc(r) PROVE PeerInv'
    BY <1>2, RpcPromise
<1>3. ASSUME NEW r \in Requests, Abandon(r) PROVE PeerInv'
  <2>1. Registered(r) /\ {r} \in SUBSET Pending
      BY <1>3, AssertionsHold DEF Abandon
  <2>2. /\ RequestAbandon({r}, "user")
        /\ UNCHANGED <<loopVars, transportVars>>
      BY <1>3, <2>1 DEF Abandon
  <2> QED
      BY <2>1, <2>2, AbandoningKeeps
         DEF SameEmission, loopVars, transportVars, peerVars
<1>4. ASSUME NEW r \in Requests, ReadRequest(r) PROVE PeerInv'
    BY <1>4, IdleKeeps
       DEF ReadRequest, SameEmission, requestVars, loopVars, transportVars,
           peerVars
<1> QED
    BY <1>1, <1>2, <1>3, <1>4 DEF CallerStep

\* The events that may be errors take nothing from any request.
LEMMA ErrorEventsPromise ==
    ASSUME IInv, IInv', PeerInv,
           OnUnknownMsgid \/ OnDecoderError \/ OnTransportEnd
           \/ OnTransportError
    PROVE  PeerInv'
<1>1. /\ \/ fc_msgdecoder # <<>> /\ fc_msgdecoder' = Tail(fc_msgdecoder)
         \/ fc_msgdecoder' = fc_msgdecoder
      /\ UNCHANGED <<requestVars, peerVars>>
    BY DEF OnUnknownMsgid, OnDecoderError, OnTransportEnd, OnTransportError,
           transportVars
<1>2. running'.kind # "emit"
    BY DEF OnUnknownMsgid, OnDecoderError, OnTransportEnd, OnTransportError,
           FatalError, InHandler, Idle
<1> QED
    BY <1>1, <1>2, DiscardKeeps, IdleKeeps
       DEF SameEmission, requestVars, peerVars

\* The steps of requestEmitData() before its message's end.
LEMMA EmitPromise ==
    ASSUME IInv, IInv', PeerInv,
           EmitObject \/ SkipNull \/ RejectNull \/ DataDone \/ AbandonAll
    PROVE  PeerInv'
<1>1. CASE EmitObject \/ SkipNull \/ DataDone
  <2>1. UNCHANGED <<requestVars, transportVars>>
      BY <1>1 DEF EmitObject, SkipNull, DataDone
  <2>2. CASE EmitObject \/ SkipNull
    <3>1. SameEmission
        BY <2>2, EmissionGoesOn DEF SameEmission, Frame
    <3> QED
        BY <2>1, <3>1, IdleKeeps DEF requestVars, transportVars, peerVars
  <2>3. CASE DataDone
      BY <2>1, <2>3, IdleKeeps
         DEF DataDone, SameEmission, Idle, requestVars, transportVars, peerVars
  <2> QED
      BY <1>1, <2>2, <2>3
<1>2. CASE RejectNull
  <2>1. running.req \in Requests /\ frq_msgid[running.req] # 0
      BY <1>2 DEF RejectNull, InHandler, IInv, FrameOK
  <2>2. /\ RequestAbandon({running.req} \cap Pending, "null")
        /\ running' = Idle /\ UNCHANGED transportVars
      BY <1>2, <2>1, AssertionsHold DEF RejectNull
  <2>3. {running.req} \cap Pending \in SUBSET Pending
      OBVIOUS
  <2> QED
      BY <2>2, <2>3, AbandoningKeeps
         DEF SameEmission, Idle, transportVars, peerVars
<1>3. CASE AbandonAll
  <2>1. /\ RequestAbandon(Pending, "fatal")
        /\ running' = Idle /\ UNCHANGED transportVars
      BY <1>3, AssertionsHold DEF AbandonAll
  <2> QED
      BY <2>1, AbandoningKeeps DEF SameEmission, Idle, transportVars, peerVars
<1> QED
    BY <1>1, <1>2, <1>3

\* Timers and deferred events.
LEMMA RequestStepPromise ==
    ASSUME IInv, IInv', PeerInv, NEW r \in Requests, RequestStep(r)
    PROVE  PeerInv'
<1>1. CASE OnRpcTimeout(r)
  <2>1. frq_msgid[r] # 0 /\ IsPending(r)
      BY <1>1 DEF OnRpcTimeout, IInv, Bookkeeping, PendingAgrees
  <2>2. Registered(r) /\ {r} \in SUBSET Pending
      BY <2>1, AssertionsHold
  <2>3. /\ RequestAbandon({r}, "timeout")
        /\ UNCHANGED <<loopVars, transportVars>>
      BY <1>1, <2>1, <2>2 DEF OnRpcTimeout
  <2> QED
      BY <2>2, <2>3, AbandoningKeeps
         DEF SameEmission, loopVars, transportVars, peerVars
<1>2. CASE EmitRequestError(r) \/ EmitRequestEnd(r)
    BY <1>2, IdleKeeps
       DEF EmitRequestError, EmitRequestEnd, SameEmission, requestVars, loopVars,
           transportVars, peerVars
<1> QED
    BY <1>1, <1>2 DEF RequestStep
-----------------------------------------------------------------------------
(* The peer's steps *)

\* The peer takes a request off the queue and serves it.
LEMMA AcceptsPromise ==
    ASSUME IInv, IInv', PeerInv, PeerAccepts
    PROVE  PeerInv'
<1>1. /\ fc_msgencoder # <<>> /\ fc_msgencoder' = Tail(fc_msgencoder)
      /\ UNCHANGED <<fc_pending, fc_abandoned, frq_msgid, running,
                     fc_msgdecoder>>
    BY DEF PeerAccepts, requestVars, loopVars
<1>2. /\ fc_msgencoder \in Seq([msgid : MsgIds, req : Requests])
      /\ peer \in [MsgIds -> Requests \cup {None}]
      /\ Len(fc_msgdecoder) \in Nat
    BY DEF IInv, TypeOK, PeerTypeOK, DecoderTypeOK
<1>3. /\ Len(fc_msgencoder) \in Nat \ {0}
      /\ Head(fc_msgencoder) = fc_msgencoder[1]
      /\ Len(fc_msgencoder') = Len(fc_msgencoder) - 1
      /\ \A i \in 1 .. Len(fc_msgencoder') :
            fc_msgencoder'[i] = fc_msgencoder[i + 1]
    BY <1>1, <1>2, TailMeans
<1>4. PICK x \in MsgIds, r \in Requests :
        fc_msgencoder[1].msgid = x /\ fc_msgencoder[1].req = r
    BY <1>3, QueueTypes DEF IInv, TypeOK
<1>5. peer' = [peer EXCEPT ![x] = r]
    BY <1>3, <1>4 DEF PeerAccepts
<1>6. HeldOnce' /\ \A id \in MsgIds : Held(id)' = Held(id)
    BY <1>1, SameTables DEF PeerInv
<1>7. /\ Held(x) = r /\ peer[x] = None
      /\ \A j \in 1 .. Len(fc_msgencoder) :
            fc_msgencoder[j].msgid = x => 1 = j
      /\ \A j \in 1 .. Len(fc_msgdecoder) : fc_msgdecoder[j].msgid # x
    BY <1>3, <1>4 DEF PeerInv, SentOK
<1>8. SentOK'
  <2> SUFFICES ASSUME NEW i \in 1 .. Len(fc_msgencoder'), NEW id \in MsgIds,
                      fc_msgencoder'[i].msgid = id
               PROVE  /\ Held(id)' = fc_msgencoder'[i].req
                      /\ peer'[id] = None
                      /\ \A j \in 1 .. Len(fc_msgencoder') :
                            fc_msgencoder'[j].msgid = id => i = j
                      /\ \A j \in 1 .. Len(fc_msgdecoder') :
                            fc_msgdecoder'[j].msgid # id
      BY DEF SentOK
  <2>1. PICK k \in 1 .. Len(fc_msgencoder) :
            k = i + 1 /\ fc_msgencoder'[i] = fc_msgencoder[k]
      BY <1>3
  <2>2. /\ Held(id) = fc_msgencoder[k].req /\ peer[id] = None
        /\ \A j \in 1 .. Len(fc_msgencoder) : fc_msgencoder[j].msgid = id => k = j
        /\ \A j \in 1 .. Len(fc_msgdecoder) : fc_msgdecoder[j].msgid # id
      BY <2>1 DEF PeerInv, SentOK
  <2>3. id # x
      BY <1>7, <2>1
  <2>4. ASSUME NEW j \in 1 .. Len(fc_msgencoder'), fc_msgencoder'[j].msgid = id
        PROVE  i = j
    <3>1. /\ j + 1 \in 1 .. Len(fc_msgencoder)
          /\ fc_msgencoder'[j] = fc_msgencoder[j + 1]
        BY <1>3
    <3>2. k = j + 1
        BY <2>2, <2>4, <3>1
    <3> QED
        BY <1>3, <2>1, <3>2
  <2> QED
      BY <1>1, <1>2, <1>5, <1>6, <2>1, <2>2, <2>3, <2>4
<1>9. ServedOK'
  <2> SUFFICES ASSUME NEW id \in MsgIds, peer'[id] # None
               PROVE  Held(id)' = peer'[id] /\ ~LastQueued(id)'
      BY DEF ServedOK
  <2>1. CASE id = x
      BY <1>1, <1>2, <1>5, <1>6, <1>7, <2>1 DEF LastQueued
  <2>2. CASE id # x
      BY <1>1, <1>2, <1>5, <1>6, <2>2 DEF PeerInv, ServedOK, LastQueued, IsLast
  <2> QED
      BY <2>1, <2>2
<1>10. AnswersOK'
    BY <1>1, <1>6 DEF PeerInv, AnswersOK, IsLast
<1>11. EndingOK'
  <2> SUFFICES ASSUME NEW id \in MsgIds, running.kind = "emit",
                      running.status = "end", frq_msgid[running.req] = id
               PROVE  Held(id)' = running.req /\ Unused(id)'
      BY <1>1 DEF EndingOK
  <2>1. Held(id) = running.req /\ Unused(id)
      BY DEF PeerInv, EndingOK
  <2>2. id # x
      BY <1>3, <1>4, <2>1 DEF Unused
  <2>3. peer'[id] = None
      BY <1>2, <1>5, <2>1, <2>2 DEF Unused
  <2>4. ASSUME NEW i \in 1 .. Len(fc_msgencoder')
        PROVE  fc_msgencoder'[i].msgid # id
    <3>1. /\ i + 1 \in 1 .. Len(fc_msgencoder)
          /\ fc_msgencoder'[i] = fc_msgencoder[i + 1]
        BY <1>3
    <3> QED
        BY <2>1, <3>1 DEF Unused
  <2>5. \A i \in 1 .. Len(fc_msgdecoder') : fc_msgdecoder'[i].msgid # id
      BY <1>1, <2>1 DEF Unused
  <2> QED
      BY <1>6, <2>1, <2>3, <2>4, <2>5 DEF Unused
<1> QED
    BY <1>6, <1>8, <1>9, <1>10, <1>11 DEF PeerInv

\* The peer sends a message that is for nobody (x = 0) or for the request it
\* serves under the id x, which it stops serving if the message is the last.
LEMMA SendsPromise ==
    ASSUME IInv, IInv', PeerInv, NEW m \in Event, NEW x,
           fc_msgdecoder' = Append(fc_msgdecoder, m), m.msgid = x,
           UNCHANGED <<requestVars, running, fc_msgencoder>>,
           \A id \in MsgIds \ {x} : peer'[id] = peer[id],
           x \in MsgIds =>
                /\ peer[x] # None /\ m.req = peer[x]
                /\ peer'[x] = IF IsLast(m) THEN None ELSE peer[x]
    PROVE  PeerInv'
<1>1. /\ Len(fc_msgdecoder') = Len(fc_msgdecoder) + 1
      /\ Len(fc_msgdecoder) \in Nat
      /\ \A i \in 1 .. Len(fc_msgdecoder) : fc_msgdecoder'[i] = fc_msgdecoder[i]
      /\ fc_msgdecoder'[Len(fc_msgdecoder) + 1] = m
    BY AppendMeans DEF IInv, TypeOK, DecoderTypeOK
<1>2. \A i \in 1 .. Len(fc_msgdecoder') :
        \/ i \in 1 .. Len(fc_msgdecoder) /\ fc_msgdecoder'[i] = fc_msgdecoder[i]
        \/ i = Len(fc_msgdecoder) + 1 /\ fc_msgdecoder'[i] = m
    BY <1>1
<1>3. HeldOnce' /\ \A id \in MsgIds : Held(id)' = Held(id)
    BY SameTables DEF PeerInv, requestVars
<1>4. x \in MsgIds => Held(x) = peer[x] /\ ~LastQueued(x) /\ ~Unused(x)
    BY DEF PeerInv, ServedOK, Unused
<1>5. SentOK'
  <2> SUFFICES ASSUME NEW i \in 1 .. Len(fc_msgencoder), NEW id \in MsgIds,
                      fc_msgencoder[i].msgid = id
               PROVE  /\ Held(id)' = fc_msgencoder[i].req
                      /\ peer'[id] = None
                      /\ \A j \in 1 .. Len(fc_msgencoder) :
                            fc_msgencoder[j].msgid = id => i = j
                      /\ \A j \in 1 .. Len(fc_msgdecoder') :
                            fc_msgdecoder'[j].msgid # id
      BY DEF SentOK
  <2>1. /\ Held(id) = fc_msgencoder[i].req /\ peer[id] = None
        /\ \A j \in 1 .. Len(fc_msgencoder) : fc_msgencoder[j].msgid = id => i = j
        /\ \A j \in 1 .. Len(fc_msgdecoder) : fc_msgdecoder[j].msgid # id
      BY DEF PeerInv, SentOK
  <2>2. id # x
      BY <2>1
  <2>3. \A j \in 1 .. Len(fc_msgdecoder') : fc_msgdecoder'[j].msgid # id
      BY <1>2, <2>1, <2>2
  <2> QED
      BY <1>3, <2>1, <2>2, <2>3
<1>6. ServedOK'
  <2> SUFFICES ASSUME NEW id \in MsgIds, peer'[id] # None
               PROVE  Held(id)' = peer'[id] /\ ~LastQueued(id)'
      BY DEF ServedOK
  <2>1. peer'[id] = peer[id] /\ (id = x => ~IsLast(m))
      BY DEF IsLast
  <2>2. Held(id) = peer[id] /\ ~LastQueued(id)
      BY <2>1 DEF PeerInv, ServedOK
  <2>3. ASSUME NEW i \in 1 .. Len(fc_msgdecoder'), fc_msgdecoder'[i].msgid = id
        PROVE  ~IsLast(fc_msgdecoder'[i])
      BY <1>2, <2>1, <2>2, <2>3 DEF LastQueued, IsLast
  <2> QED
      BY <1>3, <2>1, <2>2, <2>3 DEF LastQueued, IsLast
<1>7. AnswersOK'
  <2> SUFFICES ASSUME NEW i \in 1 .. Len(fc_msgdecoder'), NEW id \in MsgIds,
                      fc_msgdecoder'[i].msgid = id
               PROVE  /\ fc_msgdecoder'[i].req # None
                      /\ Held(id)' = fc_msgdecoder'[i].req
                      /\ \A j \in 1 .. i - 1 :
                            fc_msgdecoder'[j].msgid = id =>
                                ~IsLast(fc_msgdecoder'[j])
      BY DEF AnswersOK, IsLast
  <2>0. \A j \in 1 .. i - 1 :
            j \in 1 .. Len(fc_msgdecoder) /\ fc_msgdecoder'[j] = fc_msgdecoder[j]
      BY <1>1
  <2>1. CASE i \in 1 .. Len(fc_msgdecoder) /\ fc_msgdecoder'[i] = fc_msgdecoder[i]
    <3>1. /\ fc_msgdecoder[i].req # None /\ Held(id) = fc_msgdecoder[i].req
          /\ \A j \in 1 .. i - 1 :
                fc_msgdecoder[j].msgid = id => ~IsLast(fc_msgdecoder[j])
        BY <2>1 DEF PeerInv, AnswersOK
    <3> QED
        BY <1>3, <2>0, <2>1, <3>1
  <2>2. CASE fc_msgdecoder'[i] = m
    <3>1. x = id /\ Held(id) = peer[id] /\ ~LastQueued(id)
        BY <1>4, <2>2
    <3> QED
        BY <1>3, <2>0, <2>2, <3>1 DEF LastQueued
  <2> QED
      BY <1>2, <2>1, <2>2
<1>8. EndingOK'
  <2> SUFFICES ASSUME NEW id \in MsgIds, running.kind = "emit",
                      running.status = "end", frq_msgid[running.req] = id
               PROVE  Held(id)' = running.req /\ Unused(id)'
      BY DEF EndingOK, requestVars
  <2>1. Held(id) = running.req /\ Unused(id)
      BY DEF PeerInv, EndingOK
  <2>2. id # x
      BY <1>4, <2>1
  <2>3. \A j \in 1 .. Len(fc_msgdecoder') : fc_msgdecoder'[j].msgid # id
      BY <1>2, <2>1, <2>2 DEF Unused
  <2> QED
      BY <1>3, <2>1, <2>2, <2>3 DEF Unused
<1> QED
    BY <1>3, <1>5, <1>6, <1>7, <1>8 DEF PeerInv

\* What an honest peer sends, and the end of the stream.
LEMMA HonestSendsPromise ==
    ASSUME IInv, IInv', PeerInv, NEW m \in Event, Sends(m),
           UNCHANGED <<requestVars, loopVars, fc_msgencoder>>,
           \/ m.msgid = 0 /\ peer' = peer
           \/ \E x \in MsgIds :
                /\ m.msgid = x /\ peer[x] # None /\ m.req = peer[x]
                /\ peer' = IF IsLast(m) THEN [peer EXCEPT ![x] = None] ELSE peer
    PROVE  PeerInv'
<1>1. peer \in [MsgIds -> Requests \cup {None}] /\ 0 \notin MsgIds
    BY DEF IInv, TypeOK, PeerTypeOK, MsgIds
<1>2. CASE m.msgid = 0 /\ peer' = peer
    BY <1>1, <1>2, SendsPromise DEF Sends, loopVars
<1>3. ASSUME NEW x \in MsgIds, m.msgid = x, peer[x] # None, m.req = peer[x],
             peer' = IF IsLast(m) THEN [peer EXCEPT ![x] = None] ELSE peer
      PROVE  PeerInv'
  <2>1. /\ \A id \in MsgIds \ {x} : peer'[id] = peer[id]
        /\ peer'[x] = IF IsLast(m) THEN None ELSE peer[x]
      BY <1>1, <1>3
  <2> QED
      BY <1>3, <2>1, SendsPromise DEF Sends, loopVars
<1> QED
    BY <1>2, <1>3

\* Whatever an honest peer does.
LEMMA PeerPromise ==
    ASSUME IInv, IInv', PeerInv, HonestPeer, PeerStep
    PROVE  PeerInv'
<1>1. CASE PeerAccepts
    BY <1>1, AcceptsPromise
<1>2. ASSUME NEW x \in MsgIds, PeerSendsData(x) PROVE PeerInv'
  <2>1. PICK object \in Object :
            Sends([status |-> "data", msgid |-> x, d |-> <<object>>,
                   req |-> peer[x]])
      BY <1>2 DEF PeerSendsData
  <2> DEFINE m == [status |-> "data", msgid |-> x, d |-> <<object>>,
                   req |-> peer[x]]
  <2>2. peer[x] \in Requests \cup {None} /\ <<object>> \in Seq(Value)
      BY DEF IInv, TypeOK, PeerTypeOK, Value
  <2>3. m \in Event
      BY <2>2 DEF Event, Status
  <2>4. m.msgid = x /\ m.req = peer[x] /\ ~IsLast(m)
      BY DEF IsLast
  <2>5. /\ peer[x] # None /\ peer' = peer
        /\ UNCHANGED <<requestVars, loopVars, fc_msgencoder>>
      BY <1>2 DEF PeerSendsData
  <2> HIDE DEF m
  <2> QED
      BY <2>1, <2>3, <2>4, <2>5, HonestSendsPromise DEF m
<1>3. ASSUME NEW x \in MsgIds, PeerFinishes(x) PROVE PeerInv'
  <2>1. PICK status \in {"end", "error"} :
            Sends([status |-> status, msgid |-> x, d |-> <<>>, req |-> peer[x]])
      BY <1>3 DEF PeerFinishes
  <2> DEFINE m == [status |-> status, msgid |-> x, d |-> <<>>, req |-> peer[x]]
  <2>2. peer[x] \in Requests \cup {None} /\ <<>> \in Seq(Value)
      BY DEF IInv, TypeOK, PeerTypeOK
  <2>3. m \in Event
      BY <2>2 DEF Event, Status
  <2>4. m.msgid = x /\ m.req = peer[x] /\ IsLast(m)
      BY DEF IsLast
  <2>5. /\ peer[x] # None /\ peer' = [peer EXCEPT ![x] = None]
        /\ UNCHANGED <<requestVars, loopVars, fc_msgencoder>>
      BY <1>3 DEF PeerFinishes
  <2> HIDE DEF m
  <2> QED
      BY <2>1, <2>3, <2>4, <2>5, HonestSendsPromise DEF m
<1>4. CASE PeerStops
  <2>1. PICK m \in Event : Sends(m) /\ m.msgid = 0
      BY <1>4 DEF PeerStops, Event
  <2> QED
      BY <1>4, <2>1, HonestSendsPromise DEF PeerStops
<1>5. CASE PeerSendsAnything
    BY <1>5 DEF PeerSendsAnything
<1> QED
    BY <1>1, <1>2, <1>3, <1>4, <1>5 DEF PeerStep
-----------------------------------------------------------------------------
LEMMA InitPromise == Init => PeerInv
BY DEF Init, Idle, PeerInv, HeldOnce, SentOK, ServedOK, AnswersOK, EndingOK

LEMMA StepPromise ==
    ASSUME HonestPeer, IInv, IInv', PeerInv, [Next]_vars
    PROVE  PeerInv'
<1>1. CASE CallerStep
    BY <1>1, CallerPromise
<1>2. CASE HandlerStep
    BY <1>2, ErrorEventsPromise, EmitPromise, EndDonePromise, DataPromise,
       ServerErrorPromise, AbandonedMessagePromise
       DEF HandlerStep
<1>3. CASE OnTransportError
    BY <1>3, ErrorEventsPromise
<1>4. CASE PeerStep
    BY <1>4, PeerPromise
<1>5. CASE \E r \in Requests : RequestStep(r)
    BY <1>5, RequestStepPromise
<1>6. CASE UNCHANGED vars
    BY <1>6, IdleKeeps
       DEF vars, requestVars, loopVars, transportVars, peerVars, SameEmission
<1> QED
    BY <1>1, <1>2, <1>3, <1>4, <1>5, <1>6 DEF Next

\* Whatever the client, its caller and an honest peer do, what is on its way
\* between them leads to the requests it is about.
THEOREM PeerInvariance ==
    ASSUME HonestPeer
    PROVE  Spec => []PeerInv
<1>1. IInv /\ IInv' /\ PeerInv /\ [Next]_vars => PeerInv'
    BY StepPromise
<1> QED
    BY <1>1, InitPromise, Invariance, PTL DEF Spec

\* A message id is not sent again before an honest peer is done with it, for
\* any number of requests and ids and whatever the caller does: abandons, lets
\* time out, detaches, from inside a 'data' listener or not.
THEOREM IdsAreFreshAtPeer ==
    ASSUME HonestPeer
    PROVE  Spec => []MsgIdFreshAtPeer
<1>1. IInv /\ PeerInv => MsgIdFreshAtPeer
  <2> SUFFICES ASSUME IInv, PeerInv PROVE MsgIdFreshAtPeer
      OBVIOUS
  <2>1. \A i \in 1 .. Len(fc_msgencoder) : fc_msgencoder[i].msgid \in MsgIds
      BY QueueTypes DEF IInv, TypeOK
  <2> QED
      BY <2>1 DEF PeerInv, SentOK, MsgIdFreshAtPeer
<1> QED
    BY <1>1, Invariance, PeerInvariance, PTL

LEMMA AnswersHeld == IInv /\ PeerInv => AnswersFindTheirRequest
<1> SUFFICES ASSUME IInv, PeerInv,
                    NEW i \in 1 .. Len(fc_msgdecoder),
                    fc_msgdecoder[i].req # None
             PROVE  fc_msgdecoder[i].req = Held(fc_msgdecoder[i].msgid)
    BY DEF AnswersFindTheirRequest, Held
<1>1. fc_msgdecoder[i] \in Event
    BY ElementType DEF IInv, TypeOK, DecoderTypeOK
<1>2. fc_msgdecoder[i].msgid \in MsgIds
    BY <1>1 DEF Event
<1> QED
    BY <1>2 DEF PeerInv, AnswersOK

\* No answer is for a message id that the client does not know.
LEMMA AnswersKnown ==
    ASSUME IInv, PeerInv, fc_error # "unknown_msgid", [Next]_vars
    PROVE  fc_error' # "unknown_msgid"
<1>1. ~OnUnknownMsgid
  <2> SUFFICES ASSUME OnUnknownMsgid PROVE FALSE
      OBVIOUS
  <2>1. /\ 1 \in 1 .. Len(fc_msgdecoder) /\ Message = fc_msgdecoder[1]
        /\ Message.msgid \in MsgIds
      BY DEF IInv, TypeOK, DecoderTypeOK, OnUnknownMsgid, Message
  <2>2. Held(Message.msgid) # None
      BY <2>1 DEF PeerInv, AnswersOK
  <2> QED
      BY <2>1, <2>2 DEF OnUnknownMsgid, AllocatedIds, Held
<1>2. CASE UNCHANGED clientVars \/ UNCHANGED fc_error
    BY <1>2 DEF clientVars
<1>3. CASE OnDecoderError \/ OnTransportEnd \/ OnTransportError
    BY <1>3 DEF OnDecoderError, OnTransportEnd, OnTransportError, FatalError
<1>4. CASE CallerStep
    BY <1>2, <1>4 DEF CallerStep, Detach, Rpc, Abandon, ReadRequest, Crash
<1>5. CASE PeerStep
    BY <1>2, <1>5
       DEF PeerStep, PeerAccepts, PeerSendsAnything, PeerStops, PeerSendsData,
           PeerFinishes
<1>6. ASSUME NEW r \in Requests, RequestStep(r)
      PROVE  UNCHANGED clientVars
    BY <1>6 DEF RequestStep, OnRpcTimeout, EmitRequestError, EmitRequestEnd, Crash
<1>7. ASSUME HandlerStep
      PROVE  OnDecoderError \/ OnTransportEnd \/ UNCHANGED clientVars
    BY <1>1, <1>7
       DEF HandlerStep, AbandonAll, EmitObject, SkipNull, RejectNull, DataDone,
           EndDone, OnData, OnServerError, OnAbandonedMessage, Crash
<1> QED
    BY <1>2, <1>3, <1>4, <1>5, <1>6, <1>7 DEF Next, vars

\* Every answer of an honest peer finds the request it answers, pending or
\* abandoned: none is given to another request that has its id meanwhile.
THEOREM AnswersArrive ==
    ASSUME HonestPeer
    PROVE  Spec => []AnswersFindTheirRequest
<1> QED
    BY AnswersHeld, Invariance, PeerInvariance, PTL
-----------------------------------------------------------------------------
(* Why the client fails *)

\* The end of the stream, or what is no message, waits in the decoder or has been
\* taken for the client's error.
StreamBroken ==
    \/ \E i \in 1 .. Len(fc_msgdecoder) :
            fc_msgdecoder[i].status \in {"eof", "invalid"}
    \/ fc_error \in {"ended", "protocol"}

\* Requests are failed by fatalError() only, once there is an error.
FatalKnown ==
    /\ running.kind = "fatal" => fc_error # "none"
    /\ \A r \in Requests : frq_error[r] = "fatal" => fc_error # "none"

\* A step that takes messages off the queue at most.
LEMMA ShorterUnbroken ==
    ASSUME DecoderTypeOK, DecoderTypeOK', fc_error' = fc_error,
           Shorter(fc_msgdecoder, fc_msgdecoder'), StreamBroken'
    PROVE  StreamBroken
<1>1. fc_msgdecoder \in Seq(Event) /\ fc_msgdecoder' \in Seq(Event)
    BY DEF DecoderTypeOK
<1>2. ASSUME NEW i \in 1 .. Len(fc_msgdecoder'),
             fc_msgdecoder'[i].status \in {"eof", "invalid"}
      PROVE  StreamBroken
  <2>1. PICK x \in 1 .. Len(fc_msgdecoder) : fc_msgdecoder'[i] = fc_msgdecoder[x]
      BY <1>1, ShorterMember
  <2> QED
      BY <1>2, <2>1 DEF StreamBroken
<1> QED
    BY <1>2 DEF StreamBroken

\* A handler of the decoder's events finds what it is called for in the queue.
LEMMA BrokenByHead ==
    ASSUME DecoderTypeOK, OnDecoderError \/ OnTransportEnd
    PROVE  StreamBroken
<1>1. fc_msgdecoder \in Seq(Event) /\ fc_msgdecoder # <<>>
    BY DEF DecoderTypeOK, OnDecoderError, OnTransportEnd
<1>2. 1 \in 1 .. Len(fc_msgdecoder) /\ Message = fc_msgdecoder[1]
    BY <1>1, TailMeans DEF Message
<1> QED
    BY <1>2 DEF OnDecoderError, OnTransportEnd, StreamBroken

\* A peer that sends a message does not break the stream.
LEMMA SendingUnbroken ==
    ASSUME DecoderTypeOK, NEW m, m.status \in Status, Sends(m),
           fc_error' = fc_error, StreamBroken'
    PROVE  StreamBroken
<1>1. fc_msgdecoder \in Seq(Event)
    BY DEF DecoderTypeOK
<1>2. ASSUME NEW i \in 1 .. Len(fc_msgdecoder'),
             fc_msgdecoder'[i].status \in {"eof", "invalid"}
      PROVE  StreamBroken
  <2>1. fc_msgdecoder'[i] # m
      BY <1>2 DEF Status
  <2>2. i \in 1 .. Len(fc_msgdecoder) /\ fc_msgdecoder'[i] = fc_msgdecoder[i]
      BY <1>1, <1>2, <2>1 DEF Sends
  <2> QED
      BY <1>2, <2>2 DEF StreamBroken
<1> QED
    BY <1>2 DEF StreamBroken

\* Only the peer's stopping breaks the stream.
LEMMA StreamBreaks ==
    ASSUME IInv, IInv', [Next]_vars, StreamBroken'
    PROVE  StreamBroken \/ PeerStops
<1>1. DecoderTypeOK /\ DecoderTypeOK' /\ fc_msgdecoder \in Seq(Event)
    BY DEF IInv, TypeOK, DecoderTypeOK
<1>2. CASE fc_error' = fc_error /\ fc_msgdecoder' = fc_msgdecoder
    BY <1>2 DEF StreamBroken
<1>3. CASE fc_error' = fc_error /\ fc_msgdecoder # <<>>
           /\ fc_msgdecoder' = Tail(fc_msgdecoder)
    BY <1>1, <1>3, QueuesShorten, ShorterUnbroken
<1>4. CASE OnDecoderError \/ OnTransportEnd
    BY <1>1, <1>4, BrokenByHead
<1>5. CASE OnTransportError
  <2>1. fc_error' = "transport" /\ fc_msgdecoder' = fc_msgdecoder
      BY <1>5 DEF OnTransportError, FatalError, transportVars
  <2> QED
      BY <2>1 DEF StreamBroken
<1>6. CASE OnUnknownMsgid
  <2>1. CASE fc_error' = fc_error
      BY <1>3, <1>6, <2>1 DEF OnUnknownMsgid
  <2>2. CASE fc_error' = "unknown_msgid"
    <3>1. Shorter(fc_msgdecoder, fc_msgdecoder')
        BY <1>1, <1>6, QueuesShorten DEF OnUnknownMsgid
    <3>2. PICK i \in 1 .. Len(fc_msgdecoder') :
              fc_msgdecoder'[i].status \in {"eof", "invalid"}
        BY <2>2 DEF StreamBroken
    <3>3. PICK x \in 1 .. Len(fc_msgdecoder) :
              fc_msgdecoder'[i] = fc_msgdecoder[x]
        BY <1>1, <3>1, ShorterMember DEF DecoderTypeOK
    <3> QED
        BY <3>2, <3>3 DEF StreamBroken
  <2> QED
      BY <1>6, <2>1, <2>2 DEF OnUnknownMsgid, FatalError
<1>7. CASE CallerStep
  <2>1. CASE Detach
    <3>1. CASE Crash
        BY <1>2, <3>1 DEF Crash, clientVars, transportVars
    <3>2. CASE ~Crash
      <4>1. fc_error' = fc_error
            /\ \E k \in 0 .. Len(fc_msgdecoder) :
                    fc_msgdecoder' = SubSeq(fc_msgdecoder, 1, k)
          BY <2>1, <3>2 DEF Detach
      <4> QED
          BY <1>1, <4>1, QueuesShorten, ShorterUnbroken
    <3> QED
        BY <3>1, <3>2
  <2>2. CASE ~Detach
      BY <1>2, <1>7, <2>2
         DEF CallerStep, Rpc, Abandon, ReadRequest, Crash, clientVars, transportVars
  <2> QED
      BY <2>1, <2>2
<1>8. CASE HandlerStep
  <2>1. CASE AbandonAll \/ EmitObject \/ SkipNull \/ RejectNull \/ DataDone
             \/ EndDone
      BY <1>2, <2>1
         DEF AbandonAll, EmitObject, SkipNull, RejectNull, DataDone, EndDone,
             Crash, clientVars, transportVars
  <2>2. ASSUME NEW r \in Requests,
               OnData(r) \/ OnServerError(r) \/ OnAbandonedMessage(r)
        PROVE  StreamBroken \/ PeerStops
    <3>1. CASE Crash
        BY <1>2, <3>1 DEF Crash, clientVars, transportVars
    <3>2. CASE ~Crash
        BY <1>3, <2>2, <3>2
           DEF OnData, OnServerError, OnAbandonedMessage, Receives, clientVars
    <3> QED
        BY <3>1, <3>2
  <2> QED
      BY <1>4, <1>6, <1>8, <2>1, <2>2 DEF HandlerStep
<1>9. ASSUME NEW r \in Requests, RequestStep(r)
      PROVE  StreamBroken \/ PeerStops
  <2>1. UNCHANGED <<clientVars, transportVars>>
      BY <1>9
         DEF RequestStep, OnRpcTimeout, EmitRequestError, EmitRequestEnd, Crash
  <2> QED
      BY <1>2, <2>1 DEF clientVars, transportVars
<1>10. CASE PeerStep
  <2>1. CASE PeerAccepts
      BY <1>2, <2>1 DEF PeerAccepts, clientVars
  <2>2. CASE ~PeerAccepts /\ ~PeerStops
    <3>1. fc_error' = fc_error
        BY <1>10, <2>2
           DEF PeerStep, PeerSendsAnything, PeerSendsData, PeerFinishes, clientVars
    <3>2. \E m : Sends(m) /\ m.status \in Status
      <4>1. CASE PeerSendsAnything
        <5>1. PICK status \in Status, id \in MsgIds, d \in Payloads \cup {<<>>} :
                  Sends([status |-> status, msgid |-> id, d |-> d, req |-> None])
            BY <4>1 DEF PeerSendsAnything
        <5> QED
            BY <5>1
      <4>2. ASSUME NEW id \in MsgIds, PeerSendsData(id)
            PROVE  \E m : Sends(m) /\ m.status \in Status
        <5>1. PICK object \in Object :
                  Sends([status |-> "data", msgid |-> id, d |-> <<object>>,
                         req |-> peer[id]])
            BY <4>2 DEF PeerSendsData
        <5> QED
            BY <5>1 DEF Status
      <4>3. ASSUME NEW id \in MsgIds, PeerFinishes(id)
            PROVE  \E m : Sends(m) /\ m.status \in Status
        <5>1. PICK status \in {"end", "error"} :
                  Sends([status |-> status, msgid |-> id, d |-> <<>>,
                         req |-> peer[id]])
            BY <4>3 DEF PeerFinishes
        <5> QED
            BY <5>1 DEF Status
      <4> QED
          BY <1>10, <2>2, <4>1, <4>2, <4>3 DEF PeerStep
    <3> QED
        BY <1>1, <3>1, <3>2, SendingUnbroken
  <2> QED
      BY <2>1, <2>2
<1> QED
    BY <1>2, <1>5, <1>7, <1>8, <1>9, <1>10 DEF Next, vars, clientVars, transportVars

\* What fails with "fatal" fails after an error.
LEMMA FatalStaysKnown ==
    ASSUME IInv, FatalKnown, [Next]_vars
    PROVE  FatalKnown'
<1>1. CASE /\ fc_error # "none" => fc_error' # "none"
           /\ running'.kind = "fatal" => running.kind = "fatal"
           /\ \A r \in Requests :
                 frq_error'[r] = "fatal" => frq_error[r] = "fatal"
    BY <1>1 DEF FatalKnown
<1>2. ASSUME NEW R, NEW cause, RequestFail(R, cause), cause # "fatal"
      PROVE  \A r \in Requests :
                 frq_error'[r] = "fatal" => frq_error[r] = "fatal"
    BY <1>2 DEF RequestFail
<1>3. ASSUME NEW error, error # "none", FatalError(error),
             UNCHANGED frq_error
      PROVE  FatalKnown'
    BY <1>3 DEF FatalError, FatalKnown
<1>4. CASE OnUnknownMsgid \/ OnDecoderError \/ OnTransportError
    BY <1>3, <1>4
       DEF OnUnknownMsgid, OnDecoderError, OnTransportError, requestVars
<1>5. CASE OnTransportEnd
  <2>1. CASE FatalError("ended")
      BY <1>3, <1>5, <2>1 DEF OnTransportEnd, requestVars
  <2>2. CASE UNCHANGED <<fc_error, running>>
      BY <1>1, <1>5, <2>2 DEF OnTransportEnd, requestVars
  <2> QED
      BY <1>5, <2>1, <2>2 DEF OnTransportEnd
<1>6. CASE UNCHANGED <<fc_error, running, frq_error>>
    BY <1>1, <1>6
<1>7. CASE Crash
    BY <1>6, <1>7 DEF Crash, requestVars, clientVars
<1>8. CASE CallerStep
  <2>1. CASE Detach /\ ~Crash
      BY <1>1, <1>2, <2>1 DEF Detach, RequestAbandon, loopVars
  <2>2. ASSUME NEW r \in Requests, Abandon(r), ~Crash PROVE FatalKnown'
      BY <1>1, <1>2, <2>2 DEF Abandon, RequestAbandon, loopVars, clientVars
  <2>3. ASSUME NEW r \in Requests, Rpc(r) PROVE FatalKnown'
    <3>1. UNCHANGED <<fc_error, running>>
        BY <2>3 DEF Rpc, loopVars
    <3>2. \/ frq_error' = frq_error
          \/ frq_error' = [frq_error EXCEPT ![r] = "skipped"]
        BY <2>3 DEF Rpc, RpcSkipped, RpcSent
    <3>3. frq_error \in [Requests -> Causes]
        BY DEF IInv, TypeOK, RequestTypeOK
    <3>4. \A q \in Requests :
                 frq_error'[q] = "fatal" => frq_error[q] = "fatal"
        BY <3>2, <3>3
    <3> QED
        BY <1>1, <3>1, <3>4
  <2>4. ASSUME NEW r \in Requests, ReadRequest(r) PROVE FatalKnown'
      BY <1>6, <2>4 DEF ReadRequest, requestVars, clientVars, loopVars
  <2> QED
      BY <1>7, <1>8, <2>1, <2>2, <2>3, <2>4 DEF CallerStep
<1>9. CASE HandlerStep
  <2>1. CASE AbandonAll /\ ~Crash
    <3>1. fc_error # "none" /\ UNCHANGED fc_error
        BY <2>1 DEF AbandonAll, InHandler, FatalKnown, clientVars
    <3> QED
        BY <3>1 DEF FatalKnown
  <2>2. CASE EmitObject \/ SkipNull \/ DataDone
    <3>1. running.kind = "emit" /\ UNCHANGED <<fc_error, frq_error>>
        BY <2>2
           DEF EmitObject, SkipNull, DataDone, InHandler, requestVars, clientVars
    <3>2. running'.kind \in {"emit", "idle"}
      <4>1. running \in Frame
          BY DEF IInv, TypeOK, LoopTypeOK
      <4>2. DataDone => running' = Idle
          BY DEF DataDone
      <4>3. EmitObject \/ SkipNull => running'.kind = running.kind
          BY <4>1 DEF EmitObject, SkipNull, Frame
      <4> QED
          BY <2>2, <3>1, <4>2, <4>3 DEF Idle
    <3> QED
        BY <1>1, <3>1, <3>2
  <2>3. CASE RejectNull /\ ~Crash
    <3>1. RequestAbandon({running.req} \cap Pending, "null")
          /\ running' = Idle /\ UNCHANGED clientVars
        BY <2>3 DEF RejectNull
    <3>2. \A r \in Requests :
                 frq_error'[r] = "fatal" => frq_error[r] = "fatal"
        BY <1>2, <3>1 DEF RequestAbandon
    <3> QED
        BY <1>1, <3>1, <3>2 DEF Idle, clientVars
  <2>4. CASE EndDone /\ ~Crash
      BY <1>1, <2>4 DEF EndDone, Idle, clientVars
  <2>5. ASSUME NEW r \in Requests, OnData(r), ~Crash PROVE FatalKnown'
      BY <1>1, <2>5 DEF OnData, requestVars, clientVars
  <2>6. ASSUME NEW r \in Requests, OnServerError(r), ~Crash PROVE FatalKnown'
      BY <1>1, <1>2, <2>6 DEF OnServerError, clientVars, loopVars
  <2>7. ASSUME NEW r \in Requests, OnAbandonedMessage(r), ~Crash
        PROVE  FatalKnown'
      BY <1>6, <2>7 DEF OnAbandonedMessage, clientVars, loopVars
  <2> QED
      BY <1>4, <1>5, <1>7, <1>9, <2>1, <2>2, <2>3, <2>4, <2>5, <2>6, <2>7
         DEF HandlerStep
<1>10. ASSUME NEW r \in Requests, RequestStep(r) PROVE FatalKnown'
  <2>1. CASE OnRpcTimeout(r) /\ IsPending(r) /\ ~Crash
      BY <1>1, <1>2, <2>1 DEF OnRpcTimeout, RequestAbandon, clientVars, loopVars
  <2> QED
      BY <1>6, <1>7, <1>10, <2>1
         DEF RequestStep, OnRpcTimeout, EmitRequestError, EmitRequestEnd,
             requestVars, clientVars, loopVars
<1>11. CASE PeerStep
    BY <1>6, <1>11
       DEF PeerStep, PeerAccepts, PeerSendsAnything, PeerStops, PeerSendsData,
           PeerFinishes, requestVars, clientVars, loopVars
<1>12. CASE UNCHANGED vars
    BY <1>6, <1>12 DEF vars, requestVars, clientVars, loopVars
<1> QED
    BY <1>4, <1>8, <1>9, <1>10, <1>11, <1>12 DEF Next
-----------------------------------------------------------------------------
(* The caller's streams *)

\* Which phase a stream is in, by the flags of its request.
PhaseByFlags(r) ==
    IF terminal[r] = <<"end">> THEN "ended"
    ELSE IF terminal[r] = <<"error">> THEN "failed"
    ELSE IF frq_error[r] # "none" THEN "failing"
    ELSE IF r \in frq_done_graceful THEN "ending"
    ELSE IF frq_msgid[r] # 0 THEN "open" ELSE "idle"

LEMMA PhaseMeans ==
    ASSUME StreamOK, NEW r \in Requests
    PROVE  StreamPhase(r) = PhaseByFlags(r)
<1>1. CASE terminal[r] = <<"end">>
    BY <1>1 DEF StreamPhase, PhaseByFlags
<1>2. CASE terminal[r] = <<"error">>
  <2>1. terminal[r] # <<"end">>
      BY <1>2
  <2> QED
      BY <1>2, <2>1 DEF StreamPhase, PhaseByFlags
<1>3. CASE terminal[r] = <<>>
  <2>1. terminal[r] # <<"end">> /\ terminal[r] # <<"error">>
        /\ ~(Len(terminal[r]) > 1)
      BY <1>3
  <2> QED
      BY <1>3, <2>1 DEF StreamPhase, PhaseByFlags
<1> QED
    BY <1>1, <1>2, <1>3 DEF StreamOK

\* A request that is pending has an open stream.
LEMMA PendingIsOpen ==
    ASSUME IInv, StreamOK, NEW r \in Pending
    PROVE  /\ r \in Requests /\ StreamPhase(r) = "open"
           /\ r \notin frq_done_graceful /\ frq_error[r] = "none"
           /\ terminal[r] = <<>> /\ r \notin immediates
<1>1. r \in Requests /\ frq_msgid[r] # 0 /\ IsPending(r)
    BY PendingMeans DEF IInv, TypeOK
<1>2. terminal[r] = <<>>
    BY <1>1 DEF StreamOK, IsPending
<1>3. StreamPhase(r) = "open"
    BY <1>1, <1>2, PhaseMeans DEF PhaseByFlags, IsPending
<1> QED
    BY <1>1, <1>2, <1>3 DEF IsPending, StreamOK

\* The stream of r goes on to another phase, and no other does.
LEMMA MoveMeans ==
    ASSUME NEW r \in Requests, NEW from, NEW to,
           StreamPhase(r) = from, StreamPhase(r)' = to,
           \A q \in Requests \ {r} : StreamPhase(q)' = StreamPhase(q),
           delivered' = delivered
    PROVE  Stream!Move(r, from, to)
BY DEF Stream!Move

\* No stream goes on.
LEMMA StutterMeans ==
    ASSUME \A r \in Requests : StreamPhase(r)' = StreamPhase(r),
           delivered' = delivered
    PROVE  UNCHANGED Stream!vars
BY DEF Stream!vars

\* The same of the next state.
LEMMA NextPhaseMeans ==
    ASSUME StreamOK', NEW r \in Requests
    PROVE  StreamPhase(r)' = PhaseByFlags(r)'
<1>1. CASE terminal'[r] = <<"end">>
    BY <1>1 DEF StreamPhase, PhaseByFlags
<1>2. CASE terminal'[r] = <<"error">>
  <2>1. terminal'[r] # <<"end">>
      BY <1>2
  <2> QED
      BY <1>2, <2>1 DEF StreamPhase, PhaseByFlags
<1>3. CASE terminal'[r] = <<>>
  <2>1. terminal'[r] # <<"end">> /\ terminal'[r] # <<"error">>
        /\ ~(Len(terminal'[r]) > 1)
      BY <1>3
  <2> QED
      BY <1>3, <2>1 DEF StreamPhase, PhaseByFlags
<1> QED
    BY <1>1, <1>2, <1>3 DEF StreamOK

\* What the theorem asks of every step.
StreamGoesOn == Stream!Next \/ UNCHANGED Stream!vars

\* A step that neither emits anything nor decides the outcome of a request.
LEMMA QuietStream ==
    ASSUME StreamOK,
           UNCHANGED <<streamVars, frq_error, frq_done_graceful, immediates,
                       frq_msgid>>
    PROVE  StreamOK' /\ StreamGoesOn
<1>1. StreamOK'
    BY DEF StreamOK, streamVars
<1>2. \A r \in Requests : StreamPhase(r)' = StreamPhase(r)
    BY DEF StreamPhase, streamVars
<1> QED
    BY <1>1, <1>2, StutterMeans DEF streamVars, StreamGoesOn

\* A failed assertion leaves the streams alone.
LEMMA CrashStream ==
    ASSUME StreamOK, Crash
    PROVE  StreamOK' /\ StreamGoesOn
BY QuietStream DEF Crash, requestVars

\* Pending requests fail, any number at once, without or with an answer.
LEMMA FailStream ==
    ASSUME IInv, StreamOK, NEW R \in SUBSET Pending,
           NEW cause \in Causes \ {"none"}, RequestFail(R, cause),
           frq_done_graceful' \in {frq_done_graceful, frq_done_graceful \cup R},
           UNCHANGED <<streamVars, frq_msgid>>
    PROVE  StreamOK' /\ StreamGoesOn
<1>1. \A r \in R : /\ r \in Requests /\ StreamPhase(r) = "open"
                   /\ r \notin frq_done_graceful /\ frq_error[r] = "none"
                   /\ terminal[r] = <<>>
    BY PendingIsOpen
<1>2. /\ frq_error' = [r \in Requests |->
                        IF r \in R THEN cause ELSE frq_error[r]]
      /\ immediates' = immediates \cup R
    BY DEF RequestFail
<1>3. StreamOK'
    BY <1>1, <1>2 DEF StreamOK, streamVars
<1>4. \A r \in R : StreamPhase(r)' = "failing"
  <2> SUFFICES ASSUME NEW r \in R PROVE StreamPhase(r)' = "failing"
      OBVIOUS
  <2>1. r \in Requests /\ terminal'[r] = <<>> /\ frq_error'[r] # "none"
      BY <1>1, <1>2 DEF streamVars
  <2>2. StreamPhase(r)' = PhaseByFlags(r)'
      BY <1>3, <2>1, NextPhaseMeans
  <2> QED
      BY <2>1, <2>2 DEF PhaseByFlags
<1>5. \A r \in Requests \ R : StreamPhase(r)' = StreamPhase(r)
    BY <1>2 DEF StreamPhase, streamVars
<1>6. CASE R = {}
    BY <1>3, <1>5, <1>6, StutterMeans DEF streamVars, StreamGoesOn
<1>7. CASE R # {}
  <2>1. Stream!Fail(R)
      BY <1>1, <1>4, <1>5, <1>7 DEF Stream!Fail, streamVars
  <2> QED
      BY <1>1, <1>3, <2>1 DEF Stream!Next, StreamGoesOn
<1> QED
    BY <1>6, <1>7

\* Abandoning is failing.
LEMMA AbandonStream ==
    ASSUME IInv, StreamOK, NEW R \in SUBSET Pending,
           NEW cause \in Causes \ {"none"}, RequestAbandon(R, cause),
           UNCHANGED streamVars
    PROVE  StreamOK' /\ StreamGoesOn
BY FailStream DEF RequestAbandon

\* rpc() starts the stream, or fails it at once when there is no transport.
LEMMA CallStream ==
    ASSUME IInv, StreamOK, NEW r \in Requests, Rpc(r)
    PROVE  StreamOK' /\ StreamGoesOn
<1>1. PICK id : /\ id \in MsgIds /\ frq_msgid' = [frq_msgid EXCEPT ![r] = id]
                /\ RpcSkipped(r) \/ RpcSent(r, id)
  <2> DEFINE id == Allocator!Alloc(ida_nextid, AllocatedIds)
  <2>1. id \in MsgIds
      BY AllocReturnsFree DEF Rpc, IInv, TypeOK, ClientTypeOK
  <2>2. /\ frq_msgid' = [frq_msgid EXCEPT ![r] = id]
        /\ RpcSkipped(r) \/ RpcSent(r, id)
      BY DEF Rpc
  <2> QED
      BY <2>1, <2>2
<1>2. /\ frq_msgid \in [Requests -> 0 .. MaxMsgId] /\ frq_msgid[r] = 0
      /\ frq_error \in [Requests -> Causes]
      /\ UNCHANGED <<streamVars, frq_done_graceful>>
    BY DEF Rpc, IInv, TypeOK, RequestTypeOK
<1>3. r \notin frq_done_graceful /\ frq_error[r] = "none"
    BY <1>2 DEF IInv, Bookkeeping, Unasked
<1>4. terminal[r] = <<>> /\ StreamPhase(r) = "idle"
  <2>1. terminal[r] = <<>>
      BY <1>3 DEF StreamOK
  <2>2. terminal[r] # <<"end">> /\ terminal[r] # <<"error">>
      BY <2>1
  <2> QED
      BY <1>2, <1>3, <2>1, <2>2, PhaseMeans DEF PhaseByFlags
<1>5. id # 0 /\ frq_msgid'[r] = id /\ \A q \in Requests \ {r} : frq_msgid'[q] = frq_msgid[q]
    BY <1>1, <1>2 DEF MsgIds
<1>6. CASE RpcSent(r, id)
  <2>1. UNCHANGED <<frq_error, immediates>>
      BY <1>6 DEF RpcSent
  <2>2. StreamOK'
      BY <1>2, <2>1 DEF StreamOK, streamVars
  <2>3. StreamPhase(r)' = "open"
      BY <1>2, <1>3, <1>4, <1>5, <2>1, <2>2, NextPhaseMeans
         DEF PhaseByFlags, streamVars
  <2>4. \A q \in Requests \ {r} : StreamPhase(q)' = StreamPhase(q)
      BY <1>2, <1>5, <2>1 DEF StreamPhase, streamVars
  <2>5. Stream!Move(r, "idle", "open")
      BY <1>2, <1>4, <2>3, <2>4, MoveMeans DEF streamVars
  <2> QED
      BY <2>2, <2>5 DEF StreamGoesOn, Stream!Next, Stream!Issue
<1>7. CASE RpcSkipped(r)
  <2>1. /\ frq_error' = [frq_error EXCEPT ![r] = "skipped"]
        /\ immediates' = immediates \cup {r}
      BY <1>7 DEF RpcSkipped
  <2>2. StreamOK'
    <3>1. /\ frq_error'[r] = "skipped" /\ terminal[r] = <<>>
          /\ \A q \in Requests \ {r} : frq_error'[q] = frq_error[q]
        BY <1>2, <1>4, <2>1
    <3>2. terminal[r] # <<"end">> /\ terminal[r] # <<"error">>
        BY <3>1
    <3>3. ASSUME NEW q \in Requests, q # r
          PROVE  /\ frq_error'[q] = frq_error[q]
                 /\ q \in immediates' => q \in immediates
        BY <2>1, <3>1, <3>3
    <3> QED
        BY <1>2, <3>1, <3>2, <3>3 DEF StreamOK, streamVars
  <2>3. StreamPhase(r)' = "failing"
    <3>1. terminal'[r] = <<>> /\ frq_error'[r] = "skipped"
        BY <1>2, <1>4, <2>1 DEF streamVars
    <3> QED
        BY <2>2, <3>1, NextPhaseMeans DEF PhaseByFlags
  <2>4. \A q \in Requests \ {r} : StreamPhase(q)' = StreamPhase(q)
      BY <1>2, <1>5, <2>1 DEF StreamPhase, streamVars
  <2>5. Stream!Move(r, "idle", "failing")
      BY <1>2, <1>4, <2>3, <2>4, MoveMeans DEF streamVars
  <2> QED
      BY <2>2, <2>5 DEF StreamGoesOn, Stream!Next, Stream!Issue
<1> QED
    BY <1>1, <1>6, <1>7

\* The caller's calls start streams and fail them.
LEMMA CallerStream ==
    ASSUME IInv, StreamOK, CallerStep
    PROVE  StreamOK' /\ StreamGoesOn
<1>1. CASE Detach
  <2>1. CASE RequestAbandon(Pending, "detached") /\ UNCHANGED streamVars
      BY <2>1, AbandonStream DEF Causes
  <2> QED
      BY <1>1, <2>1, CrashStream DEF Detach
<1>2. ASSUME NEW r \in Requests, Abandon(r) PROVE StreamOK' /\ StreamGoesOn
  <2>1. CASE RequestAbandon({r}, "user") /\ UNCHANGED streamVars
    <3>1. {r} \in SUBSET Pending
        BY <1>2, AssertionsHold DEF Abandon
    <3> QED
        BY <2>1, <3>1, AbandonStream DEF Causes
  <2> QED
      BY <1>2, <2>1, CrashStream DEF Abandon
<1>3. ASSUME NEW r \in Requests, ReadRequest(r) PROVE FALSE
    BY <1>3 DEF ReadRequest, StreamOK
<1> QED
    BY <1>1, <1>2, <1>3, CallStream DEF CallerStep

\* fatalError() up to the emit, and messages that nobody waits for.
LEMMA EventStream ==
    ASSUME StreamOK,
           \/ OnUnknownMsgid \/ OnDecoderError \/ OnTransportEnd
           \/ OnTransportError \/ DataDone \/ SkipNull
           \/ \E r \in Requests : OnAbandonedMessage(r) \/ OnData(r)
           \/ PeerStep
    PROVE  StreamOK' /\ StreamGoesOn
<1>1. CASE OnUnknownMsgid \/ OnDecoderError \/ OnTransportEnd \/ OnTransportError
    BY <1>1, QuietStream
       DEF OnUnknownMsgid, OnDecoderError, OnTransportEnd, OnTransportError,
           requestVars
<1>2. CASE DataDone \/ SkipNull
    BY <1>2, QuietStream DEF DataDone, SkipNull, requestVars
<1>3. ASSUME NEW r \in Requests, OnAbandonedMessage(r) \/ OnData(r)
      PROVE  StreamOK' /\ StreamGoesOn
    BY <1>3, QuietStream, CrashStream DEF OnAbandonedMessage, OnData, requestVars
<1>4. CASE PeerStep
    BY <1>4, QuietStream
       DEF PeerStep, PeerAccepts, PeerSendsAnything, PeerStops, PeerSendsData,
           PeerFinishes, requestVars
<1> QED
    BY <1>1, <1>2, <1>3, <1>4

\* An END completes its stream.
LEMMA EndStream ==
    ASSUME IInv, StreamOK, EndDone
    PROVE  StreamOK' /\ StreamGoesOn
<1>1. CASE Crash
    BY <1>1, CrashStream
<1>2. CASE Registered(running.req)
  <2>1. PICK r \in Requests : r = running.req /\ frq_msgid[r] # 0
      BY DEF EndDone, InHandler, IInv, FrameOK
  <2>2. r \in Pending
      BY <1>2, <2>1, RegisteredMeans DEF IInv, TypeOK
  <2>3. /\ StreamPhase(r) = "open" /\ r \notin frq_done_graceful
        /\ frq_error[r] = "none" /\ terminal[r] = <<>>
      BY <2>2, PendingIsOpen
  <2>4. /\ frq_done_graceful' = frq_done_graceful \cup {r}
        /\ UNCHANGED <<streamVars, frq_error, immediates, frq_msgid>>
      BY <1>2, <2>1 DEF EndDone
  <2>5. StreamOK'
      BY <2>3, <2>4 DEF StreamOK, streamVars
  <2>6. StreamPhase(r)' = "ending"
    <3>1. /\ terminal'[r] = <<>> /\ frq_error'[r] = "none"
          /\ r \in frq_done_graceful'
        BY <2>3, <2>4 DEF streamVars
    <3>2. terminal'[r] # <<"end">> /\ terminal'[r] # <<"error">>
        BY <3>1
    <3> QED
        BY <2>1, <2>5, <3>1, <3>2, NextPhaseMeans DEF PhaseByFlags
  <2>7. \A q \in Requests \ {r} : StreamPhase(q)' = StreamPhase(q)
      BY <2>4 DEF StreamPhase, streamVars
  <2>8. delivered' = delivered
      BY <2>4 DEF streamVars
  <2>9. Stream!Move(r, "open", "ending")
      BY <2>1, <2>3, <2>6, <2>7, <2>8, MoveMeans
  <2> QED
      BY <2>1, <2>5, <2>9 DEF StreamGoesOn, Stream!Next, Stream!Finish
<1> QED
    BY <1>1, <1>2 DEF EndDone

\* An ERROR fails its stream.
LEMMA ServerErrorStream ==
    ASSUME IInv, StreamOK, NEW r \in Requests, OnServerError(r)
    PROVE  StreamOK' /\ StreamGoesOn
<1>1. CASE Crash
    BY <1>1, CrashStream
<1>2. CASE ReceiveAsserts(r) /\ Registered(r)
  <2>1. /\ RequestFail({r}, "server")
        /\ frq_done_graceful' = frq_done_graceful \cup {r}
        /\ UNCHANGED <<streamVars, frq_msgid>>
      BY <1>2 DEF OnServerError
  <2>2. r \in Pending
      BY ReceivesMeans DEF OnServerError
  <2> QED
      BY <2>1, <2>2, FailStream DEF Causes
<1> QED
    BY <1>1, <1>2 DEF OnServerError

\* A null that the caller did not expect fails its stream.
LEMMA NullStream ==
    ASSUME IInv, StreamOK, AbandonAll \/ RejectNull
    PROVE  StreamOK' /\ StreamGoesOn
<1>1. CASE AbandonAll
    BY <1>1, AbandonStream, CrashStream DEF AbandonAll, Causes
<1>2. CASE RejectNull
    BY <1>2, AbandonStream, CrashStream DEF RejectNull, Causes
<1> QED
    BY <1>1, <1>2

\* A flowing request emits its next object: it is pending, for nothing has
\* happened to it since its message came in.
LEMMA ObjectStream ==
    ASSUME ~Reentrant, Flowing = Requests, IInv, StreamOK, EmitObject
    PROVE  StreamOK' /\ StreamGoesOn
<1> DEFINE r == running.req
           object == Head(running.rest)
<1>1. /\ running.kind = "emit" /\ running.rest # <<>>
      /\ running \in Frame /\ r \in Requests
    BY EmissionGoesOn
<1>2. object \in Object
  <2>1. running.rest \in Seq(Value)
      BY <1>1 DEF Frame
  <2>2. object \in Value
      BY <1>1, <2>1, HeadTailType
  <2> QED
      BY <2>2 DEF EmitObject, Value
<1>3. /\ delivered' = [delivered EXCEPT ![r] = Append(@, object)]
      /\ UNCHANGED <<frq_buffer, terminal, requestVars>>
    BY <1>1 DEF EmitObject
<1>4. StreamPhase(r) = "open"
  <2>1. frq_msgid[r] # 0 /\ IsPending(r)
      BY <1>1 DEF IInv, FrameOK, EmitsPending
  <2>2. r \in Pending
      BY <1>1, <2>1, AssertionsHold
  <2> QED
      BY <2>2, PendingIsOpen
<1> HIDE DEF r, object
<1>5. StreamOK'
    BY <1>3 DEF StreamOK, requestVars
<1>6. \A q \in Requests : StreamPhase(q)' = StreamPhase(q)
    BY <1>3 DEF StreamPhase, requestVars
<1>7. Stream!Emit(r, object)
    BY <1>1, <1>3, <1>4, <1>6 DEF Stream!Emit
<1> QED
    BY <1>1, <1>2, <1>5, <1>7 DEF StreamGoesOn, Stream!Next

\* The one event that reports the outcome: 'end' after an END, 'error' after a
\* failure.
LEMMA OutcomeStream ==
    ASSUME IInv, StreamOK, NEW r \in Requests, RequestStep(r)
    PROVE  StreamOK' /\ StreamGoesOn
<1>1. CASE OnRpcTimeout(r)
  <2>1. CASE RequestAbandon({r}, "timeout") /\ UNCHANGED streamVars /\ IsPending(r)
    <3>1. frq_msgid[r] # 0
        BY <1>1 DEF OnRpcTimeout, IInv, Bookkeeping, PendingAgrees
    <3>2. {r} \in SUBSET Pending
        BY <2>1, <3>1, AssertionsHold
    <3> QED
        BY <2>1, <3>2, AbandonStream DEF Causes
  <2> QED
      BY <1>1, <2>1, QuietStream, CrashStream DEF OnRpcTimeout
<1>2. CASE EmitRequestError(r)
  <2>1. /\ r \in immediates /\ immediates' = immediates \ {r}
        /\ terminal' = [terminal EXCEPT ![r] = Append(@, "error")]
        /\ UNCHANGED <<frq_msgid, frq_error, frq_done_graceful, frq_buffer,
                       delivered>>
      BY <1>2 DEF EmitRequestError
  <2>2. terminal[r] = <<>> /\ frq_error[r] # "none"
      BY <2>1 DEF StreamOK
  <2>3. /\ DOMAIN terminal = Requests /\ Append(<<>>, "error") = <<"error">>
        /\ <<"error">> # <<"end">> /\ <<"error">> # <<>>
      BY DEF IInv, TypeOK, StreamTypeOK
  <2>4. /\ terminal'[r] = <<"error">>
        /\ \A q \in Requests \ {r} : terminal'[q] = terminal[q]
      BY <2>1, <2>2, <2>3
  <2>5. StreamOK'
      BY <2>1, <2>2, <2>3, <2>4 DEF StreamOK
  <2>6. StreamPhase(r) = "failing"
    <3>1. terminal[r] # <<"end">> /\ terminal[r] # <<"error">>
        BY <2>2
    <3> QED
        BY <2>2, <3>1, PhaseMeans DEF PhaseByFlags
  <2>7. StreamPhase(r)' = "failed"
      BY <2>3, <2>4, <2>5, NextPhaseMeans DEF PhaseByFlags
  <2>8. \A q \in Requests \ {r} : StreamPhase(q)' = StreamPhase(q)
      BY <2>1, <2>4 DEF StreamPhase
  <2>9. Stream!Move(r, "failing", "failed")
      BY <2>1, <2>6, <2>7, <2>8, MoveMeans
  <2> QED
      BY <2>5, <2>9 DEF StreamGoesOn, Stream!Next, Stream!EmitError
<1>3. CASE EmitRequestEnd(r)
  <2>1. /\ r \in frq_done_graceful /\ frq_error[r] = "none"
        /\ \A i \in 1 .. Len(terminal[r]) : terminal[r][i] # "end"
        /\ terminal' = [terminal EXCEPT ![r] = Append(@, "end")]
        /\ UNCHANGED <<frq_msgid, frq_error, frq_done_graceful, frq_buffer,
                       delivered, immediates>>
      BY <1>3 DEF EmitRequestEnd, EndDue, requestVars
  <2>2. terminal[r] = <<>>
    <3>1. terminal[r] # <<"end">>
      <4> SUFFICES ASSUME terminal[r] = <<"end">> PROVE FALSE
          OBVIOUS
      <4>1. Len(terminal[r]) = 1 /\ terminal[r][1] = "end"
          OBVIOUS
      <4> QED
          BY <2>1, <4>1
    <3> QED
        BY <2>1, <3>1 DEF StreamOK
  <2>3. /\ DOMAIN terminal = Requests /\ Append(<<>>, "end") = <<"end">>
        /\ <<"end">> # <<"error">> /\ <<"end">> # <<>>
      BY DEF IInv, TypeOK, StreamTypeOK
  <2>4. /\ terminal'[r] = <<"end">>
        /\ \A q \in Requests \ {r} : terminal'[q] = terminal[q]
      BY <2>1, <2>2, <2>3
  <2>5. StreamOK'
      BY <2>1, <2>2, <2>3, <2>4 DEF StreamOK
  <2>6. StreamPhase(r) = "ending"
    <3>1. terminal[r] # <<"end">> /\ terminal[r] # <<"error">>
        BY <2>2
    <3> QED
        BY <2>1, <2>2, <3>1, PhaseMeans DEF PhaseByFlags
  <2>7. StreamPhase(r)' = "ended"
      BY <2>3, <2>4, <2>5, NextPhaseMeans DEF PhaseByFlags
  <2>8. \A q \in Requests \ {r} : StreamPhase(q)' = StreamPhase(q)
      BY <2>1, <2>4 DEF StreamPhase
  <2>9. Stream!Move(r, "ending", "ended")
      BY <2>1, <2>6, <2>7, <2>8, MoveMeans
  <2> QED
      BY <2>5, <2>9 DEF StreamGoesOn, Stream!Next, Stream!EmitEnd
<1> QED
    BY <1>1, <1>2, <1>3 DEF RequestStep

\* Every step of the client is a step of its streams, or none.
LEMMA StreamStep ==
    ASSUME ~Reentrant, Flowing = Requests, IInv, StreamOK, [Next]_vars
    PROVE  StreamOK' /\ StreamGoesOn
<1>1. CASE CallerStep
    BY <1>1, CallerStream
<1>2. CASE HandlerStep
    BY <1>2, EventStream, NullStream, ObjectStream, EndStream, ServerErrorStream
       DEF HandlerStep
<1>3. CASE OnTransportError \/ PeerStep
    BY <1>3, EventStream
<1>4. CASE \E r \in Requests : RequestStep(r)
    BY <1>4, OutcomeStream
<1>5. CASE UNCHANGED vars
    BY <1>5, QuietStream DEF vars, requestVars
<1> QED
    BY <1>1, <1>2, <1>3, <1>4, <1>5 DEF Next

\* No stream has begun at first.
LEMMA InitStream == Init => StreamOK /\ Stream!Init
<1> SUFFICES ASSUME Init PROVE StreamOK /\ Stream!Init
    OBVIOUS
<1>1. StreamOK
    BY DEF Init, StreamOK
<1>2. \A r \in Requests : StreamPhase(r) = "idle"
  <2> SUFFICES ASSUME NEW r \in Requests PROVE StreamPhase(r) = "idle"
      OBVIOUS
  <2>1. /\ terminal[r] = <<>> /\ frq_error[r] = "none" /\ frq_msgid[r] = 0
        /\ r \notin frq_done_graceful
      BY DEF Init
  <2>2. terminal[r] # <<"end">> /\ terminal[r] # <<"error">>
      BY <2>1
  <2> QED
      BY <1>1, <2>1, <2>2, PhaseMeans DEF PhaseByFlags
<1> QED
    BY <1>1, <1>2 DEF Init, Stream!Init

\* Each request is a stream of objects that ends with exactly one 'end' or
\* 'error' and nothing after its outcome is decided, for any number of requests
\* and any peer: for callers that read with a 'data' listener and stay out of
\* the API in it.  (In a listener, abandon() breaks the promise; a caller that
\* reads with read() is given what was buffered before the failure.)
THEOREM StreamsKeepTheirPromise ==
    ASSUME ~Reentrant, Flowing = Requests
    PROVE  Spec => StreamSafety
<1>1. Init => StreamOK /\ Stream!Init
    BY InitStream
<1>2. IInv /\ StreamOK /\ [Next]_vars => StreamOK' /\ [Stream!Next]_(Stream!vars)
    BY StreamStep DEF StreamGoesOn
<1> QED
    BY <1>1, <1>2, Invariance, PTL DEF Spec, StreamSafety
-----------------------------------------------------------------------------
(* What the client waits for *)

Stopped == \E i \in 1 .. Len(fc_msgdecoder) :
                fc_msgdecoder[i].status \in {"eof", "invalid"}

\* A client that nothing more can come to knows it, or will know.
StreamOpen == decoder_open \/ Stopped \/ Disconnected

\* requestEmitData() is emitting the END of the request with this id.
EmitsEnd(id) ==
    /\ running.kind = "emit" /\ running.status = "end"
    /\ running.req = fc_pending[id]

\* A pending request is yet to be answered, or its END is being emitted.
Awaited ==
    \A id \in MsgIds :
        fc_pending[id] # None /\ ~Disconnected => Outstanding(id) \/ EmitsEnd(id)

\* The queues when a message is taken, and when one is added.
LEMMA TakingStops ==
    ASSUME DecoderTypeOK, fc_msgdecoder # <<>>, Stopped,
           Message.status \in Status, fc_msgdecoder' = Tail(fc_msgdecoder)
    PROVE  Stopped'
<1>1. /\ Len(fc_msgdecoder) \in Nat \ {0} /\ Message = fc_msgdecoder[1]
      /\ Len(fc_msgdecoder') = Len(fc_msgdecoder) - 1
      /\ \A i \in 1 .. Len(fc_msgdecoder') :
            fc_msgdecoder'[i] = fc_msgdecoder[i + 1]
    BY TailMeans DEF DecoderTypeOK, Message
<1>2. PICK i \in 1 .. Len(fc_msgdecoder) :
            fc_msgdecoder[i].status \in {"eof", "invalid"}
    BY DEF Stopped
<1>3. i # 1
    BY <1>1, <1>2 DEF Status
<1>4. PICK j \in 1 .. Len(fc_msgdecoder') : j + 1 = i
    BY <1>1, <1>2, <1>3
<1> QED
    BY <1>1, <1>2, <1>4 DEF Stopped

LEMMA AddingStops ==
    ASSUME DecoderTypeOK, Stopped, NEW m, fc_msgdecoder' = Append(fc_msgdecoder, m)
    PROVE  Stopped'
<1>1. Len(fc_msgdecoder') = Len(fc_msgdecoder) + 1
      /\ \A i \in 1 .. Len(fc_msgdecoder) : fc_msgdecoder'[i] = fc_msgdecoder[i]
      /\ Len(fc_msgdecoder) \in Nat
    BY AppendMeans DEF DecoderTypeOK
<1> QED
    BY <1>1 DEF Stopped

LEMMA StreamStaysOpen ==
    ASSUME IInv, StreamOpen, [Next]_vars
    PROVE  StreamOpen'
<1>0. DecoderTypeOK
    BY DEF IInv, TypeOK
<1>1. CASE Disconnected'
    BY <1>1 DEF StreamOpen
<1>2. CASE /\ UNCHANGED <<fc_msgdecoder, decoder_open>>
           /\ UNCHANGED <<fc_error, fc_detached, fc_transport_ended>>
    BY <1>2 DEF StreamOpen, Stopped, Disconnected
<1>3. CASE Crash \/ UNCHANGED vars
    BY <1>2, <1>3 DEF Crash, vars, clientVars, transportVars, peerVars
<1>4. CASE OnUnknownMsgid \/ OnDecoderError \/ OnTransportEnd \/ OnTransportError
    BY <1>1, <1>4
       DEF OnUnknownMsgid, OnDecoderError, OnTransportEnd, OnTransportError,
           FatalError, Disconnected
<1>5. CASE CallerStep /\ ~Crash
  <2>1. CASE Detach
      BY <1>1, <1>5, <2>1 DEF Detach, Disconnected
  <2>2. CASE ~Detach
      BY <1>2, <1>5, <2>2
         DEF CallerStep, Rpc, Abandon, ReadRequest, clientVars, transportVars,
             peerVars
  <2> QED
      BY <2>1, <2>2
<1>6. CASE (AbandonAll \/ EmitObject \/ SkipNull \/ RejectNull \/ DataDone
            \/ EndDone) /\ ~Crash
    BY <1>2, <1>6
       DEF AbandonAll, EmitObject, SkipNull, RejectNull, DataDone, EndDone,
           clientVars, transportVars, peerVars
<1>7. ASSUME NEW r \in Requests, ~Crash,
             OnData(r) \/ OnServerError(r) \/ OnAbandonedMessage(r)
      PROVE  StreamOpen'
  <2>1. /\ fc_msgdecoder # <<>> /\ Message.status \in Status
        /\ fc_msgdecoder' = Tail(fc_msgdecoder)
        /\ UNCHANGED <<clientVars, decoder_open>>
      BY <1>7 DEF OnData, OnServerError, OnAbandonedMessage, Receives, peerVars
  <2> QED
      BY <1>0, <2>1, TakingStops DEF StreamOpen, Disconnected, clientVars
<1>8. ASSUME NEW r \in Requests, RequestStep(r), ~Crash
      PROVE  StreamOpen'
    BY <1>2, <1>8
       DEF RequestStep, OnRpcTimeout, EmitRequestError, EmitRequestEnd,
           clientVars, transportVars, peerVars
<1>9. CASE PeerAccepts
    BY <1>2, <1>9 DEF PeerAccepts, clientVars
<1>10. ASSUME NEW m, Sends(m), UNCHANGED <<clientVars, decoder_open>>
       PROVE  StreamOpen'
    BY <1>0, <1>10, AddingStops DEF Sends, StreamOpen, Disconnected, clientVars
<1>11. CASE PeerSendsAnything \/ \E id \in MsgIds : PeerSendsData(id) \/ PeerFinishes(id)
    BY <1>10, <1>11 DEF PeerSendsAnything, PeerSendsData, PeerFinishes
<1>12. CASE PeerStops
  <2>1. PICK status \in {"eof", "invalid"} :
            Sends([status |-> status, msgid |-> 0, d |-> <<>>, req |-> None])
      BY <1>12 DEF PeerStops
  <2>2. /\ Len(fc_msgdecoder) + 1 \in 1 .. Len(fc_msgdecoder')
        /\ fc_msgdecoder'[Len(fc_msgdecoder) + 1].status = status
    <3>1. fc_msgdecoder \in Seq(Event) /\ Len(fc_msgdecoder) \in Nat
        BY <1>0 DEF DecoderTypeOK
    <3> QED
        BY <2>1, <3>1, AppendMeans DEF Sends
  <2> QED
      BY <2>2 DEF StreamOpen, Stopped
<1> QED
    BY <1>3, <1>4, <1>5, <1>6, <1>7, <1>8, <1>9, <1>11, <1>12
       DEF Next, HandlerStep, PeerStep

\* What is outstanding stays so when a message of another id, or one that is not
\* the last, is taken.
LEMMA TakingAwaits ==
    ASSUME DecoderTypeOK, fc_msgdecoder # <<>>, NEW id \in MsgIds, Outstanding(id),
           fc_msgdecoder' = Tail(fc_msgdecoder), UNCHANGED <<peer, fc_msgencoder>>,
           Message.msgid # id \/ Message.status = "data"
    PROVE  Outstanding(id)'
<1>1. /\ Len(fc_msgdecoder) \in Nat \ {0} /\ Message = fc_msgdecoder[1]
      /\ Len(fc_msgdecoder') = Len(fc_msgdecoder) - 1
      /\ \A i \in 1 .. Len(fc_msgdecoder') :
            fc_msgdecoder'[i] = fc_msgdecoder[i + 1]
    BY TailMeans DEF DecoderTypeOK, Message
<1>2. ASSUME NEW i \in 1 .. Len(fc_msgdecoder), fc_msgdecoder[i].msgid = id,
             fc_msgdecoder[i].status # "data"
      PROVE  Outstanding(id)'
  <2>1. i # 1
      BY <1>1, <1>2
  <2>2. PICK j \in 1 .. Len(fc_msgdecoder') : j + 1 = i
      BY <1>1, <2>1
  <2> QED
      BY <1>1, <1>2, <2>2 DEF Outstanding
<1> QED
    BY <1>2 DEF Outstanding

\* What is added to a queue takes nothing away.
LEMMA AddingAwaits ==
    ASSUME DecoderTypeOK, PeerTypeOK, NEW id \in MsgIds, Outstanding(id),
           peer[id] # None => peer'[id] # None,
           \/ fc_msgencoder' = fc_msgencoder
           \/ \E m : fc_msgencoder' = Append(fc_msgencoder, m),
           \/ fc_msgdecoder' = fc_msgdecoder
           \/ \E m : fc_msgdecoder' = Append(fc_msgdecoder, m)
    PROVE  Outstanding(id)'
<1>1. /\ Len(fc_msgencoder) \in Nat /\ Len(fc_msgdecoder) \in Nat
      /\ fc_msgencoder \in Seq([msgid : MsgIds, req : Requests])
      /\ fc_msgdecoder \in Seq(Event)
    BY DEF DecoderTypeOK, PeerTypeOK
<1>2. /\ Len(fc_msgencoder') \in {Len(fc_msgencoder), Len(fc_msgencoder) + 1}
      /\ \A i \in 1 .. Len(fc_msgencoder) : fc_msgencoder'[i] = fc_msgencoder[i]
    BY <1>1, AppendMeans
<1>3. /\ Len(fc_msgdecoder') \in {Len(fc_msgdecoder), Len(fc_msgdecoder) + 1}
      /\ \A i \in 1 .. Len(fc_msgdecoder) : fc_msgdecoder'[i] = fc_msgdecoder[i]
    BY <1>1, AppendMeans
<1>4. /\ \A i \in 1 .. Len(fc_msgencoder) : i \in 1 .. Len(fc_msgencoder')
      /\ \A i \in 1 .. Len(fc_msgdecoder) : i \in 1 .. Len(fc_msgdecoder')
    BY <1>1, <1>2, <1>3
<1> QED
    BY <1>2, <1>3, <1>4 DEF Outstanding

\* A step that sends and takes nothing, and emits the END it was emitting unless
\* the request is over.
LEMMA CalmAwaits ==
    ASSUME Awaited, UNCHANGED <<peer, fc_msgencoder, fc_msgdecoder>>, Calm,
           running.kind = "emit" /\ running.status = "end" =>
              \/ /\ running'.kind = "emit" /\ running'.status = "end"
                 /\ running'.req = running.req
              \/ \A id \in MsgIds :
                    fc_pending'[id] # None => fc_pending'[id] # running.req
    PROVE  Awaited'
<1> SUFFICES ASSUME NEW id \in MsgIds, fc_pending'[id] # None, ~Disconnected'
             PROVE  Outstanding(id)' \/ EmitsEnd(id)'
    BY DEF Awaited
<1>1. fc_pending'[id] = fc_pending[id] /\ ~Disconnected
    BY DEF Calm, Quiet, Disconnected
<1>2. Outstanding(id) \/ EmitsEnd(id)
    BY <1>1 DEF Awaited
<1>3. Outstanding(id)' <=> Outstanding(id)
    BY DEF Outstanding
<1> QED
    BY <1>1, <1>2, <1>3 DEF EmitsEnd

\* A message is taken: of a request that goes on, or whose END is then emitted,
\* or that is over.
LEMMA MessageAwaits ==
    ASSUME IInv, IInv', Awaited, NEW r \in Requests,
           OnData(r) \/ OnServerError(r) \/ OnAbandonedMessage(r)
    PROVE  Awaited'
<1>1. CASE Crash
    BY <1>1, NothingIsCalm, CalmAwaits DEF Crash, transportVars, peerVars
<1>2. CASE ~Crash
  <2> DEFINE m == Message
  <2>1. /\ running.kind = "idle" /\ fc_msgdecoder # <<>> /\ m.status \in Status
        /\ fc_msgdecoder' = Tail(fc_msgdecoder) /\ DecoderTypeOK
        /\ UNCHANGED <<clientVars, peer, fc_msgencoder>>
      BY <1>2
         DEF OnData, OnServerError, OnAbandonedMessage, Receives, InHandler,
             peerVars, IInv, TypeOK
  <2>2. \A id \in MsgIds : fc_pending'[id] \in {fc_pending[id], None}
    <3>1. CASE OnData(r) \/ OnAbandonedMessage(r)
        BY <1>2, <3>1 DEF OnData, OnAbandonedMessage, requestVars
    <3>2. CASE OnServerError(r)
        BY <1>2, <3>2 DEF OnServerError, RequestFail, RequestComplete
    <3> QED
        BY <3>1, <3>2
  <2>3. ASSUME NEW id \in MsgIds, fc_pending'[id] # None, ~Disconnected'
        PROVE  Outstanding(id)' \/ EmitsEnd(id)'
    <3>1. fc_pending'[id] = fc_pending[id] /\ ~Disconnected
        BY <2>1, <2>2, <2>3 DEF Disconnected, clientVars
    <3>2. Outstanding(id)
        BY <2>1, <2>3, <3>1 DEF Awaited, EmitsEnd
    <3>3. CASE m.msgid # id \/ m.status = "data"
        BY <2>1, <3>2, <3>3, TakingAwaits
    <3>4. CASE m.msgid = id /\ m.status # "data"
      <4>1. OnData(r)
        <5>1. ~OnAbandonedMessage(r)
            BY <2>3, <3>1, <3>4 DEF OnAbandonedMessage
        <5>2. ~OnServerError(r)
            BY <1>2, <2>3, <3>1, <3>4
               DEF OnServerError, Receives, RequestFail, RequestComplete
        <5> QED
            BY <5>1, <5>2
      <4>2. /\ running'.kind = "emit" /\ running'.req = r
            /\ running'.status = m.status
            /\ m.status = "end" /\ fc_pending[id] = r
          BY <1>2, <3>4, <4>1 DEF OnData, Receives
      <4> QED
          BY <3>1, <4>2 DEF EmitsEnd
    <3> QED
        BY <3>3, <3>4
  <2> QED
      BY <2>3 DEF Awaited
<1> QED
    BY <1>1, <1>2

\* The rest of a handler: the END that was emitted is the end of the request.
LEMMA HandlerAwaits ==
    ASSUME IInv, Awaited,
           AbandonAll \/ EmitObject \/ SkipNull \/ RejectNull \/ DataDone \/ EndDone
    PROVE  Awaited'
<1>1. CASE Crash
    BY <1>1, NothingIsCalm, CalmAwaits DEF Crash, transportVars, peerVars
<1>2. UNCHANGED <<clientVars, peer, fc_msgencoder, fc_msgdecoder>>
    BY DEF AbandonAll, EmitObject, SkipNull, RejectNull, DataDone, EndDone, Crash,
           transportVars, peerVars
<1>3. CASE AbandonAll /\ ~Crash
  <2>1. \A id \in MsgIds : fc_pending'[id] = None
      BY <1>3 DEF AbandonAll, RequestAbandon, RequestFail, RequestComplete, Pending
  <2> QED
      BY <2>1 DEF Awaited
<1>4. CASE EmitObject \/ SkipNull
  <2>1. /\ running.kind = "emit" /\ running'.kind = "emit"
        /\ running'.req = running.req /\ running'.status = running.status
      BY <1>4, EmissionGoesOn DEF EmitObject, SkipNull, InHandler, IInv, Frame
  <2>2. Calm
      BY <1>2, <1>4, <2>1
         DEF EmitObject, SkipNull, Calm, Quiet, clientVars, requestVars
  <2> QED
      BY <1>2, <2>1, <2>2, CalmAwaits
<1>5. CASE DataDone
  <2>1. running.kind = "emit" /\ running.status = "data"
        /\ fc_pending' = fc_pending
      BY <1>5 DEF DataDone, InHandler, requestVars
  <2>2. Calm
      BY <1>2, <2>1 DEF Calm, Quiet, clientVars
  <2> QED
      BY <1>2, <2>1, <2>2, CalmAwaits
<1>6. CASE (RejectNull \/ EndDone) /\ ~Crash
  <2>1. running.kind = "emit" /\ RequestComplete({running.req} \cap Pending)
    <3>1. CASE RejectNull
        BY <1>6, <3>1 DEF RejectNull, InHandler, RequestAbandon, RequestFail
    <3>2. CASE EndDone
      <4>1. running.kind = "emit" /\ running.status = "end"
            /\ Registered(running.req) /\ RequestComplete({running.req})
          BY <1>6, <3>2 DEF EndDone, InHandler
      <4>2. running.req \in Requests /\ frq_msgid[running.req] \in MsgIds
          BY <4>1 DEF IInv, FrameOK, TypeOK, RequestTypeOK, MsgIds
      <4>3. {running.req} \cap Pending = {running.req}
          BY <4>1, <4>2, ClientAssumption DEF Registered, Pending
      <4> QED
          BY <4>1, <4>3
    <3> QED
        BY <1>6, <3>1, <3>2
  <2>2. \A id \in MsgIds : fc_pending'[id] # None => fc_pending'[id] # running.req
      BY <2>1 DEF RequestComplete, Pending
  <2>3. Calm
      BY <1>2, <2>1, CompletingIsCalm
  <2> QED
      BY <1>2, <2>2, <2>3, CalmAwaits
<1> QED
    BY <1>1, <1>3, <1>4, <1>5, <1>6

\* A request that is sent is on its way; the caller ends no other in a step that
\* leaves the client connected.
LEMMA CallerAwaits ==
    ASSUME IInv, Awaited, CallerStep
    PROVE  Awaited'
<1>1. CASE Crash
    BY <1>1, NothingIsCalm, CalmAwaits DEF Crash, transportVars, peerVars
<1>2. CASE Detach /\ ~Crash
    BY <1>2 DEF Detach, Disconnected, Awaited
<1>3. ASSUME NEW r \in Requests, Abandon(r) \/ ReadRequest(r), ~Crash
      PROVE  Awaited'
  <2>1. UNCHANGED <<clientVars, running, peer, fc_msgencoder, fc_msgdecoder>>
      BY <1>3 DEF Abandon, ReadRequest, loopVars, transportVars, peerVars
  <2>2. Calm
    <3>1. CASE Abandon(r)
        BY <1>3, <2>1, <3>1, CompletingIsCalm
           DEF Abandon, RequestAbandon, RequestFail
    <3>2. CASE ReadRequest(r)
        BY <2>1, <3>2, NothingIsCalm DEF ReadRequest
    <3> QED
        BY <1>3, <3>1, <3>2
  <2> QED
      BY <2>1, <2>2, CalmAwaits
<1>4. ASSUME NEW r \in Requests, Rpc(r) PROVE Awaited'
  <2>1. PICK x \in MsgIds \ AllocatedIds :
            x = Allocator!Alloc(ida_nextid, AllocatedIds)
      BY <1>4, AllocReturnsFree DEF Rpc, IInv, TypeOK, ClientTypeOK
  <2>2. RpcSkipped(r) \/ RpcSent(r, x)
      BY <1>4, <2>1 DEF Rpc
  <2>3. UNCHANGED <<fc_error, fc_detached, fc_transport_ended, running, peer,
                    fc_msgdecoder>>
      BY <1>4 DEF Rpc, loopVars
  <2>4. CASE RpcSkipped(r)
      BY <2>3, <2>4 DEF RpcSkipped, Disconnected, Awaited
  <2>5. CASE RpcSent(r, x)
    <3>1. /\ DecoderTypeOK /\ PeerTypeOK
          /\ fc_pending \in [MsgIds -> Requests \cup {None}]
        BY DEF IInv, TypeOK, RequestTypeOK
    <3>2. /\ fc_pending' = [fc_pending EXCEPT ![x] = r]
          /\ fc_msgencoder' = Append(fc_msgencoder, [msgid |-> x, req |-> r])
          /\ ~Disconnected
        BY <2>5 DEF RpcSent
    <3>3. Outstanding(x)'
      <4>1. /\ Len(fc_msgencoder) + 1 \in 1 .. Len(fc_msgencoder')
            /\ fc_msgencoder'[Len(fc_msgencoder) + 1].msgid = x
          BY <3>1, <3>2, AppendMeans DEF PeerTypeOK
      <4> QED
          BY <4>1 DEF Outstanding
    <3>4. ASSUME NEW id \in MsgIds, id # x, fc_pending'[id] # None
          PROVE  Outstanding(id)' \/ EmitsEnd(id)'
      <4>1. fc_pending'[id] = fc_pending[id]
          BY <2>1, <3>1, <3>2, <3>4
      <4>2. Outstanding(id) \/ EmitsEnd(id)
          BY <3>2, <3>4, <4>1 DEF Awaited
      <4>3. Outstanding(id) => Outstanding(id)'
          BY <2>3, <3>1, <3>2, AddingAwaits
      <4> QED
          BY <2>3, <4>1, <4>2, <4>3 DEF EmitsEnd
    <3> QED
        BY <3>3, <3>4 DEF Awaited
  <2> QED
      BY <2>2, <2>4, <2>5
<1> QED
    BY <1>1, <1>2, <1>3, <1>4 DEF CallerStep

\* The peer takes requests, and what it stops serving it has answered.
LEMMA PeerAwaits ==
    ASSUME IInv, Awaited, HonestPeer, PeerStep
    PROVE  Awaited'
<1>1. /\ DecoderTypeOK /\ PeerTypeOK
      /\ peer \in [MsgIds -> Requests \cup {None}]
      /\ Len(fc_msgdecoder) \in Nat /\ fc_msgdecoder \in Seq(Event)
      /\ fc_msgencoder \in Seq([msgid : MsgIds, req : Requests])
    BY DEF IInv, TypeOK, DecoderTypeOK, PeerTypeOK
<1>2. UNCHANGED <<requestVars, clientVars, running>>
    BY DEF PeerStep, PeerAccepts, PeerSendsAnything, PeerStops, PeerSendsData,
           PeerFinishes, loopVars
<1>3. SUFFICES ASSUME NEW id \in MsgIds, Outstanding(id)
               PROVE  Outstanding(id)'
    BY <1>2 DEF Awaited, EmitsEnd, Disconnected, requestVars, clientVars
<1>4. CASE PeerAccepts
  <2>1. /\ fc_msgencoder # <<>> /\ fc_msgencoder' = Tail(fc_msgencoder)
        /\ UNCHANGED fc_msgdecoder
      BY <1>4 DEF PeerAccepts
  <2>2. /\ Len(fc_msgencoder) \in Nat \ {0}
        /\ Head(fc_msgencoder) = fc_msgencoder[1]
        /\ Len(fc_msgencoder') = Len(fc_msgencoder) - 1
        /\ \A i \in 1 .. Len(fc_msgencoder') :
              fc_msgencoder'[i] = fc_msgencoder[i + 1]
      BY <1>1, <2>1, TailMeans
  <2>3. PICK x \in MsgIds, r \in Requests :
          fc_msgencoder[1].msgid = x /\ fc_msgencoder[1].req = r
      BY <1>1, <2>2, QueueTypes
  <2>4. peer' = [peer EXCEPT ![x] = r] /\ r # None
      BY <1>4, <2>2, <2>3, ClientAssumption DEF PeerAccepts
  <2>5. peer[id] # None \/ id = x => peer'[id] # None
      BY <1>1, <2>4
  <2>6. ASSUME NEW i \in 1 .. Len(fc_msgencoder), fc_msgencoder[i].msgid = id,
               id # x
        PROVE  Outstanding(id)'
    <3>1. i # 1
        BY <2>3, <2>6
    <3>2. PICK j \in 1 .. Len(fc_msgencoder') : j + 1 = i
        BY <2>2, <3>1
    <3> QED
        BY <2>2, <2>6, <3>2 DEF Outstanding
  <2>7. ASSUME NEW i \in 1 .. Len(fc_msgdecoder), fc_msgdecoder[i].msgid = id,
               fc_msgdecoder[i].status # "data"
        PROVE  Outstanding(id)'
      BY <2>1, <2>7 DEF Outstanding
  <2>8. CASE peer[id] # None \/ id = x
      BY <2>5, <2>8 DEF Outstanding
  <2> QED
      BY <1>3, <2>6, <2>7, <2>8 DEF Outstanding
<1>5. ASSUME NEW m, fc_msgdecoder' = Append(fc_msgdecoder, m),
             UNCHANGED <<peer, fc_msgencoder>>
      PROVE  Outstanding(id)'
    BY <1>1, <1>3, <1>5, AddingAwaits
<1>6. CASE PeerStops \/ \E x \in MsgIds : PeerSendsData(x)
    BY <1>5, <1>6 DEF PeerStops, PeerSendsData, Sends
<1>7. ASSUME NEW x \in MsgIds, PeerFinishes(x) PROVE Outstanding(id)'
  <2>1. PICK status \in {"end", "error"} :
            Sends([status |-> status, msgid |-> x, d |-> <<>>, req |-> peer[x]])
      BY <1>7 DEF PeerFinishes
  <2>2. /\ peer' = [peer EXCEPT ![x] = None] /\ UNCHANGED fc_msgencoder
        /\ fc_msgdecoder' = Append(fc_msgdecoder,
              [status |-> status, msgid |-> x, d |-> <<>>, req |-> peer[x]])
      BY <1>7, <2>1 DEF PeerFinishes, Sends
  <2>3. CASE id = x
    <3>1. /\ Len(fc_msgdecoder) + 1 \in 1 .. Len(fc_msgdecoder')
          /\ fc_msgdecoder'[Len(fc_msgdecoder) + 1].msgid = x
          /\ fc_msgdecoder'[Len(fc_msgdecoder) + 1].status = status
        BY <1>1, <2>2, AppendMeans
    <3> QED
        BY <2>1, <2>3, <3>1 DEF Outstanding
  <2>4. CASE id # x
    <3>1. peer[id] # None => peer'[id] # None
        BY <1>1, <2>2, <2>4
    <3> QED
        BY <1>1, <1>3, <2>2, <3>1, AddingAwaits
  <2> QED
      BY <2>3, <2>4
<1>8. ~PeerSendsAnything
    BY DEF PeerSendsAnything
<1> QED
    BY <1>4, <1>6, <1>7, <1>8 DEF PeerStep

\* The client of an honest peer waits for what is still to come.
LEMMA StaysAwaited ==
    ASSUME HonestPeer, IInv, IInv', Awaited, [Next]_vars
    PROVE  Awaited'
<1>1. CASE OnUnknownMsgid \/ OnDecoderError \/ OnTransportEnd \/ OnTransportError
    BY <1>1
       DEF OnUnknownMsgid, OnDecoderError, OnTransportEnd, OnTransportError,
           FatalError, Disconnected, Awaited
<1>2. ASSUME NEW r \in Requests, RequestStep(r) PROVE Awaited'
  <2>1. /\ running' = running
        /\ UNCHANGED <<clientVars, peer, fc_msgencoder, fc_msgdecoder>>
      BY <1>2
         DEF RequestStep, OnRpcTimeout, EmitRequestError, EmitRequestEnd, Crash,
             loopVars, transportVars, peerVars
  <2>2. Calm
    <3>1. CASE fc_pending' = fc_pending
        BY <2>1, <3>1 DEF Calm, Quiet, clientVars
    <3>2. CASE RequestAbandon({r}, "timeout")
        BY <2>1, <3>2, CompletingIsCalm DEF RequestAbandon, RequestFail
    <3> QED
        BY <1>2, <3>1, <3>2
           DEF RequestStep, OnRpcTimeout, EmitRequestError, EmitRequestEnd, Crash,
               requestVars
  <2> QED
      BY <2>1, <2>2, CalmAwaits
<1>3. CASE UNCHANGED vars
    BY <1>3, NothingIsCalm, CalmAwaits
       DEF vars, loopVars, transportVars, peerVars
<1> QED
    BY <1>1, <1>2, <1>3, MessageAwaits, HandlerAwaits, CallerAwaits, PeerAwaits
       DEF Next, HandlerStep

\* Where no request is made, or the client is disconnected, nothing pending comes
\* to a client that has nothing pending or is disconnected.
LEMMA NothingIsAdded ==
    ASSUME IInv, [Next]_vars, Disconnected \/ Pending = {},
           Disconnected \/ UNCHANGED frq_msgid
    PROVE  Disconnected' \/ Pending' = {}
<1>1. CASE Disconnected'
    BY <1>1
<1>2. CASE /\ UNCHANGED <<fc_error, fc_detached, fc_transport_ended>>
           /\ \A id \in MsgIds : fc_pending'[id] \in {fc_pending[id], None}
    BY <1>2 DEF Disconnected, Pending
<1>3. CASE UNCHANGED <<requestVars, clientVars>>
    BY <1>2, <1>3 DEF requestVars, clientVars
<1>4. CASE Crash \/ PeerStep \/ UNCHANGED vars
    BY <1>3, <1>4
       DEF Crash, PeerStep, PeerAccepts, PeerSendsAnything, PeerStops,
           PeerSendsData, PeerFinishes, vars
<1>5. CASE OnUnknownMsgid \/ OnDecoderError \/ OnTransportEnd \/ OnTransportError
    BY <1>1, <1>5
       DEF OnUnknownMsgid, OnDecoderError, OnTransportEnd, OnTransportError,
           FatalError, Disconnected
<1>6. ASSUME UNCHANGED clientVars,
             fc_pending' = fc_pending \/ \E R : RequestComplete(R)
      PROVE  Disconnected' \/ Pending' = {}
    BY <1>2, <1>6 DEF RequestComplete, clientVars
<1>7. CASE CallerStep /\ ~Crash
  <2>1. CASE Detach
      BY <1>1, <1>7, <2>1 DEF Detach, Disconnected
  <2>2. ASSUME NEW r \in Requests, Abandon(r) \/ ReadRequest(r)
        PROVE  Disconnected' \/ Pending' = {}
      BY <1>6, <1>7, <2>2
         DEF Abandon, ReadRequest, RequestAbandon, RequestFail, requestVars
  <2>3. ASSUME NEW r \in Requests, Rpc(r)
        PROVE  Disconnected' \/ Pending' = {}
    <3>1. PICK x \in MsgIds : x = Allocator!Alloc(ida_nextid, AllocatedIds)
        BY <2>3, AllocReturnsFree DEF Rpc, IInv, TypeOK, ClientTypeOK
    <3>2. frq_msgid'[r] = x /\ frq_msgid[r] = 0 /\ x # 0
        BY <2>3, <3>1 DEF Rpc, IInv, TypeOK, RequestTypeOK, MsgIds
    <3>3. UNCHANGED <<fc_error, fc_detached, fc_transport_ended>>
        BY <2>3 DEF Rpc
    <3> QED
        BY <1>1, <3>2, <3>3 DEF Disconnected
  <2> QED
      BY <1>7, <2>1, <2>2, <2>3 DEF CallerStep
<1>8. CASE (AbandonAll \/ EmitObject \/ SkipNull \/ RejectNull \/ DataDone
            \/ EndDone) /\ ~Crash
    BY <1>6, <1>8
       DEF AbandonAll, EmitObject, SkipNull, RejectNull, DataDone, EndDone,
           RequestAbandon, RequestFail, requestVars
<1>9. ASSUME NEW r \in Requests, ~Crash,
             \/ OnData(r) \/ OnServerError(r) \/ OnAbandonedMessage(r)
             \/ RequestStep(r)
      PROVE  Disconnected' \/ Pending' = {}
    BY <1>6, <1>9
       DEF OnData, OnServerError, OnAbandonedMessage, RequestStep, OnRpcTimeout,
           EmitRequestError, EmitRequestEnd, RequestAbandon, RequestFail,
           requestVars
<1> QED
    BY <1>4, <1>5, <1>7, <1>8, <1>9 DEF Next, HandlerStep
=============================================================================
