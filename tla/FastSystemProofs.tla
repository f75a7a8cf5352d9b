-------------------------- MODULE FastSystemProofs --------------------------
(***************************************************************************)
(* Theorems about a client, a server and the connection between them, for  *)
(* any number of calls, message ids and objects.                           *)
(*                                                                         *)
(* The server's invariants are those of FastServerProofs and               *)
(* FastServerResponses, the client's those of FastClientPromises, taken    *)
(* over by instance.  Linked is what holds the two ends together: which    *)
(* call is where, and what the server still owes the client.               *)
(***************************************************************************)
EXTENDS FastSystem, FastServerResponses

Client == INSTANCE FastClientPromises
        WITH fc_pending <- c_pending, immediates <- c_immediates,
             crashed <- c_crashed, fc_msgencoder <- c_msgencoder,
             Object <- Reqs, Payloads <- {}, Flowing <- Requests,
             IgnoreNull <- {}, Timed <- {}, Reentrant <- FALSE,
             HonestPeer <- TRUE, MaxPeerMsgs <- MaxMsgs * MaxWrites

Inbound == inbound[conn]

\* The requests that the client's caller has made.
Asked == {r \in Requests : frq_msgid[r] # 0}

WorldOK == world \in Worlds /\ transport \in {"open", "halfclosed", "destroyed"}

\* What the server has read belongs to the calls queued, and each request of
\* the server is made for one call, with its message id.
CallsOK ==
    /\ queued \in Seq(Requests) /\ call \in [Reqs -> Requests \cup {None}]
    /\ Len(queued) = Len(Inbound)
    /\ \A i \in 1 .. Len(queued) :
          /\ Inbound[i].kind \in {"call", "badcall"}
          /\ queued[i] \in Asked /\ Inbound[i].msgid = frq_msgid[queued[i]]
    /\ \A i \in 1 .. Len(c_msgencoder) :
          /\ c_msgencoder[i].req \in Asked
          /\ c_msgencoder[i].msgid = frq_msgid[c_msgencoder[i].req]
    /\ \A q \in Reqs :
          IF fsr_state[q] = "none" THEN call[q] = None
          ELSE call[q] \in Asked /\ fsr_msgid[q] = frq_msgid[call[q]]

\* A call is in one place: on its way, queued at the server, or taken on, once.
OnceOK ==
    /\ \A i, j \in 1 .. Len(c_msgencoder) :
          c_msgencoder[i].req = c_msgencoder[j].req => i = j
    /\ \A i, j \in 1 .. Len(queued) : queued[i] = queued[j] => i = j
    /\ \A i \in 1 .. Len(c_msgencoder), j \in 1 .. Len(queued) :
          c_msgencoder[i].req # queued[j]
    /\ \A q \in Reqs :
          /\ \A i \in 1 .. Len(c_msgencoder) : c_msgencoder[i].req # call[q]
          /\ \A j \in 1 .. Len(queued) : queued[j] # call[q]
    /\ \A p, q \in Reqs : call[p] = call[q] /\ call[p] # None => p = q

\* The server has taken q on and has not written its last message.
Owes(q) ==
    fsr_state[q] # "none" /\ \A i \in 1 .. Len(wire[q]) : wire[q][i] = "data"

\* Answers still reach the client's decoder.
Heard == decoder_open /\ transport # "destroyed"

\* As long as answers are heard, the client's view of its peer is what the
\* server is about: the calls it has queued and those it owes an answer.
PeerOK ==
    Heard =>
        /\ \A i \in 1 .. Len(queued) : peer[frq_msgid[queued[i]]] = queued[i]
        /\ \A q \in Reqs : Owes(q) => peer[frq_msgid[call[q]]] = call[q]

\* The DATA messages written to the socket.
DataWritten ==
    {place \in Reqs \X (1 .. MaxWrites) :
        place[2] <= Len(wire[place[1]]) /\ wire[place[1]][place[2]] = "data"}

\* The bounds of the client's peer are those of the server and its handlers.
CountsOK ==
    /\ nmsgs + Len(c_msgencoder) <= Cardinality(Asked)
    /\ \A q \in Reqs : nwritten[q] <= MaxWrites
    /\ npeer <= Cardinality(DataWritten)

Linked == WorldOK /\ CallsOK /\ OnceOK /\ PeerOK /\ CountsOK

SystemInv ==
    /\ IInv /\ RInv /\ Client!IInv /\ Client!PeerInv /\ Linked
-----------------------------------------------------------------------------
(* The client's module and its invariants, as instances *)

LEMMA ClientAssumed ==
    /\ Client!IsFiniteSet(Requests) /\ None \notin Requests
    /\ MaxMsgId \in Nat /\ MaxMsgId > 1
    /\ NoMsgId \notin Nat
    /\ Null \notin Reqs
    /\ {} \subseteq Seq(Reqs \cup {Null})
    /\ Requests \subseteq Requests /\ {} \subseteq Requests
    /\ {} \subseteq Requests
    /\ FALSE \in BOOLEAN /\ TRUE \in BOOLEAN
    /\ MaxMsgs * MaxWrites \in Nat
<1>1. Client!IsFiniteSet(Requests)
    BY SystemAssumption DEF Client!IsFiniteSet, IsFiniteSet
<1>2. MaxMsgs \in Nat /\ MaxWrites \in Nat
    BY ServerAssumption
<1>3. MaxMsgs * MaxWrites \in Nat
    BY <1>2
<1>4. Null \notin Reqs
    BY <1>2, SystemAssumption DEF Reqs
<1> QED
    BY <1>1, <1>3, <1>4, SystemAssumption

LEMMA ClientInits == C!Init => Client!Init
BY Zenon DEF C!Init, Client!Init, C!MsgIds, Client!MsgIds, C!Idle, Client!Idle

LEMMA ClientSteps == C!Next => Client!Next
BY Zenon DEF C!Cardinality, Client!Cardinality,
         C!Allocator!Min, Client!Allocator!Min,
         C!Next, Client!Next, C!CallerStep, Client!CallerStep, C!HandlerStep,
         Client!HandlerStep, C!OnTransportError, Client!OnTransportError,
         C!PeerStep, Client!PeerStep, C!RequestStep, Client!RequestStep,
         C!Detach, Client!Detach, C!Rpc, Client!Rpc, C!Abandon,
         Client!Abandon, C!ReadRequest, Client!ReadRequest, C!OnUnknownMsgid,
         Client!OnUnknownMsgid, C!OnDecoderError, Client!OnDecoderError,
         C!OnTransportEnd, Client!OnTransportEnd, C!AbandonAll,
         Client!AbandonAll, C!EmitObject, Client!EmitObject, C!SkipNull,
         Client!SkipNull, C!RejectNull, Client!RejectNull, C!DataDone,
         Client!DataDone, C!EndDone, Client!EndDone, C!OnData, Client!OnData,
         C!OnServerError, Client!OnServerError, C!OnAbandonedMessage,
         Client!OnAbandonedMessage, C!InHandler, Client!InHandler,
         C!FatalError, Client!FatalError, C!requestVars, Client!requestVars,
         C!streamVars, Client!streamVars, C!transportVars,
         Client!transportVars, C!PeerAccepts, Client!PeerAccepts,
         C!PeerSendsAnything, Client!PeerSendsAnything, C!PeerStops,
         Client!PeerStops, C!MsgIds, Client!MsgIds, C!PeerSendsData,
         Client!PeerSendsData, C!PeerFinishes, Client!PeerFinishes,
         C!OnRpcTimeout, Client!OnRpcTimeout, C!EmitRequestError,
         Client!EmitRequestError, C!EmitRequestEnd, Client!EmitRequestEnd,
         C!CallerRuns, Client!CallerRuns, C!AbandonAllAsserts,
         Client!AbandonAllAsserts, C!RequestAbandon, Client!RequestAbandon,
         C!Pending, Client!Pending, C!loopVars, Client!loopVars, C!Crash,
         Client!Crash, C!AllocatedIds, Client!AllocatedIds, C!RpcSkipped,
         Client!RpcSkipped, C!RpcSent, Client!RpcSent, C!IsPending,
         Client!IsPending, C!Registered, Client!Registered, C!clientVars,
         Client!clientVars, C!Message, Client!Message, C!Status,
         Client!Status, C!peerVars, Client!peerVars, C!Idle, Client!Idle,
         C!RequestComplete, Client!RequestComplete, C!Receives,
         Client!Receives, C!ReceiveAsserts, Client!ReceiveAsserts,
         C!RequestFail, Client!RequestFail, C!GivesIdBack,
         Client!GivesIdBack, C!Sends, Client!Sends, C!EndDue, Client!EndDue,
         C!Disconnected, Client!Disconnected, C!Allocator!Alloc,
         Client!Allocator!Alloc, C!Allocator!Successor,
         Client!Allocator!Successor, C!Allocator!Ids, Client!Allocator!Ids

LEMMA ClientStutters == UNCHANGED C!vars <=> UNCHANGED Client!vars
BY DEF C!vars, Client!vars, C!requestVars, Client!requestVars, C!clientVars,
       Client!clientVars, C!streamVars, Client!streamVars, C!loopVars,
       Client!loopVars, C!transportVars, Client!transportVars, C!peerVars,
       Client!peerVars

\* What was proved of the client holds of this one.
LEMMA ClientKeeps ==
    ASSUME Client!IInv, Client!PeerInv, [C!Next]_(C!vars)
    PROVE  Client!IInv' /\ Client!PeerInv'
<1>1. [Client!Next]_(Client!vars)
    BY ClientSteps, ClientStutters
<1>2. Client!IInv'
    BY <1>1, ClientAssumed, Client!StepKeeps
<1> QED
    BY <1>1, <1>2, ClientAssumed, Client!StepPromise
-----------------------------------------------------------------------------
(* Types *)

\* The head and the tail of a queue.
LEMMA HeadMeans ==
    ASSUME NEW S, NEW q \in Seq(S), q # <<>>
    PROVE  /\ Len(q) \in Nat \ {0} /\ Head(q) = q[1] /\ q[1] \in S
           /\ Len(Tail(q)) = Len(q) - 1 /\ Tail(q) \in Seq(S)
           /\ \A i \in 1 .. Len(Tail(q)) :
                 Tail(q)[i] = q[i + 1] /\ i + 1 \in 1 .. Len(q)
OBVIOUS

LEMMA AppendMeans ==
    ASSUME NEW S, NEW q \in Seq(S), NEW x \in S
    PROVE  /\ Len(q) \in Nat /\ Len(Append(q, x)) = Len(q) + 1
           /\ Append(q, x) \in Seq(S) /\ Append(q, x)[Len(q) + 1] = x
           /\ \A i \in 1 .. Len(q) : Append(q, x)[i] = q[i]
OBVIOUS

LEMMA ClientTypes ==
    ASSUME Client!IInv
    PROVE  /\ c_msgencoder \in Seq([msgid : CallIds, req : Requests])
           /\ frq_msgid \in [Requests -> 0 .. MaxMsgId]
           /\ peer \in [CallIds -> Requests \cup {None}]
           /\ npeer \in Nat /\ decoder_open \in BOOLEAN
BY SystemAssumption
   DEF Client!IInv, Client!TypeOK, Client!RequestTypeOK, Client!PeerTypeOK,
       Client!MsgIds

LEMMA ServerTypes ==
    ASSUME IInv
    PROVE  /\ conn \in Conns /\ conn # None
           /\ Inbound \in Seq([kind : Kinds, msgid : CallIds \cup {None}])
           /\ inbound \in [Conns -> Seq([kind : Kinds, msgid : CallIds \cup {None}])]
           /\ nmsgs \in Nat
           /\ fsr_state \in [Reqs -> States]
           /\ fsr_msgid \in [Reqs -> CallIds \cup {None}]
           /\ fc_msgencoder[conn] \in Seq(Messages)
           /\ wire \in [Reqs -> Seq(Status)]
           /\ nwritten \in [Reqs -> Nat]
BY SystemAssumption, ServerAssumption
   DEF Inbound, IInv, TypeOK, InputTypeOK, TableTypeOK, OutTypeOK, PipeTypeOK,
       Messages

\* A call on its way is the client's, and its message id one of the client's.
LEMMA AskedMeans ==
    ASSUME Client!IInv, NEW r \in Asked
    PROVE  r \in Requests /\ r # None /\ frq_msgid[r] \in CallIds
BY ClientTypes, SystemAssumption DEF Asked

LEMMA AskedFinite ==
    /\ IsFiniteSet(Asked) /\ Cardinality(Asked) \in Nat
    /\ Cardinality(Asked) <= MaxMsgs
<1>1. IsFiniteSet(Requests) /\ Asked \subseteq Requests
    BY SystemAssumption DEF Asked
<1>2. /\ IsFiniteSet(Asked) /\ Cardinality(Asked) <= Cardinality(Requests)
    BY <1>1, FS_Subset
<1>3. Cardinality(Asked) \in Nat /\ Cardinality(Requests) \in Nat
    BY <1>1, <1>2, FS_CardinalityType
<1> QED
    BY <1>2, <1>3, SystemAssumption, ServerAssumption
-----------------------------------------------------------------------------
(* Every step of the system is a step of the server's module *)

LEMMA CallIsSent ==
    ASSUME SystemInv, CallArrives
    PROVE  ClientSends(conn)
<1>1. /\ c_msgencoder \in Seq([msgid : CallIds, req : Requests])
      /\ c_msgencoder # <<>>
    BY ClientTypes DEF SystemInv, CallArrives
<1>2. Head(c_msgencoder).msgid \in CallIds /\ Len(c_msgencoder) \in Nat \ {0}
  <2>1. c_msgencoder[1] \in [msgid : CallIds, req : Requests]
      BY <1>1, HeadMeans
  <2> QED
      BY <1>1, <2>1, HeadMeans
<1>3. nmsgs < MaxMsgs
    BY <1>2, AskedFinite, ServerTypes, ServerAssumption
       DEF SystemInv, Linked, CountsOK
<1>4. PICK kind \in {"call", "badcall"} :
          inbound' = [inbound EXCEPT ![conn] =
                Append(@, [kind |-> kind, msgid |-> Head(c_msgencoder).msgid])]
    BY DEF CallArrives
<1>5. kind \in Kinds
    BY DEF Kinds
<1> QED
    BY <1>2, <1>3, <1>4, <1>5 DEF CallArrives, ClientSends

LEMMA ServerTakesStep ==
    ASSUME SystemInv, [SystemNext]_sysvars
    PROVE  [Next]_vars
<1>1. conn \in Conns
    BY SystemAssumption
<1>2. CASE UNCHANGED serverVars
    BY <1>2 DEF serverVars
<1>3. CASE CallArrives
    BY <1>1, <1>3, CallIsSent DEF Next
<1>4. CASE AnswerArrives
    BY <1>1, <1>4 DEF AnswerArrives, Next
<1>5. CASE ClientGone \/ ConnectionFails \/ CallCut \/ ServerMessage
    BY <1>1, <1>5 DEF ClientGone, ConnectionFails, CallCut, ServerMessage, Next
<1>6. CASE ServerStep \/ ServerUserStep
    BY <1>1, <1>6 DEF ServerStep, ServerUserStep, Next
<1>7. CASE UNCHANGED sysvars
    BY <1>2, <1>7 DEF sysvars
<1> QED
    BY <1>2, <1>3, <1>4, <1>5, <1>6, <1>7
       DEF SystemNext, CallerStep, ClientStep, EndTransport, DestroyTransport,
           TransportFails, ServerGone
-----------------------------------------------------------------------------
(* Every step of the system is a step of the client's module, with the server *)
(* for an honest peer.                                                        *)

\* The next answer is of a request that the server owes one, and as many objects
\* were written to the socket as the handler wrote, at most.
LEMMA NextAnswer ==
    ASSUME SystemInv, SocketWrite(conn),
           NEW m, m = Head(fc_msgencoder[conn])
    PROVE  /\ m.req \in Reqs /\ m.status \in Status /\ Owes(m.req)
           /\ call[m.req] \in Asked
           /\ fsr_msgid[m.req] = frq_msgid[call[m.req]]
           /\ m.status = "data" => Len(wire[m.req]) < MaxWrites
<1> DEFINE q == fc_msgencoder[conn]  r == m.req
<1>1. /\ q \in Seq(Messages) /\ q # <<>> /\ conn \in Conns /\ conn # None
    BY ServerTypes DEF SystemInv, SocketWrite
<1>2. m = q[1] /\ m \in Messages /\ 1 \in 1 .. Len(q)
    BY <1>1, HeadMeans
<1>3. r \in Reqs /\ m.status \in Status
    BY <1>2 DEF Messages
<1>4. fsr_conn[r] = conn
    BY <1>1, <1>2 DEF SystemInv, RInv, EncodersOK
<1>5. EncoderOf(r) = q /\ 1 \in Places(r)
    BY <1>1, <1>2, <1>4 DEF EncoderOf, Places
<1>6. Stages(r) /\ ~NotMade(r)
    BY <1>1, <1>3, <1>4 DEF SystemInv, RInv, PipelinesOK, NotMade
<1>7. fsr_state[r] # "none"
    BY <1>6 DEF Stages, Open, Ending, Ended, Failed, CutOff
<1>8. \A i \in 1 .. Len(wire[r]) : wire[r][i] = "data"
    BY <1>5, <1>6
       DEF Stages, Open, Ending, Ended, Failed, CutOff, AllData, ClosedBy
<1>9. call[r] \in Asked /\ fsr_msgid[r] = frq_msgid[call[r]]
    BY <1>3, <1>7 DEF SystemInv, Linked, CallsOK
<1>10. ASSUME m.status = "data" PROVE Len(wire[r]) < MaxWrites
  <2>1. /\ IsFiniteSet(Places(r)) /\ Cardinality(Places(r)) \in Nat
        /\ Len(wire[r]) \in Nat /\ nwritten[r] \in Nat /\ MaxWrites \in Nat
        /\ nwritten[r] <= MaxWrites
    <3>1. Places(r) = In(q, r)
        BY <1>5 DEF Places, In
    <3>2. IsFiniteSet(Places(r)) /\ Cardinality(Places(r)) \in Nat
        BY <1>1, <3>1, InFinite
    <3>3. wire[r] \in Seq(Status) /\ nwritten[r] \in Nat
        BY <1>3, ServerTypes DEF SystemInv
    <3>4. nwritten[r] <= MaxWrites
        BY <1>3 DEF SystemInv, Linked, CountsOK
    <3>5. Len(wire[r]) \in Nat
        BY <3>3
    <3> QED
        BY <3>2, <3>3, <3>4, <3>5, ServerAssumption
  <2>2. Cardinality(Places(r)) >= 1
      BY <1>5, <2>1, FS_EmptySet
  <2>3. CASE ResponseLen(r) <= nwritten[r]
      BY <2>1, <2>2, <2>3 DEF ResponseLen
  <2>4. CASE /\ ClosedBy(r, "end") \/ ClosedBy(r, "error")
             /\ ResponseLen(r) <= nwritten[r] + 1
    <3>1. PICK last \in Places(r) : EncoderOf(r)[last].status # "data"
        BY <1>5, <2>4 DEF ClosedBy
    <3>2. last # 1
        BY <1>2, <1>5, <1>10, <3>1
    <3>3. Cardinality(Places(r) \ {1}) = Cardinality(Places(r)) - 1
        BY <1>5, <2>1, FS_RemoveElement
    <3>4. Places(r) \ {1} # {} /\ IsFiniteSet(Places(r) \ {1})
        BY <2>1, <3>1, <3>2, FS_Subset
    <3>5. Cardinality(Places(r) \ {1}) # 0
        BY <3>4, FS_EmptySet
    <3>6. Cardinality(Places(r)) >= 2
        BY <2>1, <2>2, <3>3, <3>5
    <3> QED
        BY <2>1, <2>4, <3>6 DEF ResponseLen
  <2>5. TypeOK
      BY DEF SystemInv, IInv
  <2>6. CASE Ended(r)
      BY <1>3, <2>1, <2>4, <2>6 DEF Ended, ResponseLen
  <2>7. CASE Failed(r)
      BY <2>4, <2>7 DEF Failed
  <2> QED
      BY <1>3, <1>6, <2>3, <2>5, <2>6, <2>7, AtMostWritten DEF Stages
<1> QED
    BY <1>3, <1>7, <1>8, <1>9, <1>10 DEF Owes

LEMMA DataCounted ==
    ASSUME SystemInv
    PROVE  /\ IsFiniteSet(DataWritten) /\ Cardinality(DataWritten) \in Nat
           /\ \A q \in Reqs :
                Len(wire[q]) + 1 \in 1 .. MaxWrites =>
                    Cardinality(DataWritten) < MaxMsgs * MaxWrites
<1> DEFINE all == Reqs \X (1 .. MaxWrites)
<1>1. MaxMsgs \in Nat /\ MaxWrites \in Nat
    BY ServerAssumption
<1>2. /\ IsFiniteSet(Reqs) /\ Cardinality(Reqs) = MaxMsgs
      /\ IsFiniteSet(1 .. MaxWrites) /\ Cardinality(1 .. MaxWrites) = MaxWrites
    BY <1>1, FS_Interval DEF Reqs
<1>3. IsFiniteSet(all) /\ Cardinality(all) = MaxMsgs * MaxWrites
    BY <1>2, FS_Product
<1>4. DataWritten \subseteq all
    BY DEF DataWritten
<1>5. IsFiniteSet(DataWritten) /\ Cardinality(DataWritten) \in Nat
    BY <1>3, <1>4, FS_Subset, FS_CardinalityType
<1>6. ASSUME NEW q \in Reqs, Len(wire[q]) + 1 \in 1 .. MaxWrites
      PROVE  Cardinality(DataWritten) < MaxMsgs * MaxWrites
  <2>1. Len(wire[q]) \in Nat
      BY ServerTypes DEF SystemInv
  <2>2. <<q, Len(wire[q]) + 1>> \in all \ DataWritten
      BY <1>6, <2>1 DEF DataWritten
  <2>3. DataWritten # all
      BY <2>2
  <2>4. /\ Cardinality(DataWritten) <= Cardinality(all)
        /\ Cardinality(DataWritten) # Cardinality(all)
      BY <1>3, <1>4, <2>3, FS_Subset
  <2>5. Cardinality(all) \in Nat
      BY <1>3, FS_CardinalityType
  <2>6. Cardinality(DataWritten) < Cardinality(all)
    <3> HIDE DEF all
    <3> QED
        BY <1>5, <2>4, <2>5
  <2> QED
      BY <1>3, <2>6
<1> QED
    BY <1>5, <1>6

\* What the server writes is what an honest peer sends.
LEMMA AnswerIsHonest ==
    ASSUME SystemInv, AnswerArrives
    PROVE  [C!Next]_(C!vars)
<1> DEFINE m == Head(fc_msgencoder[conn])
           r == m.req
           id == fsr_msgid[r]
<1>1. SocketWrite(conn)
    BY DEF AnswerArrives
<1>2. CASE ~Heard
    BY <1>2
       DEF AnswerArrives, Heard, C!vars, C!requestVars, C!clientVars,
           C!streamVars, C!loopVars, C!transportVars, C!peerVars, requestVars,
           stateVars, streamVars, loopVars, pipeEnds, peerVars
<1>3. CASE Heard
  <2>1. /\ r \in Reqs /\ m.status \in Status /\ Owes(r) /\ call[r] \in Asked
        /\ id = frq_msgid[call[r]]
        /\ m.status = "data" => Len(wire[r]) < MaxWrites
      BY <1>1, NextAnswer
  <2>2. id \in CallIds /\ peer[id] = call[r] /\ peer[id] # None
      BY <1>3, <2>1, AskedMeans DEF SystemInv, Linked, PeerOK
  <2>3. C!Sends(Answer(r, m.status))
      BY <1>3 DEF AnswerArrives, Heard
  <2>4. UNCHANGED <<C!requestVars, C!clientVars, C!streamVars, C!loopVars,
                    c_msgencoder, decoder_open>>
      BY <1>3
         DEF AnswerArrives, Heard, C!requestVars, C!clientVars, C!streamVars,
             C!loopVars, requestVars, stateVars, streamVars, loopVars, pipeEnds
  <2>5. CASE m.status = "data"
    <3>1. Len(wire[r]) + 1 \in 1 .. MaxWrites
        BY SMTT(30), <2>1, <2>5, ServerTypes, ServerAssumption DEF SystemInv
    <3>2. npeer < MaxMsgs * MaxWrites
      <4> DEFINE bound == MaxMsgs * MaxWrites
      <4>1. Cardinality(DataWritten) < bound /\ Cardinality(DataWritten) \in Nat
          BY <2>1, <3>1, DataCounted
      <4>2. npeer \in Nat /\ npeer <= Cardinality(DataWritten) /\ bound \in Nat
          BY ClientTypes, ClientAssumed DEF SystemInv, Linked, CountsOK
      <4> HIDE DEF bound
      <4>3. npeer < bound
          BY <4>1, <4>2
      <4> QED
          BY <4>3 DEF bound
    <3>3. Answer(r, m.status) = [status |-> "data", msgid |-> id, d |-> <<r>>,
                                 req |-> peer[id]]
        BY <2>2, <2>5 DEF Answer
    <3>4. npeer' = npeer + 1 /\ UNCHANGED peer
        BY <1>3, <2>5 DEF AnswerArrives, Heard, Answer
    <3>5. C!PeerSendsData(id)
        BY <2>1, <2>2, <2>3, <2>4, <3>2, <3>3, <3>4 DEF C!PeerSendsData
    <3> QED
        BY <2>2, <3>5, SystemAssumption DEF C!Next, C!PeerStep, C!MsgIds
  <2>6. CASE m.status # "data"
    <3>1. m.status \in {"end", "error"}
        BY <2>1, <2>6 DEF Status
    <3>2. Answer(r, m.status) = [status |-> m.status, msgid |-> id, d |-> <<>>,
                                 req |-> peer[id]]
        BY <2>2, <2>6 DEF Answer
    <3>3. peer' = [peer EXCEPT ![id] = None] /\ UNCHANGED npeer
        BY <1>3, <2>6 DEF AnswerArrives, Heard, Answer
    <3>4. C!PeerFinishes(id)
        BY <2>2, <2>3, <2>4, <3>1, <3>2, <3>3 DEF C!PeerFinishes
    <3> QED
        BY <2>2, <3>4, SystemAssumption DEF C!Next, C!PeerStep, C!MsgIds
  <2> QED
      BY <2>5, <2>6
<1> QED
    BY <1>2, <1>3

LEMMA ClientTakesStep ==
    ASSUME SystemInv, [SystemNext]_sysvars
    PROVE  [C!Next]_(C!vars)
<1>1. ASSUME UNCHANGED <<requestVars, stateVars, streamVars, loopVars, pipeEnds,
                         fc_msgdecoder, peerVars>>
      PROVE  UNCHANGED C!vars
    BY <1>1
       DEF C!vars, C!requestVars, C!clientVars, C!streamVars, C!loopVars,
           C!transportVars, C!peerVars, requestVars, stateVars, streamVars,
           loopVars, pipeEnds, peerVars
<1>2. CASE UNCHANGED clientVars
    BY <1>1, <1>2 DEF clientVars
<1>3. CASE CallerStep
  <2>1. world.calls \subseteq Requests
      BY SystemAssumption DEF SystemInv, Linked, WorldOK
  <2> QED
      BY <1>3, <2>1 DEF CallerStep, C!Next, C!CallerStep
<1>4. CASE ClientStep
    BY <1>4 DEF ClientStep, C!Next
<1>5. CASE TransportFails
    BY <1>5 DEF TransportFails, C!Next
<1>6. CASE CallArrives
  <2>1. C!PeerAccepts
      BY <1>6
         DEF CallArrives, C!PeerAccepts, C!requestVars, C!clientVars,
             C!streamVars, C!loopVars, requestVars, stateVars, streamVars,
             loopVars
  <2> QED
      BY <2>1 DEF C!Next, C!PeerStep
<1>7. CASE ServerGone
    BY <1>7 DEF ServerGone, C!Next, C!PeerStep
<1>8. CASE AnswerArrives
    BY <1>8, AnswerIsHonest
<1>9. CASE UNCHANGED sysvars
    BY <1>2, <1>9 DEF sysvars
<1> QED
    BY <1>2, <1>3, <1>5, <1>6, <1>7, <1>8, <1>9, <1>4
       DEF SystemNext, EndTransport, DestroyTransport, ClientGone,
           ConnectionFails, CallCut, ServerMessage, ServerStep, ServerUserStep
-----------------------------------------------------------------------------
(* What links the two ends *)

\* The step is about neither calls nor answers.
Apart ==
    /\ UNCHANGED <<inbound, nmsgs, fsr_msgid, wire, queued, call, world, peer,
                   npeer, c_msgencoder, frq_msgid>>
    /\ \A q \in Reqs : fsr_state'[q] = "none" <=> fsr_state[q] = "none"
    /\ \A q \in Reqs : nwritten'[q] <= MaxWrites
    /\ transport' \in {"open", "halfclosed", "destroyed"}
    /\ Heard' => Heard

LEMMA ApartKeeps ==
    ASSUME Linked, Apart
    PROVE  Linked'
<1>1. Asked' = Asked /\ Inbound' = Inbound /\ DataWritten' = DataWritten
    BY DEF Apart, Asked, Inbound, DataWritten
<1>2. \A q \in Reqs : Owes(q)' => Owes(q)
    BY DEF Apart, Owes
<1>3. WorldOK'
    BY DEF Apart, Linked, WorldOK
<1>4. CallsOK'
    BY <1>1 DEF Apart, Linked, CallsOK
<1>5. OnceOK'
    BY DEF Apart, Linked, OnceOK
<1>6. PeerOK'
    BY <1>2 DEF Apart, Linked, PeerOK
<1>7. CountsOK'
    BY <1>1 DEF Apart, Linked, CountsOK
<1> QED
    BY <1>3, <1>4, <1>5, <1>6, <1>7 DEF Linked

\* A call is made, and sent or not.
Asks(r, id) ==
    /\ frq_msgid[r] = 0 /\ id # 0
    /\ frq_msgid' = [frq_msgid EXCEPT ![r] = id]
    /\ c_msgencoder' \in {c_msgencoder,
                          Append(c_msgencoder, [msgid |-> id, req |-> r])}
    /\ UNCHANGED <<inbound, nmsgs, fsr_state, fsr_msgid, wire, nwritten, queued,
                   call, world, transport, peer, npeer, decoder_open>>

LEMMA CallKeeps ==
    ASSUME SystemInv, NEW r \in Requests, NEW id \in CallIds, Asks(r, id)
    PROVE  Linked'
<1>1. r \notin Asked /\ r # None
    BY SystemAssumption DEF Asks, Asked
<1>2. /\ \A x \in Asked : x \in Asked' /\ frq_msgid'[x] = frq_msgid[x] /\ x # r
      /\ r \in Asked' /\ frq_msgid'[r] = id /\ Asked' = Asked \cup {r}
    BY <1>1, ClientTypes DEF SystemInv, Asks, Asked
<1>3. /\ Inbound' = Inbound /\ DataWritten' = DataWritten /\ Heard' = Heard
      /\ \A q \in Reqs : Owes(q)' = Owes(q)
    BY DEF Asks, Inbound, DataWritten, Heard, Owes
<1>4. WorldOK'
    BY DEF Asks, SystemInv, Linked, WorldOK
<1>5. /\ Len(c_msgencoder) \in Nat /\ Len(c_msgencoder') \in Nat
      /\ \/ c_msgencoder' = c_msgencoder
         \/ /\ Len(c_msgencoder') = Len(c_msgencoder) + 1
            /\ \A i \in 1 .. Len(c_msgencoder) : c_msgencoder'[i] = c_msgencoder[i]
            /\ c_msgencoder'[Len(c_msgencoder')].req = r
            /\ c_msgencoder'[Len(c_msgencoder')].msgid = id
    BY ClientTypes, AppendMeans DEF SystemInv, Asks
<1>6. \A i \in 1 .. Len(c_msgencoder') :
        \/ c_msgencoder'[i].req = r /\ c_msgencoder'[i].msgid = id
           /\ i = Len(c_msgencoder')
        \/ i \in 1 .. Len(c_msgencoder) /\ c_msgencoder'[i] = c_msgencoder[i]
    BY <1>5
<1>7. \A i \in 1 .. Len(c_msgencoder) : c_msgencoder[i].req # r
    BY <1>1 DEF SystemInv, Linked, CallsOK
<1>8. /\ \A q \in Reqs : call[q] # r
      /\ \A j \in 1 .. Len(queued) : queued[j] # r
    BY <1>1 DEF SystemInv, Linked, CallsOK
<1>9. CallsOK'
    BY SMTT(30), <1>2, <1>3, <1>6 DEF Asks, SystemInv, Linked, CallsOK
<1>10. OnceOK'
  <2> USE DEF SystemInv, Linked, OnceOK
  <2>1. UNCHANGED <<queued, call>>
      BY DEF Asks
  <2>2. \A i, j \in 1 .. Len(c_msgencoder') :
            c_msgencoder'[i].req = c_msgencoder'[j].req => i = j
    <3> SUFFICES ASSUME NEW i \in 1 .. Len(c_msgencoder'),
                        NEW j \in 1 .. Len(c_msgencoder'),
                        c_msgencoder'[i].req = c_msgencoder'[j].req
                 PROVE  i = j
        OBVIOUS
    <3> QED
        BY <1>6, <1>7
  <2>3. \A i \in 1 .. Len(c_msgencoder'), j \in 1 .. Len(queued) :
            c_msgencoder'[i].req # queued[j]
      BY <1>6, <1>8
  <2>4. \A q \in Reqs : \A i \in 1 .. Len(c_msgencoder') :
            c_msgencoder'[i].req # call[q]
      BY <1>6, <1>8
  <2> QED
      BY <2>1, <2>2, <2>3, <2>4
<1>11. PeerOK'
  <2>1. \A q \in Reqs : Owes(q) => call[q] \in Asked
      BY DEF Owes, SystemInv, Linked, CallsOK
  <2>2. \A i \in 1 .. Len(queued) : queued[i] \in Asked
      BY DEF SystemInv, Linked, CallsOK
  <2> QED
      BY <1>2, <1>3, <2>1, <2>2 DEF Asks, SystemInv, Linked, PeerOK
<1>12. CountsOK'
  <2>1. Cardinality(Asked') = Cardinality(Asked) + 1 /\ Cardinality(Asked) \in Nat
      BY <1>1, <1>2, AskedFinite, FS_AddElement
  <2> QED
      BY <1>3, <1>5, <2>1, ServerTypes DEF Asks, SystemInv, Linked, CountsOK
<1> QED
    BY <1>4, <1>9, <1>10, <1>11, <1>12 DEF Linked

\* The next call on its way is queued at the server.
LEMMA ArrivalKeeps ==
    ASSUME SystemInv, CallArrives
    PROVE  Linked'
<1> DEFINE m == c_msgencoder[1]
           n == Len(c_msgencoder)
           k == Len(queued)
<1>1. /\ c_msgencoder \in Seq([msgid : CallIds, req : Requests]) /\ conn \in Conns
      /\ c_msgencoder # <<>> /\ c_msgencoder' = Tail(c_msgencoder)
      /\ queued' = Append(queued, Head(c_msgencoder).req)
      /\ peer' = [peer EXCEPT ![Head(c_msgencoder).msgid] = Head(c_msgencoder).req]
    BY ClientTypes, ServerTypes DEF SystemInv, CallArrives
<1>2. /\ n \in Nat \ {0} /\ Len(c_msgencoder') = n - 1 /\ Head(c_msgencoder) = m
      /\ \A i \in 1 .. Len(c_msgencoder') :
            c_msgencoder'[i] = c_msgencoder[i + 1] /\ i + 1 \in 1 .. n
      /\ m \in [msgid : CallIds, req : Requests] /\ 1 \in 1 .. n
  <2> DEFINE S == [msgid : CallIds, req : Requests]
  <2>1. c_msgencoder \in Seq(S)
      BY <1>1
  <2> HIDE DEF S
  <2>2. m \in S /\ n \in Nat \ {0} /\ Head(c_msgencoder) = m
        /\ Len(Tail(c_msgencoder)) = n - 1
        /\ \A i \in 1 .. Len(Tail(c_msgencoder)) :
              Tail(c_msgencoder)[i] = c_msgencoder[i + 1] /\ i + 1 \in 1 .. n
      BY <1>1, <2>1, HeadMeans
  <2> HIDE DEF m
  <2> QED
      BY <1>1, <2>2 DEF S
<1>3. \A i \in 1 .. Len(c_msgencoder') : \E x \in 1 .. n :
            x # 1 /\ x = i + 1 /\ c_msgencoder'[i] = c_msgencoder[x]
    BY <1>2
<1>4. m.msgid \in CallIds /\ m.req \in Requests /\ m.req # None
    BY <1>2, SystemAssumption
<1> HIDE DEF m
<1>5. /\ k \in Nat /\ Len(queued') = k + 1 /\ queued'[k + 1] = m.req
      /\ \A i \in 1 .. k : queued'[i] = queued[i]
      /\ queued' \in Seq(Requests)
    BY <1>1, <1>2, <1>4, AppendMeans DEF SystemInv, Linked, CallsOK
<1>6. m.req \in Asked /\ m.msgid = frq_msgid[m.req]
    BY <1>2 DEF m, SystemInv, Linked, CallsOK
<1>7. PICK kind \in {"call", "badcall"} :
          inbound' = [inbound EXCEPT ![conn] =
                        Append(@, [kind |-> kind, msgid |-> m.msgid])]
    BY <1>2 DEF CallArrives
<1>8. /\ Len(Inbound') = k + 1 /\ Inbound'[k + 1].kind = kind
      /\ Inbound'[k + 1].msgid = m.msgid
      /\ \A i \in 1 .. k : Inbound'[i] = Inbound[i]
  <2>1. Inbound' = Append(Inbound, [kind |-> kind, msgid |-> m.msgid])
      BY <1>1, <1>7, ServerTypes DEF SystemInv, Inbound
  <2>2. /\ Inbound \in Seq([kind : Kinds, msgid : CallIds \cup {None}])
        /\ [kind |-> kind, msgid |-> m.msgid]
                \in [kind : Kinds, msgid : CallIds \cup {None}]
      BY <1>4, ServerTypes DEF SystemInv, Kinds
  <2>3. Len(Inbound) = k
      BY DEF SystemInv, Linked, CallsOK
  <2>4. Inbound'[k + 1] = [kind |-> kind, msgid |-> m.msgid]
      BY <2>1, <2>2, <2>3, AppendMeans
  <2> QED
      BY <2>1, <2>2, <2>3, <2>4, AppendMeans
<1>9. /\ UNCHANGED <<fsr_state, fsr_msgid, wire, nwritten, call, world, transport,
                     frq_msgid, decoder_open, npeer>>
      /\ nmsgs' = nmsgs + 1
    BY DEF CallArrives, tableVars, outVars, handlerVars, requestVars
<1>10. /\ Asked' = Asked /\ DataWritten' = DataWritten /\ Heard' = Heard
      /\ \A q \in Reqs : Owes(q)' = Owes(q)
    BY <1>9 DEF Asked, DataWritten, Heard, Owes
<1>11. WorldOK'
    BY <1>9 DEF SystemInv, Linked, WorldOK
<1>12. \A i \in 1 .. k + 1 : i \in 1 .. k \/ i = k + 1
    BY <1>5
<1>13. CallsOK'
  <2> USE DEF SystemInv, Linked, CallsOK
  <2>1. \A i \in 1 .. Len(queued') :
            /\ Inbound'[i].kind \in {"call", "badcall"}
            /\ queued'[i] \in Asked /\ Inbound'[i].msgid = frq_msgid[queued'[i]]
      BY <1>5, <1>6, <1>8, <1>12
  <2>2. \A i \in 1 .. Len(c_msgencoder') :
            /\ c_msgencoder'[i].req \in Asked
            /\ c_msgencoder'[i].msgid = frq_msgid[c_msgencoder'[i].req]
    <3> SUFFICES ASSUME NEW i \in 1 .. Len(c_msgencoder')
                 PROVE  /\ c_msgencoder'[i].req \in Asked
                        /\ c_msgencoder'[i].msgid = frq_msgid[c_msgencoder'[i].req]
        OBVIOUS
    <3>1. PICK x \in 1 .. n : c_msgencoder'[i] = c_msgencoder[x]
        BY <1>3
    <3> QED
        BY <3>1
  <2> QED
      BY <1>5, <1>8, <1>9, <1>10, <2>1, <2>2
<1>14. OnceOK'
  <2> USE DEF SystemInv, Linked, OnceOK
  <2>1. \A j \in 1 .. Len(c_msgencoder') : c_msgencoder'[j].req # m.req
    <3> SUFFICES ASSUME NEW j \in 1 .. Len(c_msgencoder')
                 PROVE  c_msgencoder'[j].req # m.req
        OBVIOUS
    <3>1. PICK x \in 1 .. n : x = j + 1 /\ c_msgencoder'[j] = c_msgencoder[x]
        BY <1>2
    <3>2. x # 1
        BY <1>2, <3>1
    <3> QED
        BY <1>2, <3>1, <3>2 DEF m
  <2>2. \A j \in 1 .. k : queued[j] # m.req
      BY <1>2 DEF m
  <2>3. \A q \in Reqs : call[q] # m.req
      BY <1>2 DEF m
  <2>4. \A i, j \in 1 .. Len(c_msgencoder') :
            c_msgencoder'[i].req = c_msgencoder'[j].req => i = j
    <3> SUFFICES ASSUME NEW i \in 1 .. Len(c_msgencoder'),
                        NEW j \in 1 .. Len(c_msgencoder'),
                        c_msgencoder'[i].req = c_msgencoder'[j].req
                 PROVE  i = j
        OBVIOUS
    <3>1. PICK x \in 1 .. n : x = i + 1 /\ c_msgencoder'[i] = c_msgencoder[x]
        BY <1>2
    <3>2. PICK y \in 1 .. n : y = j + 1 /\ c_msgencoder'[j] = c_msgencoder[y]
        BY <1>2
    <3>3. x = y
        BY <3>1, <3>2
    <3> QED
        BY <1>2, <3>1, <3>2, <3>3
  <2>5. \A i, j \in 1 .. Len(queued') : queued'[i] = queued'[j] => i = j
      BY <1>5, <1>12, <2>2
  <2>6. \A i \in 1 .. Len(c_msgencoder'), j \in 1 .. Len(queued') :
            c_msgencoder'[i].req # queued'[j]
    <3> SUFFICES ASSUME NEW i \in 1 .. Len(c_msgencoder'),
                        NEW j \in 1 .. Len(queued')
                 PROVE  c_msgencoder'[i].req # queued'[j]
        OBVIOUS
    <3>1. PICK x \in 1 .. n : c_msgencoder'[i] = c_msgencoder[x]
        BY <1>3
    <3> QED
        BY <1>5, <1>12, <2>1, <3>1
  <2>7. \A q \in Reqs :
            /\ \A i \in 1 .. Len(c_msgencoder') : c_msgencoder'[i].req # call[q]
            /\ \A j \in 1 .. Len(queued') : queued'[j] # call[q]
    <3> SUFFICES ASSUME NEW q \in Reqs
                 PROVE  /\ \A i \in 1 .. Len(c_msgencoder') :
                              c_msgencoder'[i].req # call[q]
                        /\ \A j \in 1 .. Len(queued') : queued'[j] # call[q]
        OBVIOUS
    <3>1. ASSUME NEW i \in 1 .. Len(c_msgencoder')
          PROVE  c_msgencoder'[i].req # call[q]
      <4>1. PICK x \in 1 .. n : c_msgencoder'[i] = c_msgencoder[x]
          BY <1>3
      <4> QED
          BY <4>1
    <3> QED
        BY <1>5, <1>12, <2>3, <3>1
  <2> QED
      BY <1>9, <2>4, <2>5, <2>6, <2>7
<1>15. PeerOK'
  <2>1. peer[m.msgid] = None
      BY <1>2, ClientTypes, SystemAssumption
         DEF m, SystemInv, Client!PeerInv, Client!SentOK, Client!MsgIds
  <2>2. SUFFICES ASSUME Heard
                 PROVE  /\ \A i \in 1 .. Len(queued') :
                              peer'[frq_msgid[queued'[i]]] = queued'[i]
                        /\ \A q \in Reqs :
                              Owes(q) => peer'[frq_msgid[call[q]]] = call[q]
      BY <1>9, <1>10 DEF PeerOK
  <2>3. /\ peer'[m.msgid] = m.req
        /\ \A id \in CallIds : id # m.msgid => peer'[id] = peer[id]
      BY <1>1, <1>2, <1>4, ClientTypes DEF SystemInv
  <2>4. \A i \in 1 .. k : peer'[frq_msgid[queued[i]]] = queued[i]
    <3> SUFFICES ASSUME NEW i \in 1 .. k
                 PROVE  peer'[frq_msgid[queued[i]]] = queued[i]
        OBVIOUS
    <3>1. queued[i] \in Asked /\ peer[frq_msgid[queued[i]]] = queued[i]
        BY <2>2 DEF SystemInv, Linked, CallsOK, PeerOK
    <3> QED
        BY <2>1, <2>3, <3>1, AskedMeans DEF SystemInv
  <2>5. ASSUME NEW q \in Reqs, Owes(q)
        PROVE  peer'[frq_msgid[call[q]]] = call[q]
    <3>1. call[q] \in Asked /\ peer[frq_msgid[call[q]]] = call[q]
        BY <2>2, <2>5 DEF Owes, SystemInv, Linked, CallsOK, PeerOK
    <3> QED
        BY <2>1, <2>3, <3>1, AskedMeans DEF SystemInv
  <2> QED
      BY <1>5, <1>6, <1>12, <2>3, <2>4, <2>5
<1>16. CountsOK'
    BY <1>2, <1>9, <1>10, ServerTypes, AskedFinite
       DEF SystemInv, Linked, CountsOK
<1> QED
    BY <1>11, <1>13, <1>14, <1>15, <1>16 DEF Linked

\* What is written to the socket is heard by the client, or nobody hears any
\* more.
LEMMA AnswerKeeps ==
    ASSUME SystemInv, AnswerArrives
    PROVE  Linked'
<1>1. SocketWrite(conn)
    BY DEF AnswerArrives
<1>2. PICK m \in Messages : m = Head(fc_msgencoder[conn])
    BY <1>1, HeadMeans, ServerTypes DEF SystemInv, SocketWrite
<1> DEFINE r == m.req
           n == Len(wire[r]) + 1
<1>3. /\ r \in Reqs /\ m.status \in Status /\ Owes(r) /\ call[r] \in Asked
      /\ fsr_msgid[r] = frq_msgid[call[r]]
      /\ m.status = "data" => Len(wire[r]) < MaxWrites
    BY <1>1, <1>2, NextAnswer
<1>4. /\ wire' = [wire EXCEPT ![r] = Append(@, m.status)]
      /\ UNCHANGED <<inbound, nmsgs, fsr_state, fsr_msgid, nwritten, queued, call,
                     world, transport, c_msgencoder, frq_msgid, decoder_open>>
    BY <1>2 DEF AnswerArrives, SocketWrite, tableVars, handlerVars, inVars,
           requestVars, pipeEnds, ghosts
<1>5. IF Heard
      THEN IF m.status = "data"
           THEN npeer' = npeer + 1 /\ UNCHANGED peer
           ELSE peer' = [peer EXCEPT ![fsr_msgid[r]] = None] /\ UNCHANGED npeer
      ELSE UNCHANGED <<peer, npeer>>
    BY <1>2 DEF AnswerArrives, Heard, Answer, peerVars
<1>6. /\ \A q \in Reqs \ {r} : wire'[q] = wire[q]
      /\ wire'[r] = Append(wire[r], m.status)
      /\ \A q \in Reqs : wire[q] \in Seq(Status) /\ Len(wire[q]) \in Nat
    BY <1>3, <1>4, ServerTypes DEF SystemInv
<1>7. /\ n \in Nat /\ Len(wire'[r]) = n /\ wire'[r][n] = m.status
      /\ \A i \in 1 .. Len(wire[r]) : wire'[r][i] = wire[r][i]
    BY <1>3, <1>6, AppendMeans
<1>8. /\ Asked' = Asked /\ Inbound' = Inbound /\ Heard' = Heard
    BY <1>4 DEF Asked, Inbound, Heard
<1>9. /\ \A q \in Reqs \ {r} : (Owes(q)' <=> Owes(q))
      /\ Owes(r)' => m.status = "data"
  <2>1. ASSUME NEW q \in Reqs \ {r} PROVE Owes(q)' <=> Owes(q)
      BY <1>4, <1>6 DEF Owes
  <2>2. ASSUME Owes(r)' PROVE m.status = "data"
    <3>1. n \in 1 .. Len(wire'[r])
        BY <1>7
    <3>2. \A i \in 1 .. Len(wire'[r]) : wire'[r][i] = "data"
        BY <2>2 DEF Owes
    <3> QED
        BY <1>7, <3>1, <3>2
  <2> QED
      BY <2>1, <2>2
<1>10. WorldOK' /\ CallsOK' /\ OnceOK'
    BY <1>4, <1>8 DEF SystemInv, Linked, WorldOK, CallsOK, OnceOK
<1>11. PeerOK'
  <2>1. CASE ~Heard \/ m.status = "data"
    <3>1. \A q \in Reqs : Owes(q)' => Owes(q)
        BY <1>3, <1>9
    <3> QED
        BY <1>4, <1>5, <1>8, <2>1, <3>1 DEF SystemInv, Linked, PeerOK
  <2>2. CASE Heard /\ m.status # "data"
    <3> DEFINE id == frq_msgid[call[r]]
    <3>1. /\ peer[id] = call[r] /\ call[r] # None /\ id \in CallIds
        BY <1>3, <2>2, AskedMeans DEF SystemInv, Linked, PeerOK
    <3>2. \A x \in CallIds : peer[x] # call[r] => peer'[x] = peer[x]
        BY <1>3, <1>5, <2>2, <3>1, ClientTypes DEF SystemInv
    <3>3. ASSUME NEW i \in 1 .. Len(queued)
          PROVE  peer'[frq_msgid[queued[i]]] = queued[i]
      <4>1. /\ queued[i] \in Asked /\ queued[i] # call[r]
            /\ peer[frq_msgid[queued[i]]] = queued[i]
          BY <1>3, <2>2 DEF SystemInv, Linked, CallsOK, OnceOK, PeerOK
      <4> QED
          BY <3>2, <4>1, AskedMeans DEF SystemInv
    <3>4. ASSUME NEW q \in Reqs, Owes(q)'
          PROVE  peer'[frq_msgid[call[q]]] = call[q]
      <4>1. q # r /\ Owes(q)
        <5>1. CASE q = r
            BY <1>9, <2>2, <3>4, <5>1
        <5> QED
            BY <1>9, <3>4, <5>1
      <4>2. /\ call[q] \in Asked /\ peer[frq_msgid[call[q]]] = call[q]
          BY <2>2, <4>1 DEF Owes, SystemInv, Linked, CallsOK, PeerOK
      <4>3. call[q] # call[r]
          BY <1>3, <3>1, <4>1 DEF SystemInv, Linked, OnceOK
      <4> QED
          BY <3>2, <4>2, <4>3, AskedMeans DEF SystemInv
    <3> QED
        BY <1>4, <3>3, <3>4 DEF PeerOK
  <2> QED
      BY <2>1, <2>2
<1>12. CountsOK'
  <2>1. DataWritten \subseteq DataWritten'
    <3> SUFFICES ASSUME NEW place \in DataWritten PROVE place \in DataWritten'
        OBVIOUS
    <3>1. PICK q \in Reqs, i \in 1 .. MaxWrites : place = <<q, i>>
        BY DEF DataWritten
    <3>2. i \in 1 .. Len(wire[q]) /\ wire[q][i] = "data"
        BY <1>6, <3>1 DEF DataWritten
    <3>3. i <= Len(wire'[q]) /\ wire'[q][i] = "data"
      <4>1. CASE q = r
        <5>1. i \in 1 .. Len(wire[r]) /\ wire[r][i] = "data"
            BY <3>2, <4>1
        <5>2. Len(wire[r]) \in Nat /\ Len(wire'[r]) = Len(wire[r]) + 1
              /\ wire'[r][i] = wire[r][i]
            BY <1>3, <1>6, <1>7, <5>1
        <5>3. i <= Len(wire'[r]) /\ wire'[r][i] = "data"
            BY <5>1, <5>2
        <5> QED
            BY <4>1, <5>3
      <4>2. CASE q # r
          BY <1>6, <3>2, <4>2
      <4> QED
          BY <4>1, <4>2
    <3> QED
        BY <3>1, <3>3 DEF DataWritten
  <2>2. IsFiniteSet(DataWritten')
    <3>1. DataWritten' \subseteq Reqs \X (1 .. MaxWrites)
        BY DEF DataWritten
    <3>2. MaxMsgs \in Nat /\ MaxWrites \in Nat
        BY ServerAssumption
    <3>3. IsFiniteSet(Reqs \X (1 .. MaxWrites))
      <4>1. IsFiniteSet(Reqs) /\ IsFiniteSet(1 .. MaxWrites)
          BY <3>2, FS_Interval DEF Reqs
      <4> QED
          BY <4>1, FS_Product
    <3> QED
        BY <3>1, <3>3, FS_Subset
  <2>3. /\ Cardinality(DataWritten) \in Nat /\ Cardinality(DataWritten') \in Nat
        /\ Cardinality(DataWritten) <= Cardinality(DataWritten')
      BY <2>1, <2>2, FS_Subset, FS_CardinalityType
  <2>4. npeer \in Nat /\ npeer <= Cardinality(DataWritten)
      BY ClientTypes DEF SystemInv, Linked, CountsOK
  <2>5. npeer' <= Cardinality(DataWritten')
    <3>1. CASE npeer' = npeer
        BY <2>3, <2>4, <3>1
    <3>2. CASE m.status = "data" /\ npeer' = npeer + 1
      <4>1. n \in 1 .. MaxWrites
          BY <1>3, <1>6, <3>2, ServerAssumption
      <4>2. <<r, n>> \in DataWritten' \ DataWritten
          BY <1>3, <1>6, <1>7, <3>2, <4>1 DEF DataWritten
      <4>3. Cardinality(DataWritten) # Cardinality(DataWritten')
          BY <2>1, <2>2, <4>2, FS_Subset
      <4> QED
          BY <2>3, <2>4, <3>2, <4>3
    <3> QED
        BY <1>5, <3>1, <3>2
  <2> QED
      BY <1>4, <1>8, <2>5 DEF SystemInv, Linked, CountsOK
<1> QED
    BY <1>10, <1>11, <1>12 DEF Linked

\* The server takes its next message, and makes a request of it or not.
Handles ==
    /\ Inbound # <<>>
    /\ inbound' = [inbound EXCEPT ![conn] = Tail(@)]
    /\ queued' = Tail(queued)
    /\ \/ UNCHANGED <<fsr_state, fsr_msgid, call>>
       \/ \E q \in Reqs, state \in {"RUNNING", "COMPLETE"} :
            /\ fsr_state[q] = "none"
            /\ fsr_state' = [fsr_state EXCEPT ![q] = state]
            /\ fsr_msgid' = [fsr_msgid EXCEPT ![q] = Head(Inbound).msgid]
            /\ call' = [call EXCEPT ![q] = Head(queued)]
    /\ UNCHANGED <<nmsgs, wire, nwritten, world, transport, peer, npeer,
                   c_msgencoder, frq_msgid, decoder_open>>

LEMMA MessageHandled ==
    ASSUME SystemInv, ServerMessage
    PROVE  Handles
<1>1. /\ queued' = Tail(queued)
      /\ call' = IF fs_nrequests_started' = fs_nrequests_started THEN call
                 ELSE [call EXCEPT ![fs_nrequests_started'] = Head(queued)]
      /\ UNCHANGED <<world, transport, peer, npeer, c_msgencoder, frq_msgid,
                     decoder_open>>
    BY DEF ServerMessage, clientVars, peerVars, pipeEnds, requestVars
<1>2. /\ inbound[conn] # <<>>
      /\ inbound' = [inbound EXCEPT ![conn] = Tail(@)]
      /\ UNCHANGED <<nmsgs, wire, nwritten>>
    BY DEF ServerMessage, OnMessage, DropMessage, RejectMessage, RejectCall,
           StartCall, TakesMessage, outVars, handlerVars
<1>3. CASE fs_nrequests_started' = fs_nrequests_started
  <2>1. UNCHANGED <<fsr_state, fsr_msgid>>
    <3>1. fs_nrequests_started \in Nat
        BY DEF SystemInv, IInv, TypeOK, TableTypeOK
    <3>2. fs_nrequests_started + 1 # fs_nrequests_started
        BY <3>1
    <3> QED
        BY <1>3, <3>2
           DEF ServerMessage, OnMessage, DropMessage, RejectMessage, RejectCall,
               StartCall, NewRequest, tableVars
  <2> QED
      BY <1>1, <1>2, <1>3, <2>1 DEF Handles, Inbound
<1>4. CASE fs_nrequests_started' # fs_nrequests_started
  <2> DEFINE q == fs_nrequests_started'
  <2>1. q = fs_nrequests_started + 1
        /\ \E state \in {"RUNNING", "COMPLETE"} : NewRequest(conn, state)
      BY <1>4
         DEF ServerMessage, OnMessage, DropMessage, RejectMessage, RejectCall,
             StartCall, NewRequest, tableVars
  <2>2. q \in Reqs
      BY <1>2, <2>1, NextCall, ServerTypes DEF SystemInv, IInv
  <2>3. fsr_state[q] = "none"
      BY <2>1, <2>2, NextIsNew DEF SystemInv, IInv
  <2> QED
      BY <1>1, <1>2, <1>4, <2>1, <2>2, <2>3 DEF Handles, NewRequest, Message, Inbound
<1> QED
    BY <1>3, <1>4

\* At most one request is made, for call r.
MadeFor(r) ==
    /\ \A q \in Reqs :
          \/ /\ call'[q] = call[q] /\ fsr_msgid'[q] = fsr_msgid[q]
             /\ fsr_state'[q] = "none" <=> fsr_state[q] = "none"
          \/ /\ fsr_state[q] = "none" /\ fsr_state'[q] # "none"
             /\ call'[q] = r /\ fsr_msgid'[q] = frq_msgid[r]
    /\ call' \in [Reqs -> Requests \cup {None}]
    /\ \A p, q \in Reqs : call'[p] = r /\ call'[q] = r => p = q

LEMMA HandlesKeeps ==
    ASSUME SystemInv, Handles
    PROVE  Linked'
<1> DEFINE n == Len(queued)
           first == queued[1]
<1>1. /\ queued \in Seq(Requests) /\ queued # <<>> /\ Len(Inbound) = n
      /\ Inbound \in Seq([kind : Kinds, msgid : CallIds \cup {None}])
      /\ Inbound # <<>> /\ Inbound' = Tail(Inbound)
    BY ServerTypes DEF SystemInv, Linked, CallsOK, Handles, Inbound
<1>2. /\ n \in Nat \ {0} /\ Head(queued) = first /\ first \in Requests
      /\ queued' \in Seq(Requests) /\ Len(queued') = n - 1
      /\ Len(Inbound') = n - 1 /\ Head(Inbound) = Inbound[1] /\ 1 \in 1 .. n
    BY <1>1, HeadMeans DEF Handles
<1>3. \A i \in 1 .. Len(queued') : \E x \in 1 .. n :
        /\ x # 1 /\ x = i + 1
        /\ queued'[i] = queued[x] /\ Inbound'[i] = Inbound[x]
  <2> SUFFICES ASSUME NEW i \in 1 .. Len(queued')
               PROVE  \E x \in 1 .. n :
                        /\ x # 1 /\ x = i + 1
                        /\ queued'[i] = queued[x] /\ Inbound'[i] = Inbound[x]
      OBVIOUS
  <2>1. queued'[i] = queued[i + 1] /\ Inbound'[i] = Inbound[i + 1]
      BY <1>1, <1>2, HeadMeans DEF Handles
  <2>2. i + 1 \in 1 .. n /\ i + 1 # 1
      BY <1>2
  <2> QED
      BY <2>1, <2>2
<1>4. /\ first \in Asked /\ first # None
      /\ Inbound[1].msgid = frq_msgid[first]
      /\ Heard => peer[frq_msgid[first]] = first
    BY <1>2, AskedMeans DEF SystemInv, Linked, CallsOK, PeerOK
<1>5. /\ \A i \in 1 .. Len(queued') : queued'[i] # first
      /\ \A q \in Reqs : call[q] # first
      /\ \A i \in 1 .. Len(c_msgencoder) : c_msgencoder[i].req # first
  <2> USE DEF SystemInv, Linked, OnceOK
  <2>1. ASSUME NEW i \in 1 .. Len(queued') PROVE queued'[i] # first
    <3>1. PICK x \in 1 .. n : x # 1 /\ queued'[i] = queued[x]
        BY <1>3
    <3> QED
        BY <1>2, <3>1
  <2> QED
      BY <1>2, <2>1
<1> HIDE DEF first
<1>6. MadeFor(first)
  <2>1. CASE UNCHANGED <<fsr_state, fsr_msgid, call>>
      BY <1>5, <2>1 DEF MadeFor, SystemInv, Linked, CallsOK
  <2>2. ASSUME NEW q \in Reqs, NEW state \in {"RUNNING", "COMPLETE"},
               fsr_state[q] = "none",
               fsr_state' = [fsr_state EXCEPT ![q] = state],
               fsr_msgid' = [fsr_msgid EXCEPT ![q] = Head(Inbound).msgid],
               call' = [call EXCEPT ![q] = Head(queued)]
        PROVE  MadeFor(first)
    <3>1. /\ fsr_state'[q] = state /\ fsr_msgid'[q] = frq_msgid[first]
          /\ call'[q] = first /\ state # "none"
          /\ \A p \in Reqs \ {q} : /\ fsr_state'[p] = fsr_state[p]
                                   /\ fsr_msgid'[p] = fsr_msgid[p]
                                   /\ call'[p] = call[p]
          /\ call' \in [Reqs -> Requests \cup {None}]
        BY <1>2, <1>4, <2>2, ServerTypes DEF SystemInv, Linked, CallsOK
    <3> QED
        BY <1>5, <2>2, <3>1 DEF MadeFor
  <2> QED
      BY <2>1, <2>2 DEF Handles
<1>7. /\ UNCHANGED <<nmsgs, wire, nwritten, world, transport, peer, npeer,
                     c_msgencoder, frq_msgid, decoder_open>>
      /\ Asked' = Asked /\ DataWritten' = DataWritten /\ Heard' = Heard
    BY DEF Handles, Asked, DataWritten, Heard
<1>8. WorldOK' /\ CountsOK'
    BY <1>7 DEF SystemInv, Linked, WorldOK, CountsOK
<1>9. CallsOK'
  <2>1. ASSUME NEW i \in 1 .. Len(queued')
        PROVE  /\ Inbound'[i].kind \in {"call", "badcall"}
               /\ queued'[i] \in Asked /\ Inbound'[i].msgid = frq_msgid[queued'[i]]
    <3>1. PICK x \in 1 .. n : queued'[i] = queued[x] /\ Inbound'[i] = Inbound[x]
        BY <1>3
    <3> QED
        BY <3>1 DEF SystemInv, Linked, CallsOK
  <2>2. ASSUME NEW q \in Reqs
        PROVE  IF fsr_state'[q] = "none" THEN call'[q] = None
               ELSE call'[q] \in Asked /\ fsr_msgid'[q] = frq_msgid[call'[q]]
      BY <1>4, <1>6 DEF MadeFor, SystemInv, Linked, CallsOK
  <2> QED
      BY <1>2, <1>6, <1>7, <2>1, <2>2 DEF MadeFor, SystemInv, Linked, CallsOK
<1>10. OnceOK'
  <2> USE DEF SystemInv, Linked, OnceOK
  <2>1. ASSUME NEW i \in 1 .. Len(queued'), NEW j \in 1 .. Len(queued'),
               queued'[i] = queued'[j]
        PROVE  i = j
    <3>1. PICK x \in 1 .. n : x = i + 1 /\ queued'[i] = queued[x]
        BY <1>3
    <3>2. PICK y \in 1 .. n : y = j + 1 /\ queued'[j] = queued[y]
        BY <1>3
    <3>3. x = y
        BY <2>1, <3>1, <3>2
    <3> QED
        BY <1>2, <3>1, <3>2, <3>3
  <2>2. ASSUME NEW j \in 1 .. Len(queued')
        PROVE  /\ \A i \in 1 .. Len(c_msgencoder) : c_msgencoder[i].req # queued'[j]
               /\ \A q \in Reqs : queued'[j] # call[q]
    <3>1. PICK x \in 1 .. n : queued'[j] = queued[x]
        BY <1>3
    <3> QED
        BY <3>1
  <2>3. ASSUME NEW q \in Reqs
        PROVE  /\ \A i \in 1 .. Len(c_msgencoder) : c_msgencoder[i].req # call'[q]
               /\ \A j \in 1 .. Len(queued') : queued'[j] # call'[q]
    <3>1. call'[q] = call[q] \/ call'[q] = first
        BY <1>6 DEF MadeFor
    <3> QED
        BY <1>5, <2>2, <3>1
  <2>4. \A p, q \in Reqs : call'[p] = call'[q] /\ call'[p] # None => p = q
      BY <1>5, <1>6 DEF MadeFor
  <2> QED
      BY <1>7, <2>1, <2>2, <2>3, <2>4
<1>11. PeerOK'
  <2> SUFFICES ASSUME Heard
               PROVE  /\ \A i \in 1 .. Len(queued') :
                            peer[frq_msgid[queued'[i]]] = queued'[i]
                      /\ \A q \in Reqs :
                            Owes(q)' => peer[frq_msgid[call'[q]]] = call'[q]
      BY <1>7 DEF PeerOK
  <2>1. ASSUME NEW i \in 1 .. Len(queued')
        PROVE  peer[frq_msgid[queued'[i]]] = queued'[i]
    <3>1. PICK x \in 1 .. n : queued'[i] = queued[x]
        BY <1>3
    <3> QED
        BY <3>1 DEF SystemInv, Linked, PeerOK
  <2>2. ASSUME NEW q \in Reqs, Owes(q)'
        PROVE  peer[frq_msgid[call'[q]]] = call'[q]
    <3>1. CASE call'[q] = first
        BY <1>4, <3>1
    <3>2. CASE call'[q] = call[q] /\ (fsr_state'[q] = "none" <=> fsr_state[q] = "none")
      <4>1. Owes(q)
          BY <1>7, <2>2, <3>2 DEF Owes
      <4> QED
          BY <3>2, <4>1 DEF SystemInv, Linked, PeerOK
    <3> QED
        BY <1>6, <3>1, <3>2 DEF MadeFor
  <2> QED
      BY <2>1, <2>2
<1> QED
    BY <1>8, <1>9, <1>10, <1>11 DEF Linked
-----------------------------------------------------------------------------
(* The invariant *)

\* The server's own steps are apart.
LEMMA ServerApart ==
    ASSUME SystemInv,
           \/ ClientGone \/ ConnectionFails \/ CallCut
           \/ ServerStep \/ ServerUserStep
    PROVE  Apart
<1>1. UNCHANGED <<clientVars, transport, ghosts>>
    BY DEF ClientGone, ConnectionFails, CallCut, ServerStep, ServerUserStep
<1>2. UNCHANGED <<queued, call, world, peer, npeer, c_msgencoder, frq_msgid,
                  transport, decoder_open>>
    BY <1>1 DEF clientVars, requestVars, pipeEnds, peerVars, ghosts
<1>3. UNCHANGED <<inbound, nmsgs, wire>>
    BY DEF ClientGone, ConnectionFails, CallCut, ServerStep, ServerUserStep,
           OnConnectionEnd, OnConnectionError, InputFails, ConnCreate,
           SocketClosed, RunImmediate,
           HandlerEnd, HandlerFail, PipelineStep, Transform, Flush, Pipe,
           RequestComplete, Close, OnConnsDestroyed, HandlerWrite, Crash,
           inVars, outVars
<1>4. /\ UNCHANGED fsr_msgid
      /\ \A q \in Reqs : fsr_state'[q] = "none" <=> fsr_state[q] = "none"
  <2>1. CASE UNCHANGED tableVars
      BY <2>1 DEF tableVars
  <2>2. CASE \E r \in Reqs : RequestCleanup(r) /\ fsr_state[r] = "RUNNING"
      BY <2>2, ServerTypes DEF SystemInv, RequestCleanup
  <2>3. CASE ClientGone \/ ConnectionFails \/ CallCut \/ ServerUserStep
      BY <2>1, <2>3
         DEF ClientGone, ConnectionFails, CallCut, ServerUserStep,
             OnConnectionEnd, OnConnectionError, InputFails, Close, OnConnsDestroyed, HandlerWrite, Crash
  <2>4. CASE ConnCreate(conn) \/ SocketClosed(conn) \/ RunImmediate
      BY <2>1, <2>4 DEF ConnCreate, SocketClosed, RunImmediate, Crash
  <2>5. ASSUME NEW r \in Reqs, HandlerEnd(r) \/ HandlerFail(r) \/ PipelineStep(r)
        PROVE  UNCHANGED tableVars \/ (RequestCleanup(r) /\ fsr_state[r] = "RUNNING")
      BY <2>5
         DEF HandlerEnd, HandlerFail, PipelineStep, Transform, Flush, Pipe,
             RequestComplete, Crash, SystemInv, IInv, Accounts, RequestsOK
  <2> QED
      BY <2>1, <2>2, <2>3, <2>4, <2>5 DEF ServerStep
<1>5. \A q \in Reqs : nwritten'[q] <= MaxWrites
  <2>1. CASE UNCHANGED nwritten
      BY <2>1 DEF SystemInv, Linked, CountsOK
  <2>2. CASE \E r \in Reqs : HandlerWrite(r)
      BY <2>2, ServerTypes, ServerAssumption
         DEF HandlerWrite, SystemInv, Linked, CountsOK
  <2>3. CASE ~(\E r \in Reqs : HandlerWrite(r))
    <3>1. UNCHANGED nwritten
        BY <2>3
           DEF ClientGone, ConnectionFails, CallCut, ServerStep, ServerUserStep,
               OnConnectionEnd, OnConnectionError, InputFails, ConnCreate,
               SocketClosed, RunImmediate,
               HandlerEnd, HandlerFail, PipelineStep, Transform, Flush, Pipe,
               RequestComplete, Close, OnConnsDestroyed, Crash, handlerVars
    <3> QED
        BY <2>1, <3>1
  <2> QED
      BY <2>2, <2>3
<1> QED
    BY <1>2, <1>3, <1>4, <1>5 DEF Apart, Heard, SystemInv, Linked, WorldOK

LEMMA AllocMeans ==
    ASSUME NEW start \in CallIds, NEW taken,
           NEW id, id = C!Allocator!Alloc(start, taken), id # NoMsgId
    PROVE  id \in CallIds \ taken
<1>1. id = Client!Allocator!Alloc(start, taken)
    BY Zenon
       DEF C!Allocator!Alloc, C!Allocator!Ids, C!Allocator!Min,
           Client!Allocator!Alloc, Client!Allocator!Ids, Client!Allocator!Min
<1>2. start \in Client!MsgIds
    BY SystemAssumption DEF Client!MsgIds
<1>3. id \in Client!MsgIds \ taken
    BY <1>1, <1>2, ClientAssumed, Client!AllocReturnsFree
<1> QED
    BY <1>3, SystemAssumption DEF Client!MsgIds

\* So is what goes on at the client, but for rpc().
LEMMA ClientApart ==
    ASSUME SystemInv, CallerStep \/ ClientStep \/ TransportFails \/ ServerGone
    PROVE  Apart \/ \E r \in Requests, id \in CallIds : Asks(r, id)
<1>1. UNCHANGED <<inbound, nmsgs, fsr_state, fsr_msgid, wire, nwritten, queued,
                  call, world>>
    BY DEF CallerStep, ClientStep, TransportFails, ServerGone, serverVars, vars,
           tableVars, outVars, handlerVars, inVars, ghosts
<1>2. /\ transport' \in {"open", "halfclosed", "destroyed"}
      /\ transport' # "destroyed" => transport # "destroyed"
    BY DEF CallerStep, ClientStep, TransportFails, ServerGone, SystemInv, Linked,
           WorldOK
<1>3. \A q \in Reqs : nwritten'[q] <= MaxWrites
    BY <1>1 DEF SystemInv, Linked, CountsOK
<1>4. ASSUME UNCHANGED <<peer, npeer, c_msgencoder, frq_msgid>>,
             decoder_open' => decoder_open
      PROVE  Apart
    BY <1>1, <1>2, <1>3, <1>4 DEF Apart, Heard
<1>5. CASE ServerGone
    BY <1>4, <1>5
       DEF ServerGone, C!PeerStops, C!Sends, C!requestVars
<1>6. CASE TransportFails
    BY <1>4, <1>6
       DEF TransportFails, C!OnTransportError, C!requestVars, C!transportVars,
           C!peerVars
<1>7. CASE ClientStep
  <2>1. UNCHANGED <<peer, npeer, c_msgencoder, frq_msgid, decoder_open>>
    <3>1. CASE C!HandlerStep
        BY <3>1
           DEF C!HandlerStep, C!OnUnknownMsgid, C!OnDecoderError,
               C!OnTransportEnd, C!AbandonAll, C!EmitObject, C!SkipNull,
               C!RejectNull, C!DataDone, C!EndDone, C!OnData, C!OnServerError,
               C!OnAbandonedMessage, C!RequestAbandon, C!Crash, C!requestVars,
               C!transportVars, C!peerVars
    <3>2. CASE \E r \in Requests : C!RequestStep(r)
        BY <3>2
           DEF C!RequestStep, C!OnRpcTimeout, C!EmitRequestError,
               C!EmitRequestEnd, C!RequestAbandon, C!Crash, C!requestVars,
               C!transportVars, C!peerVars
    <3> QED
        BY <1>7, <3>1, <3>2 DEF ClientStep
  <2> QED
      BY <1>4, <2>1
<1>8. CASE CallerStep
  <2>1. CASE C!Detach
      BY <1>4, <2>1
         DEF C!Detach, C!RequestAbandon, C!Crash, C!requestVars, C!transportVars,
             C!peerVars
  <2>2. ASSUME NEW r \in Requests, C!Abandon(r) PROVE Apart
      BY <1>4, <2>2
         DEF C!Abandon, C!RequestAbandon, C!Crash, C!requestVars,
             C!transportVars, C!peerVars
  <2>3. ASSUME NEW r \in Requests, C!Rpc(r), CallerStep
        PROVE  \E id \in CallIds : Asks(r, id)
    <3>1. PICK id : id = C!Allocator!Alloc(ida_nextid, C!AllocatedIds)
        OBVIOUS
    <3>2. id \in CallIds
      <4>1. ida_nextid \in CallIds
          BY SystemAssumption
             DEF SystemInv, Client!IInv, Client!TypeOK, Client!ClientTypeOK,
                 Client!MsgIds
      <4>2. id # NoMsgId
          BY <2>3, <3>1 DEF C!Rpc
      <4> QED
          BY <3>1, <4>1, <4>2, AllocMeans
    <3>3. UNCHANGED <<transport, peer, npeer, decoder_open>>
        BY <2>3 DEF CallerStep, C!Rpc
    <3>4. Asks(r, id)
        BY <1>1, <2>3, <3>1, <3>2, <3>3, SystemAssumption
           DEF Asks, C!Rpc, C!RpcSkipped, C!RpcSent
    <3> QED
        BY <3>2, <3>4
  <2>4. world.calls \subseteq Requests
      BY SystemAssumption DEF SystemInv, Linked, WorldOK
  <2> QED
      BY <1>8, <2>1, <2>2, <2>3, <2>4 DEF CallerStep
<1> QED
    BY <1>5, <1>6, <1>7, <1>8

LEMMA LinkKept ==
    ASSUME SystemInv, [SystemNext]_sysvars
    PROVE  Linked'
<1>1. CASE Apart
    BY <1>1, ApartKeeps DEF SystemInv
<1>2. CASE ClientGone \/ ConnectionFails \/ CallCut \/ ServerStep \/ ServerUserStep
    BY <1>1, <1>2, ServerApart
<1>3. CASE CallerStep \/ ClientStep \/ TransportFails \/ ServerGone
    BY <1>1, <1>3, ClientApart, CallKeeps
<1>4. CASE EndTransport \/ DestroyTransport \/ UNCHANGED sysvars
  <2>1. UNCHANGED <<serverVars, clientVars, ghosts>>
      BY <1>4 DEF EndTransport, DestroyTransport, sysvars
  <2>2. /\ transport' \in {"open", "halfclosed", "destroyed"}
        /\ transport' # "destroyed" => transport # "destroyed"
      BY <1>4
         DEF EndTransport, DestroyTransport, sysvars, SystemInv, Linked, WorldOK
  <2>3. Apart
      BY <2>1, <2>2
         DEF Apart, Heard, serverVars, vars, tableVars, outVars, handlerVars,
             inVars, clientVars, requestVars, pipeEnds, peerVars, ghosts,
             SystemInv, Linked, CountsOK
  <2> QED
      BY <1>1, <2>3
<1> QED
    BY <1>2, <1>3, <1>4, ArrivalKeeps, AnswerKeeps, MessageHandled, HandlesKeeps
       DEF SystemNext

LEMMA SystemStarts == SystemInit => SystemInv
<1> SUFFICES ASSUME SystemInit PROVE SystemInv
    OBVIOUS
<1>1. IInv /\ RInv
    BY InitHolds, InitResponses DEF SystemInit
<1>2. Client!IInv /\ Client!PeerInv
    BY ClientInits, ClientAssumed, Client!InitHolds, Client!InitPromise
       DEF SystemInit
<1>3. /\ c_msgencoder = <<>> /\ queued = <<>> /\ Inbound = <<>> /\ Asked = {}
      /\ \A q \in Reqs : fsr_state[q] = "none" /\ call[q] = None /\ nwritten[q] = 0
      /\ call \in [Reqs -> Requests \cup {None}]
      /\ nmsgs = 0 /\ npeer = 0
    BY SystemAssumption DEF SystemInit, Init, C!Init, Inbound, Asked
<1>4. Linked
  <2>1. Cardinality(Asked) = 0 /\ Cardinality(DataWritten) \in Nat
    <3>1. DataWritten = {}
        BY ServerAssumption DEF SystemInit, Init, DataWritten
    <3> QED
        BY <1>3, <3>1, FS_EmptySet
  <2>2. WorldOK
      BY DEF SystemInit, WorldOK
  <2>3. CallsOK /\ OnceOK /\ PeerOK
      BY <1>3 DEF CallsOK, OnceOK, PeerOK, Owes
  <2>4. CountsOK
      BY <1>3, <2>1, ServerAssumption DEF CountsOK
  <2> QED
      BY <2>2, <2>3, <2>4 DEF Linked
<1> QED
    BY <1>1, <1>2, <1>4 DEF SystemInv

LEMMA SystemStep ==
    ASSUME SystemInv, [SystemNext]_sysvars
    PROVE  SystemInv'
<1>1. IInv' /\ RInv'
    BY ServerTakesStep, StepKeeps, StepResponses DEF SystemInv
<1>2. Client!IInv' /\ Client!PeerInv'
    BY ClientTakesStep, ClientKeeps DEF SystemInv
<1> QED
    BY <1>1, <1>2, LinkKept DEF SystemInv

\* What links the two ends, with the invariants of either, in every behaviour.
THEOREM SystemInvariance == SystemSpec => []SystemInv
BY SystemStarts, SystemStep, PTL DEF SystemSpec

\* The server is the honest peer that the client's own theorems assume: whatever
\* happens at either end and to the connection, the client with what the server
\* does to it is a behaviour of the client's module.
THEOREM ServerIsHonest == SystemSpec => ServerIsHonestPeer
<1>1. SystemInv /\ [SystemNext]_sysvars => [C!Next]_(C!vars)
    BY ClientTakesStep
<1>2. SystemInit => C!Init
    BY DEF SystemInit
<1> QED
    BY <1>1, <1>2, SystemInvariance, PTL DEF SystemSpec, ServerIsHonestPeer
-----------------------------------------------------------------------------
(* The two ends agree *)

\* While calls are fewer than message ids, these are given out in their order:
\* none is used for two calls.
IdsInOrder ==
    /\ fc_nrpc_started = Cardinality(Asked)
    /\ ida_nextid = IF fc_nrpc_started < MaxMsgId THEN fc_nrpc_started + 1 ELSE 1
    /\ \A r \in Asked : frq_msgid[r] <= fc_nrpc_started
    /\ \A r, s \in Asked : frq_msgid[r] = frq_msgid[s] => r = s

\* alloc() returns the cursor, if that is free.
LEMMA AllocAtCursor ==
    ASSUME NEW start \in CallIds, NEW taken, start \notin taken
    PROVE  C!Allocator!Alloc(start, taken) = start
<1> DEFINE free == CallIds \ taken
           onward == {id \in free : id >= start}
<1>1. C!Allocator!Ids = CallIds /\ CallIds \subseteq Nat
    BY SystemAssumption DEF C!Allocator!Ids
<1>2. start \in onward /\ free # {} /\ onward # {}
    BY <1>1
<1>3. \A x \in onward : (\A y \in onward : x <= y) => x = start
    BY <1>1, <1>2
<1>4. \A y \in onward : start <= y
    BY <1>1
<1> HIDE DEF free, onward
<1>5. C!Allocator!Min(onward) = start
    BY <1>2, <1>3, <1>4 DEF C!Allocator!Min
<1> QED
    BY <1>1, <1>2, <1>5 DEF C!Allocator!Alloc, free, onward

\* rpc() is all that gives out ids.
LEMMA IdsApart ==
    ASSUME IdsInOrder, UNCHANGED <<fc_nrpc_started, ida_nextid, frq_msgid>>
    PROVE  IdsInOrder'
BY DEF IdsInOrder, Asked

LEMMA RpcInOrder ==
    ASSUME SystemInv, IdsInOrder, Cardinality(Requests) <= MaxMsgId,
           NEW r \in Requests, C!Rpc(r)
    PROVE  IdsInOrder'
<1> DEFINE n == fc_nrpc_started
<1>1. r \notin Asked /\ Asked \cup {r} \subseteq Requests
    BY DEF C!Rpc, Asked
<1>2. /\ Cardinality(Asked \cup {r}) = Cardinality(Asked) + 1
      /\ Cardinality(Asked \cup {r}) <= Cardinality(Requests)
      /\ Cardinality(Asked) \in Nat /\ Cardinality(Requests) \in Nat
    BY <1>1, AskedFinite, FS_AddElement, FS_Subset, FS_CardinalityType,
       SystemAssumption
<1>3. n \in Nat /\ n = Cardinality(Asked) /\ n < MaxMsgId /\ ida_nextid = n + 1
      /\ n + 1 \in CallIds
    BY <1>2, SystemAssumption DEF IdsInOrder
<1>4. n + 1 \notin C!AllocatedIds
  <2> SUFFICES ASSUME NEW id \in CallIds,
                      c_pending[id] # None \/ fc_abandoned[id] # None
               PROVE  id # n + 1
      BY SystemAssumption DEF C!AllocatedIds, C!MsgIds
  <2>1. \E x \in Requests : frq_msgid[x] = id
      BY SystemAssumption
         DEF SystemInv, Client!IInv, Client!Bookkeeping, Client!PendingById,
             Client!PeerInv, Client!HeldOnce, Client!MsgIds
  <2>2. \E x \in Asked : frq_msgid[x] = id
      BY <2>1, SystemAssumption DEF Asked
  <2> QED
      BY <1>3, <2>2, SystemAssumption DEF IdsInOrder
<1>5. C!Allocator!Alloc(ida_nextid, C!AllocatedIds) = n + 1
    BY <1>3, <1>4, AllocAtCursor
<1>6. /\ ida_nextid' = C!Allocator!Successor(n + 1)
      /\ frq_msgid' = [frq_msgid EXCEPT ![r] = n + 1]
      /\ fc_nrpc_started' = n + 1
    BY <1>5 DEF C!Rpc
<1>7. ida_nextid' = IF n + 1 < MaxMsgId THEN n + 2 ELSE 1
    BY <1>3, <1>6, SystemAssumption DEF C!Allocator!Successor
<1>8. /\ Asked' = Asked \cup {r} /\ frq_msgid'[r] = n + 1
      /\ \A x \in Asked : frq_msgid'[x] = frq_msgid[x] /\ frq_msgid[x] <= n
      /\ \A x \in Asked : frq_msgid[x] \in Nat
  <2>1. /\ frq_msgid'[r] = n + 1 /\ \A x \in Requests \ {r} : frq_msgid'[x] = frq_msgid[x]
        /\ \A x \in Requests : frq_msgid[x] \in Nat
      BY <1>6, ClientTypes, SystemAssumption DEF SystemInv
  <2>2. n + 1 # 0
      BY <1>3
  <2>3. Asked' = Asked \cup {r}
      BY <2>1, <2>2 DEF Asked
  <2>4. \A x \in Asked : x \in Requests /\ x # r /\ frq_msgid[x] <= n
      BY <1>1 DEF IdsInOrder, Asked
  <2> QED
      BY <2>1, <2>3, <2>4
<1>9. fc_nrpc_started' = Cardinality(Asked')
    BY <1>2, <1>3, <1>6, <1>8
<1>10. \A x \in Asked' : frq_msgid'[x] <= fc_nrpc_started'
    BY <1>3, <1>6, <1>8
<1>11. \A x, y \in Asked' : frq_msgid'[x] = frq_msgid'[y] => x = y
    BY <1>3, <1>8 DEF IdsInOrder
<1>12. ida_nextid' = IF fc_nrpc_started' < MaxMsgId THEN fc_nrpc_started' + 1 ELSE 1
    BY <1>3, <1>6, <1>7
<1> QED
    BY <1>9, <1>10, <1>11, <1>12 DEF IdsInOrder

LEMMA IdsStayInOrder ==
    ASSUME SystemInv, IdsInOrder, Cardinality(Requests) <= MaxMsgId,
           [SystemNext]_sysvars
    PROVE  IdsInOrder'
<1>1. CASE UNCHANGED <<requestVars, stateVars>>
    BY <1>1, IdsApart DEF requestVars, stateVars
<1>2. CASE CallerStep
  <2>1. CASE \E r \in Requests : C!Rpc(r)
      BY <2>1, RpcInOrder
  <2>2. CASE C!Detach \/ \E r \in Requests : C!Abandon(r)
      BY <2>2, IdsApart
         DEF C!Detach, C!Abandon, C!RequestAbandon, C!Crash, C!requestVars,
             C!clientVars
  <2>3. world.calls \subseteq Requests
      BY SystemAssumption DEF SystemInv, Linked, WorldOK
  <2> QED
      BY <1>2, <2>1, <2>2, <2>3 DEF CallerStep
<1>3. CASE ClientStep
  <2>1. CASE C!HandlerStep
      BY <2>1, IdsApart
         DEF C!HandlerStep, C!OnUnknownMsgid, C!OnDecoderError,
             C!OnTransportEnd, C!AbandonAll, C!EmitObject, C!SkipNull,
             C!RejectNull, C!DataDone, C!EndDone, C!OnData, C!OnServerError,
             C!OnAbandonedMessage, C!RequestAbandon, C!Crash, C!requestVars,
             C!clientVars
  <2>2. CASE \E r \in Requests : C!RequestStep(r)
      BY <2>2, IdsApart
         DEF C!RequestStep, C!OnRpcTimeout, C!EmitRequestError,
             C!EmitRequestEnd, C!RequestAbandon, C!Crash, C!requestVars,
             C!clientVars
  <2> QED
      BY <1>3, <2>1, <2>2 DEF ClientStep
<1>4. CASE TransportFails
    BY <1>4, IdsApart DEF TransportFails, C!OnTransportError, C!requestVars
<1>5. CASE ServerGone
    BY <1>5, IdsApart DEF ServerGone, C!PeerStops, C!requestVars, C!clientVars
<1> QED
    BY <1>1, <1>2, <1>3, <1>4, <1>5
       DEF SystemNext, EndTransport, DestroyTransport, CallArrives, AnswerArrives,
           ClientGone, ConnectionFails, CallCut, ServerMessage, ServerStep,
           ServerUserStep, clientVars, sysvars

\* Then no message id that arrives is in use.
LEMMA NoDuplicates ==
    ASSUME SystemInv, IdsInOrder, Inbound # <<>>
    PROVE  ~RejectMessage(conn)
<1>1. /\ queued \in Seq(Requests) /\ Len(queued) = Len(Inbound)
      /\ Inbound \in Seq([kind : Kinds, msgid : CallIds \cup {None}])
    BY ServerTypes DEF SystemInv, Linked, CallsOK
<1>2. 1 \in 1 .. Len(queued) /\ Message(conn) = Inbound[1]
    BY <1>1, HeadMeans DEF Message, Inbound
<1>3. /\ Message(conn).kind \in {"call", "badcall"} /\ queued[1] \in Asked
      /\ Message(conn).msgid = frq_msgid[queued[1]]
    BY <1>2 DEF SystemInv, Linked, CallsOK
<1>4. ASSUME Duplicate(conn) PROVE FALSE
  <2> DEFINE id == frq_msgid[queued[1]]
             q == fc_pending[conn][id]
  <2>1. id \in CallIds /\ conn \in Conns
      BY <1>3, AskedMeans, ServerTypes DEF SystemInv
  <2>2. q # None
      BY <1>3, <1>4 DEF Duplicate
  <2>3. q \in Reqs /\ fsr_state[q] = "RUNNING" /\ fsr_msgid[q] = id
      BY <2>1, <2>2
         DEF SystemInv, IInv, TypeOK, TableTypeOK, Accounts, RequestsOK, Agree
  <2>4. call[q] \in Asked /\ frq_msgid[call[q]] = id
      BY <2>3 DEF SystemInv, Linked, CallsOK
  <2>5. call[q] = queued[1]
      BY <1>3, <2>4 DEF IdsInOrder
  <2> QED
      BY <1>2, <2>3, <2>5 DEF SystemInv, Linked, OnceOK
<1> QED
    BY <1>3, <1>4 DEF RejectMessage

TerminatedByClose == conn \in fc_server_error => fs_closed

LEMMA OnlyCloseTerminates ==
    ASSUME SystemInv, IdsInOrder, TerminatedByClose, [SystemNext]_sysvars
    PROVE  TerminatedByClose'
<1>1. ~ServerMessage \/ ~RejectMessage(conn)
  <2>1. RejectMessage(conn) => Inbound # <<>>
      BY DEF RejectMessage, TakesMessage, Inbound
  <2> QED
      BY <2>1, NoDuplicates
<1>2. CASE UNCHANGED fc_server_error /\ (fs_closed => fs_closed')
    BY <1>2 DEF TerminatedByClose
<1>3. CASE ServerMessage
  <2>1. UNCHANGED <<fc_server_error, fs_closed>>
      BY <1>1, <1>3
         DEF ServerMessage, OnMessage, DropMessage, RejectCall, StartCall,
             TakesMessage, connVars, apiVars
  <2> QED
      BY <1>2, <2>1
<1>4. CASE ServerStep
  <2>1. UNCHANGED <<fc_server_error, fs_closed>>
      BY <1>4
         DEF ServerStep, ConnCreate, SocketClosed, RunImmediate, HandlerEnd,
             HandlerFail, PipelineStep, Transform, Flush, Pipe, RequestComplete, Crash,
             connVars, apiVars
  <2> QED
      BY <1>2, <2>1
<1>5. CASE ServerUserStep
  <2>1. CASE Close
    <3>1. fs_closed' \/ UNCHANGED <<fc_server_error, fs_closed>>
        BY <2>1 DEF Close, Crash, connVars, apiVars
    <3> QED
        BY <1>2, <3>1 DEF TerminatedByClose
  <2>2. CASE ~Close
    <3>1. UNCHANGED <<fc_server_error, fs_closed>>
        BY <1>5, <2>2
           DEF ServerUserStep, OnConnsDestroyed, HandlerWrite, connVars, apiVars
    <3> QED
        BY <1>2, <3>1
  <2> QED
      BY <2>1, <2>2
<1>6. CASE ClientGone \/ ConnectionFails \/ CallCut
  <2>1. UNCHANGED <<fc_server_error, fs_closed>>
      BY <1>6
         DEF ClientGone, ConnectionFails, CallCut, OnConnectionEnd,
             OnConnectionError, InputFails, Crash, connVars, apiVars
  <2> QED
      BY <1>2, <2>1
<1>7. CASE CallArrives \/ AnswerArrives
  <2>1. UNCHANGED <<fc_server_error, fs_closed>>
      BY <1>7 DEF CallArrives, AnswerArrives, SocketWrite, connVars, apiVars
  <2> QED
      BY <1>2, <2>1
<1>8. CASE UNCHANGED serverVars
    BY <1>2, <1>8 DEF serverVars, vars, connVars, apiVars
<1> QED
    BY <1>3, <1>4, <1>5, <1>6, <1>7, <1>8
       DEF SystemNext, CallerStep, ClientStep, EndTransport, DestroyTransport,
           TransportFails, ServerGone, sysvars

\* No call is served twice.
LEMMA ServedOnce ==
    ASSUME SystemInv, NEW r \in Requests
    PROVE  Cardinality(Served(r)) <= 1
<1>1. r # None
    BY SystemAssumption
<1>2. \A p, q \in Served(r) : p = q
    BY <1>1 DEF Served, SystemInv, Linked, OnceOK
<1>3. CASE Served(r) = {}
    BY <1>3, FS_EmptySet
<1>4. CASE Served(r) # {}
  <2>1. PICK q \in Served(r) : Served(r) = {q}
      BY <1>2, <1>4
  <2>2. Cardinality({q}) = 1
      BY FS_Singleton
  <2> QED
      BY <2>1, <2>2
<1> QED
    BY <1>3, <1>4

\* What an answer in flight finds at the client.
LEMMA AnswersFound == SystemInv => C!AnswersFindTheirRequest
<1>1. SystemInv => Client!AnswersFindTheirRequest
    BY ClientAssumed, Client!AnswersHeld DEF SystemInv
<1>2. Client!AnswersFindTheirRequest => C!AnswersFindTheirRequest
    BY DEF Client!AnswersFindTheirRequest, C!AnswersFindTheirRequest
<1> QED
    BY <1>1, <1>2

AgreeInv ==
    /\ IdsInOrder /\ TerminatedByClose /\ fc_error # "unknown_msgid"

LEMMA AgreeInvariance ==
    ASSUME Cardinality(Requests) <= MaxMsgId
    PROVE  SystemSpec => []AgreeInv
<1>1. SystemInit => AgreeInv
  <2> SUFFICES ASSUME SystemInit PROVE AgreeInv
      OBVIOUS
  <2>1. /\ fc_nrpc_started = 0 /\ ida_nextid = 1 /\ fc_error = "none"
        /\ frq_msgid = [r \in Requests |-> 0] /\ fc_server_error = {}
      BY DEF SystemInit, C!Init, Init
  <2>2. Asked = {} /\ Cardinality(Asked) = 0
      BY <2>1, FS_EmptySet DEF Asked
  <2>3. IdsInOrder
      BY <2>1, <2>2, SystemAssumption DEF IdsInOrder
  <2> QED
      BY <2>1, <2>3 DEF AgreeInv, TerminatedByClose
<1>2. SystemInv /\ AgreeInv /\ [SystemNext]_sysvars => AgreeInv'
  <2> SUFFICES ASSUME SystemInv, AgreeInv, [SystemNext]_sysvars PROVE AgreeInv'
      OBVIOUS
  <2>1. IdsInOrder' /\ TerminatedByClose'
      BY IdsStayInOrder, OnlyCloseTerminates DEF AgreeInv
  <2>2. [Client!Next]_(Client!vars)
      BY ClientTakesStep, ClientSteps, ClientStutters
  <2>3. fc_error' # "unknown_msgid"
      BY <2>2, ClientAssumed, Client!AnswersKnown DEF SystemInv, AgreeInv
  <2> QED
      BY <2>1, <2>3 DEF AgreeInv
<1> QED
    BY <1>1, <1>2, SystemInvariance, PTL DEF SystemSpec

\* With as many message ids as there are calls, answers find the request they
\* were made for, neither end ever takes the other's messages for a violation of
\* the protocol, and no call is served twice.  (An id that is used again may
\* reach the server before the server has seen that its answer was written: with
\* 2^31 - 1 ids, no sooner than that many calls later.)
THEOREM EndsDoAgree ==
    ASSUME Cardinality(Requests) <= MaxMsgId
    PROVE  SystemSpec => []EndsAgree
<1>1. SystemInv /\ AgreeInv => EndsAgree
    BY ServedOnce, AnswersFound DEF AgreeInv, EndsAgree, TerminatedByClose
<1> QED
    BY <1>1, AgreeInvariance, SystemInvariance, PTL
-----------------------------------------------------------------------------
(* Which answers are lost *)

\* No connection drains, or has had its socket destroyed, that has not begun to
\* go.
GoesForAReason == fc_draining \cup (accepted \ sock_open) \subseteq Going

LEMMA DrainingGoes ==
    ASSUME GoesForAReason, NEW S, NEW pending, NEW D, ConnDrain(S, pending, D),
           accepted' = accepted, Going \subseteq Going', S \cup D \subseteq Going'
    PROVE  GoesForAReason'
BY DEF GoesForAReason, ConnDrain

\* A request that completes lets its connection go only if that drains.
LEMMA CleanupGoes ==
    ASSUME GoesForAReason, NEW S, S \subseteq fc_draining, NEW pending,
           ConnDrain(S, pending, {}), UNCHANGED <<connVars, accepted>>
    PROVE  GoesForAReason' /\ Going \subseteq Going'
<1>1. Going' = Going
    BY DEF Going, connVars
<1>2. S \cup {} \subseteq Going
    BY DEF GoesForAReason
<1> QED
    BY <1>1, <1>2, DrainingGoes

LEMMA TerminatingGoes ==
    ASSUME GoesForAReason, NEW S, ConnTerminate(S), accepted' = accepted
    PROVE  GoesForAReason' /\ Going \subseteq Going'
<1> DEFINE fresh == S \ (fc_server_error \cup fc_socket_error)
<1>1. /\ Going \subseteq Going' /\ fresh \cup fresh \subseteq Going'
      /\ ConnDrain(fresh, fc_pending, fresh)
    BY DEF ConnTerminate, AbandonConns, Going
<1> QED
    BY <1>1, DrainingGoes

\* A connection that has begun to go stays so, and no other one goes.
LEMMA ServerGoes ==
    ASSUME GoesForAReason, [Next]_vars
    PROVE  GoesForAReason' /\ Going \subseteq Going' /\ (fs_closed => fs_closed')
<1>1. CASE UNCHANGED <<connVars, drainVars, accepted, fs_closed>>
    BY <1>1 DEF GoesForAReason, Going, connVars, drainVars
<1>2. CASE Crashes
    BY <1>1, <1>2 DEF Crashes, Crash, inVars, apiVars
<1>3. CASE Close /\ ~Crashes
    BY <1>3, TerminatingGoes DEF Close, Crashes, inVars
<1>4. CASE RunImmediate \/ \E k \in Callbacks : OnConnsDestroyed(k)
    BY <1>4 DEF RunImmediate, OnConnsDestroyed, connVars, inVars, GoesForAReason, Going
<1>5. ASSUME NEW c \in Conns, ConnCreate(c), ~Crashes
      PROVE  GoesForAReason' /\ Going \subseteq Going' /\ (fs_closed => fs_closed')
    BY <1>5 DEF ConnCreate, Crashes, apiVars, GoesForAReason, Going
<1>6. ASSUME NEW c \in Conns, OnConnectionEnd(c), ~Crashes
      PROVE  GoesForAReason' /\ Going \subseteq Going' /\ (fs_closed => fs_closed')
  <2>1. CASE UNCHANGED <<fc_ended, drainVars>>
      BY <1>1, <1>6, <2>1 DEF OnConnectionEnd, Crashes, inVars, apiVars,
         GoesForAReason, Going, drainVars
  <2>2. CASE fc_ended' = fc_ended \cup {c} /\ ConnDrain({c}, fc_pending, {})
    <3>1. /\ accepted' = accepted /\ fs_closed' = fs_closed
          /\ Going \subseteq Going' /\ {c} \cup {} \subseteq Going'
        BY <1>6, <2>2 DEF OnConnectionEnd, Crashes, Going, inVars, apiVars
    <3> QED
        BY <2>2, <3>1, DrainingGoes
  <2> QED
      BY <1>6, <2>1, <2>2 DEF OnConnectionEnd, Crashes
<1>7. ASSUME NEW c \in Conns, OnConnectionError(c), ~Crashes
      PROVE  GoesForAReason' /\ Going \subseteq Going' /\ (fs_closed => fs_closed')
  <2> DEFINE S == {c} \ fc_server_error
  <2>1. /\ accepted' = accepted /\ fs_closed' = fs_closed
        /\ Going \subseteq Going' /\ S \cup S \subseteq Going'
        /\ ConnDrain(S, fc_pending, S)
      BY <1>7 DEF OnConnectionError, Crashes, AbandonConns, Going, inVars, apiVars
  <2> QED
      BY <2>1, DrainingGoes
<1>8. ASSUME NEW c \in Conns, OnMessage(c)
      PROVE  GoesForAReason' /\ Going \subseteq Going' /\ (fs_closed => fs_closed')
  <2>1. accepted' = accepted /\ fs_closed' = fs_closed
      BY <1>8
         DEF OnMessage, DropMessage, RejectMessage, RejectCall, StartCall,
             TakesMessage, apiVars
  <2>2. CASE DropMessage(c) \/ StartCall(c)
      BY <1>1, <2>1, <2>2 DEF DropMessage, StartCall
  <2>3. CASE RejectMessage(c)
      BY <1>1, <2>1, <2>3, TerminatingGoes DEF RejectMessage
  <2>4. CASE RejectCall(c)
    <3>1. CASE UNCHANGED <<connVars, drainVars>>
        BY <1>1, <2>1, <3>1
    <3>2. CASE ConnDrain({c} \cap fc_draining, fc_pending, {})
               /\ UNCHANGED connVars
        BY <2>1, <3>2, CleanupGoes
    <3> QED
        BY <2>4, <3>1, <3>2 DEF RejectCall
  <2> QED
      BY <1>8, <2>2, <2>3, <2>4 DEF OnMessage
<1>9. ASSUME NEW c \in Conns, SocketWrite(c) \/ ClientSends(c) \/ SocketClosed(c)
      PROVE  GoesForAReason' /\ Going \subseteq Going' /\ (fs_closed => fs_closed')
  <2>1. /\ UNCHANGED <<fc_ended, fc_socket_error, fc_server_error>>
        /\ UNCHANGED <<drainVars, accepted, fs_closed>>
      BY <1>9 DEF SocketWrite, ClientSends, SocketClosed, connVars, inVars, apiVars
  <2> QED
      BY <2>1 DEF GoesForAReason, Going, drainVars
<1>10. ASSUME NEW r \in Reqs, HandlerFail(r) \/ RequestComplete(r), ~Crashes
       PROVE  GoesForAReason' /\ Going \subseteq Going' /\ (fs_closed => fs_closed')
  <2>1. /\ UNCHANGED <<connVars, accepted, fs_closed>>
        /\ ConnDrain(Draining(r), Without(r), {})
      BY <1>10 DEF HandlerFail, RequestComplete, RequestCleanup, Crashes, inVars, apiVars
  <2>2. Draining(r) \subseteq fc_draining
      BY DEF Draining
  <2> QED
      BY <2>1, <2>2, CleanupGoes
<1>11. ASSUME NEW r \in Reqs,
              \/ HandlerWrite(r) \/ HandlerEnd(r)
              \/ Transform(r) \/ Flush(r) \/ Pipe(r)
       PROVE  UNCHANGED <<connVars, drainVars, accepted, fs_closed>>
    BY <1>11
       DEF HandlerWrite, HandlerEnd, Transform, Flush, Pipe, inVars, apiVars
<1>12. CASE UNCHANGED vars
    BY <1>1, <1>12 DEF vars, connVars, drainVars, inVars, apiVars
<1> QED
    BY <1>1, <1>2, <1>3, <1>4, <1>5, <1>6, <1>7, <1>8, <1>9, <1>10, <1>11, <1>12
       DEF Next, PipelineStep, InputFails, Crashes

\* A process that has ended does nothing more.
LEMMA StaysDown ==
    ASSUME [Next]_vars, crashed # "no"
    PROVE  crashed' = crashed
BY DEF Next, vars, Close, RunImmediate, OnConnsDestroyed, ConnCreate,
       OnConnectionEnd, OnConnectionError, SocketClosed, OnMessage, DropMessage,
       RejectMessage, RejectCall, StartCall, TakesMessage, SocketWrite,
       ClientSends, InputFails, HandlerWrite, HandlerEnd, HandlerFail,
       PipelineStep, Transform, Flush, Pipe, RequestComplete

\* The server's end of the stream is broken off only when the connection goes, or
\* was never made for the server was closed, or when the server's process ends.
TeardownInv ==
    /\ GoesForAReason
    /\ Client!FatalKnown
    /\ Client!StreamBroken => conn \in Going \/ fs_closed \/ crashed # "no"

\* Only a server that is gone ends the stream.
LEMMA OthersDoNotStop ==
    ASSUME SystemInv, SystemNext, ~ServerGone
    PROVE  ~Client!PeerStops
<1> SUFFICES ASSUME Client!PeerStops PROVE FALSE
    OBVIOUS
<1>1. decoder_open /\ decoder_open' = FALSE /\ fc_detached' = fc_detached
    BY DEF Client!PeerStops, Client!Sends, Client!clientVars
<1>2. ASSUME CallerStep PROVE FALSE
  <2>1. CASE C!Detach
    <3>1. CASE C!Crash
        BY <1>1, <3>1 DEF C!Crash, C!transportVars, C!peerVars
    <3>2. CASE ~C!Crash
        BY <1>1, <2>1, <3>2 DEF C!Detach
    <3> QED
        BY <3>1, <3>2
  <2>2. ASSUME NEW r \in Requests, C!Abandon(r) \/ C!Rpc(r) PROVE FALSE
      BY <1>1, <2>2
         DEF C!Abandon, C!Rpc, C!Crash, C!transportVars, C!peerVars
  <2> QED
      BY <1>2, <2>1, <2>2, SystemAssumption
         DEF CallerStep, SystemInv, Linked, WorldOK
<1>3. ASSUME ClientStep PROVE FALSE
  <2>1. CASE C!HandlerStep
    <3>1. decoder_open' = decoder_open
        BY <2>1
           DEF C!HandlerStep, C!OnUnknownMsgid, C!OnDecoderError,
               C!OnTransportEnd, C!AbandonAll, C!EmitObject, C!SkipNull,
               C!RejectNull, C!DataDone, C!EndDone, C!OnData, C!OnServerError,
               C!OnAbandonedMessage, C!Crash, C!transportVars, C!peerVars
    <3> QED
        BY <1>1, <3>1
  <2>2. ASSUME NEW r \in Requests, C!RequestStep(r) PROVE FALSE
      BY <1>1, <2>2
         DEF C!RequestStep, C!OnRpcTimeout, C!EmitRequestError,
             C!EmitRequestEnd, C!Crash, C!transportVars, C!peerVars
  <2> QED
      BY <1>3, <2>1, <2>2 DEF ClientStep
<1>4. ASSUME TransportFails PROVE FALSE
    BY <1>1, <1>4
       DEF TransportFails, C!OnTransportError, C!transportVars, C!peerVars
<1>5. ~CallArrives /\ ~AnswerArrives
    BY <1>1 DEF CallArrives, AnswerArrives, pipeEnds
<1>6. ~(UNCHANGED clientVars)
  <2>1. UNCHANGED clientVars => decoder_open' = decoder_open
      BY DEF clientVars, pipeEnds
  <2> QED
      BY <1>1, <2>1
<1> QED
    BY <1>2, <1>3, <1>4, <1>5, <1>6
       DEF SystemNext, EndTransport, DestroyTransport, ClientGone,
           ConnectionFails, CallCut, ServerMessage, ServerStep, ServerUserStep

LEMMA TeardownKept ==
    ASSUME SystemInv, SystemInv', TerminatedByClose, TeardownInv,
           [SystemNext]_sysvars
    PROVE  TeardownInv'
<1>1. /\ GoesForAReason' /\ Going \subseteq Going'
      /\ (fs_closed => fs_closed') /\ (crashed # "no" => crashed' # "no")
    BY ServerTakesStep, ServerGoes, StaysDown DEF TeardownInv
<1>2. [Client!Next]_(Client!vars)
    BY ClientTakesStep, ClientSteps, ClientStutters
<1>3. Client!FatalKnown'
    BY <1>2, ClientAssumed, Client!FatalStaysKnown DEF SystemInv, TeardownInv
<1>4. ASSUME Client!StreamBroken' 
      PROVE  (conn \in Going \/ fs_closed \/ crashed # "no")'
  <2>1. Client!StreamBroken \/ Client!PeerStops
      BY <1>2, <1>4, ClientAssumed, Client!StreamBreaks DEF SystemInv
  <2>2. CASE Client!StreamBroken
      BY <1>1, <2>2 DEF TeardownInv
  <2>3. CASE ServerGone
    <3>1. /\ conn \notin sock_open \/ crashed # "no"
          /\ conn \in accepted \/ fs_closed
        BY <2>3 DEF ServerGone
    <3> QED
        BY <1>1, <3>1 DEF TeardownInv, GoesForAReason
  <2>4. CASE UNCHANGED sysvars
    <3>1. Client!StreamBroken' <=> Client!StreamBroken
        BY <2>4 DEF sysvars, clientVars, stateVars, Client!StreamBroken
    <3> QED
        BY <1>4, <2>2, <3>1
  <2> QED
      BY <2>1, <2>2, <2>3, <2>4, OthersDoNotStop
<1> QED
    BY <1>1, <1>3, <1>4 DEF TeardownInv

\* The answer to a request that the server completed is lost only if the network
\* or the server's process failed, or the server was closed, or the client's side
\* was ended: no protocol
\* error, reused id, abandoned or rejected call of either end ever costs another
\* call its answer.
THEOREM LossMeansTeardown ==
    ASSUME Cardinality(Requests) <= MaxMsgId
    PROVE  SystemSpec => []OnlyTeardownLosesAnswers
<1>1. SystemInit => TeardownInv
  <2> SUFFICES ASSUME SystemInit PROVE TeardownInv
      OBVIOUS
  <2>1. /\ fc_draining = {} /\ accepted = {} /\ fc_msgdecoder = <<>>
        /\ fc_error = "none" /\ running = C!Idle
        /\ frq_error = [r \in Requests |-> "none"]
      BY DEF SystemInit, Init, C!Init
  <2>2. GoesForAReason
      BY <2>1 DEF GoesForAReason
  <2>3. Client!FatalKnown
      BY <2>1 DEF Client!FatalKnown, C!Idle
  <2>4. ~Client!StreamBroken
      BY <2>1 DEF Client!StreamBroken
  <2> QED
      BY <2>2, <2>3, <2>4 DEF TeardownInv
<1>2. SystemInv /\ SystemInv' /\ AgreeInv /\ TeardownInv /\ [SystemNext]_sysvars
        => TeardownInv'
    BY TeardownKept DEF AgreeInv
<1>3. SystemInv /\ AgreeInv /\ TeardownInv => OnlyTeardownLosesAnswers
  <2> SUFFICES ASSUME SystemInv, AgreeInv, TeardownInv,
                      NEW r \in Requests, AnswerLost(r)
               PROVE  \/ fc_error = "transport" \/ fs_closed
                      \/ conn \in fc_ended \cup fc_socket_error \/ crashed # "no"
      BY DEF OnlyTeardownLosesAnswers
  <2>1. fc_error # "none" /\ fc_error # "unknown_msgid"
      BY DEF AnswerLost, TeardownInv, AgreeInv, Client!FatalKnown
  <2>2. fc_error \in {"none", "unknown_msgid", "protocol", "ended", "transport"}
      BY DEF SystemInv, Client!IInv, Client!TypeOK, Client!ClientTypeOK, Client!Fatal
  <2>3. CASE Client!StreamBroken
      BY <2>3 DEF TeardownInv, AgreeInv, TerminatedByClose, Going
  <2> QED
      BY <2>1, <2>2, <2>3 DEF Client!StreamBroken
<1> QED
    BY <1>1, <1>2, <1>3, SystemInvariance, AgreeInvariance, PTL DEF SystemSpec

-----------------------------------------------------------------------------
(* The callers *)

Callers == INSTANCE RpcCallsProofs
        WITH Object <- Reqs, emitted <- delivered,
             phase <- [r \in Requests |-> C!StreamPhase(r)]

\* The callers' side: streams that keep their promise, and what the callers made
\* of them so far.
CallersInv == Client!StreamOK /\ Callers!IInv

LEMMA CallersAssumed == Callers!CallsAssumption
BY SystemAssumption DEF Callers!CallsAssumption

LEMMA CallersListen == Calls!Listen => Callers!Listen
BY Zenon
   DEF Calls!Listen, Callers!Listen, Calls!OnData, Callers!OnData, Calls!OnEnd,
       Callers!OnEnd, Calls!OnError, Callers!OnError, Calls!Keeps,
       Callers!Keeps, Calls!Outcomes, Callers!Outcomes, Calls!Fails,
       Callers!Fails, Calls!ListenerAsserts, Callers!ListenerAsserts

LEMMA SamePhases ==
    [r \in Requests |-> Client!StreamPhase(r)] = [r \in Requests |-> C!StreamPhase(r)]
BY DEF C!StreamPhase, Client!StreamPhase

LEMMA StreamIsCallers ==
    /\ Client!Stream!Init => Callers!Stream!Init
    /\ Client!Stream!Next => Callers!Stream!Next
    /\ UNCHANGED Client!Stream!vars => UNCHANGED Callers!stream
<1>1. Client!Stream!Init => Callers!Stream!Init
    BY Zenon DEF C!StreamPhase, Client!StreamPhase, Client!Stream!Init,
        Callers!Stream!Init
<1>2. Client!Stream!Next => Callers!Stream!Next
    BY Zenon
       DEF C!StreamPhase, Client!StreamPhase, Client!Stream!Next,
        Callers!Stream!Next, Client!Stream!Issue, Callers!Stream!Issue,
        Client!Stream!Finish, Callers!Stream!Finish, Client!Stream!EmitEnd,
        Callers!Stream!EmitEnd, Client!Stream!EmitError,
        Callers!Stream!EmitError, Client!Stream!Emit, Callers!Stream!Emit,
        Client!Stream!Fail, Callers!Stream!Fail, Client!Stream!Move,
        Callers!Stream!Move
<1>3. UNCHANGED Client!Stream!vars => UNCHANGED Callers!stream
    BY SamePhases DEF C!StreamPhase, Client!StreamPhase, Client!Stream!vars,
        Callers!stream
<1> QED
    BY <1>1, <1>2, <1>3

LEMMA CallersKeep ==
    ASSUME SystemInv, CallersInv, [C!Next]_(C!vars), Calls!Listen
    PROVE  CallersInv'
<1>1. Client!StreamOK' /\ Client!StreamGoesOn
    BY ClientAssumed, ClientSteps, ClientStutters, Client!StreamStep
       DEF SystemInv, CallersInv
<1>2. /\ Callers!Stream!TypeOK'
      /\ \A r \in Requests : Callers!Quiet(r) \/ Callers!Gets(r) \/ Callers!Moves(r)
  <2>1. Callers!Stream!TypeOK
      BY DEF CallersInv, Callers!IInv, Callers!TypeOK
  <2>2. CASE Client!Stream!Next
      BY <2>1, <2>2, StreamIsCallers, Callers!StreamStep
  <2>3. CASE UNCHANGED Client!Stream!vars
    <3>1. UNCHANGED Callers!stream
        BY <2>3, StreamIsCallers
    <3> QED
        BY <2>1, <3>1 DEF Callers!stream, Callers!Stream!TypeOK, Callers!Quiet
  <2> QED
      BY <1>1, <2>2, <2>3 DEF Client!StreamGoesOn
<1>3. Callers!Listen
    BY CallersListen
<1>4. Callers!IInv'
    BY <1>2, <1>3, CallersAssumed, Callers!ListenKeeps DEF CallersInv
<1> QED
    BY <1>1, <1>4 DEF CallersInv
\* Nothing happens to the streams, and no caller is called.
LEMMA CallersLeftAlone ==
    ASSUME CallersInv,
           UNCHANGED <<requestVars, streamVars, callVars>>
    PROVE  CallersInv'
<1>1. Client!StreamOK'
    BY DEF CallersInv, Client!StreamOK, requestVars, streamVars
<1>2. UNCHANGED Callers!vars
    BY DEF Callers!vars, Callers!stream, Callers!calls, C!StreamPhase,
           requestVars, streamVars, callVars
<1>3. Callers!IInv'
    BY <1>2, Callers!StutterKeeps DEF CallersInv
<1> QED
    BY <1>1, <1>3 DEF CallersInv

LEMMA CallersStart == SystemInit => CallersInv
<1> SUFFICES ASSUME SystemInit PROVE CallersInv
    OBVIOUS
<1>1. Client!StreamOK /\ Client!Stream!Init
    BY ClientInits, ClientAssumed, Client!InitStream DEF SystemInit
<1>2. Callers!Stream!Init
    BY <1>1, StreamIsCallers
<1>3. Callers!CallsInit
    BY DEF SystemInit, Calls!CallsInit, Callers!CallsInit
<1>4. Callers!IInv
    BY <1>2, <1>3, CallersAssumed, Callers!InitHolds DEF Callers!Init
<1> QED
    BY <1>1, <1>4 DEF CallersInv

LEMMA CallersStep ==
    ASSUME SystemInv, CallersInv, [SystemNext]_sysvars
    PROVE  CallersInv'
<1>1. CASE CallerStep \/ ClientStep \/ TransportFails
    BY <1>1, CallersKeep, ClientTakesStep
       DEF CallerStep, ClientStep, TransportFails
<1>2. CASE UNCHANGED <<requestVars, streamVars, callVars>>
    BY <1>2, CallersLeftAlone
<1>3. CASE ServerGone
    BY <1>3, CallersLeftAlone
       DEF ServerGone, C!PeerStops, C!requestVars, C!streamVars, requestVars,
           streamVars
<1> QED
    BY <1>1, <1>2, <1>3
       DEF SystemNext, EndTransport, DestroyTransport, CallArrives, AnswerArrives,
           ClientGone, ConnectionFails, CallCut, ServerMessage, ServerStep,
           ServerUserStep, clientVars, sysvars

\* The callers' side of every behaviour.
LEMMA CallersInvariance == SystemSpec => []CallersInv
BY CallersStart, CallersStep, SystemInvariance, PTL DEF SystemSpec

\* Whatever the server and the network do, every caller's callback is made once,
\* when its stream is over, with the first objects of the stream, and no
\* assertion of a listener fails.
THEOREM CallbacksAreRight == SystemSpec => []CallbacksCorrect
<1>1. CallersInv => CallbacksCorrect
    BY DEF CallersInv, Callers!IInv, Callers!CallbackCorrect, CallbacksCorrect,
           Calls!CallbackCorrect
<1> QED
    BY <1>1, CallersInvariance, PTL

\* Any number of calls at any bounds are of the right types at both ends and at
\* the callers.
THEOREM SystemTypeCorrect == SystemSpec => []SystemTypeOK
<1>1. SystemInv => C!TypeOK
  <2>1. Client!RequestTypeOK => C!RequestTypeOK
      BY Zenon DEF Client!RequestTypeOK, C!RequestTypeOK, Client!MsgIds, C!MsgIds,
             Client!Causes, C!Causes
  <2>2. Client!ClientTypeOK => C!ClientTypeOK
      BY Zenon DEF Client!ClientTypeOK, C!ClientTypeOK, Client!MsgIds, C!MsgIds,
             Client!Fatal, C!Fatal
  <2>3. Client!StreamTypeOK /\ Client!LoopTypeOK => C!StreamTypeOK /\ C!LoopTypeOK
      BY Zenon DEF Client!StreamTypeOK, C!StreamTypeOK, Client!LoopTypeOK,
             C!LoopTypeOK, Client!Frame, C!Frame, Client!Value, C!Value,
             Client!Status, C!Status
  <2>4. Client!PeerTypeOK => C!PeerTypeOK
      BY Zenon DEF Client!PeerTypeOK, C!PeerTypeOK, Client!MsgIds, C!MsgIds
  <2>5. Client!DecoderTypeOK => C!DecoderTypeOK
      BY Zenon DEF Client!DecoderTypeOK, C!DecoderTypeOK, Client!Event, C!Event,
             Client!MsgIds, C!MsgIds, Client!Value, C!Value, Client!Status,
             C!Status
  <2> QED
      BY <2>1, <2>2, <2>3, <2>4, <2>5
         DEF SystemInv, Client!IInv, Client!TypeOK, C!TypeOK
<1>2. CallersInv => Calls!TypeOK
    BY DEF CallersInv, Callers!IInv, Callers!TypeOK, Calls!TypeOK,
           Callers!Stream!TypeOK, Calls!Stream!TypeOK, Callers!Stream!Phases,
           Calls!Stream!Phases, Callers!Outcome, Calls!Outcome
<1>3. SystemInv /\ CallersInv => SystemTypeOK
    BY <1>1, <1>2 DEF SystemTypeOK, SystemInv, Linked, WorldOK, CallsOK
<1> QED
    BY <1>3, SystemInvariance, CallersInvariance, PTL

\* No sequence of calls, answers, failures and closes makes the client or a
\* caller's listener throw, nor the server, but for the surprises there are: what
\* ends it then is one of them, and the client and its callers survive that too.
THEOREM NothingThrows == SystemSpec => []NoCrash
<1>1. SystemInv => crashed \in {"no"} \cup Surprises
    BY DEF SystemInv, IInv, NoAssertionFailure
<1>2. SystemInv => ~c_crashed
    BY DEF SystemInv, Client!IInv, Client!EmitsPending
<1>3. CallersInv => ~throws
    BY DEF CallersInv, Callers!IInv, Callers!CallbackCorrect
<1>4. SystemInv /\ CallersInv => NoCrash
    BY <1>1, <1>2, <1>3 DEF NoCrash
<1> QED
    BY <1>4, SystemInvariance, CallersInvariance, PTL
-----------------------------------------------------------------------------
(* What the caller is given.  AnswerInv follows the answer of each call from  *)
(* the socket that the server writes it to, through the decoder's queue and   *)
(* the message being emitted, to the caller.                                  *)

\* The places of the answers for call r that the client has not looked at yet.
Waiting(r) == {i \in 1 .. Len(fc_msgdecoder) : fc_msgdecoder[i].req = r}

\* The client emits a message to r, or what is left of it; and it is the END.
Emits(r) == running.kind = "emit" /\ running.req = r
Ends(r)  == Emits(r) /\ running.status = "end"

Doing(r) ==
    IF Ends(r) THEN Len(running.rest) + 1
    ELSE IF Emits(r) THEN Len(running.rest) ELSE 0

\* The messages for call r that the client has taken in, an object for each DATA
\* message: handed over, about to be, or not looked at.
Taken(r) == Len(delivered[r]) + Doing(r) + Cardinality(Waiting(r))

EndTaken(r) == Ends(r) \/ \E i \in Waiting(r) : fc_msgdecoder[i].status # "data"

LastWritten(q) == wire[q][Len(wire[q])]

\* What the client has of call r's answer comes from the handler that serves it.
SourceOK(r) ==
    /\ delivered[r] \in Seq(Served(r))
    /\ Emits(r) => Served(r) # {} /\ running.rest \in Seq(Served(r))
    /\ \A i \in Waiting(r) :
          /\ Served(r) # {} /\ fc_msgdecoder[i].d \in Seq(Served(r))
          /\ Len(fc_msgdecoder[i].d) =
                IF fc_msgdecoder[i].status = "data" THEN 1 ELSE 0

\* As long as answers are heard, and when the last message was, the client has
\* taken in what was written to the socket.
TakenOK(r, q) ==
    /\ Heard \/ EndTaken(r) => Taken(r) = Len(wire[q])
    /\ Ends(r) => wire[q] # <<>> /\ LastWritten(q) = "end"
    /\ \A i \in Waiting(r) :
          fc_msgdecoder[i].status # "data" =>
                wire[q] # <<>> /\ LastWritten(q) = fc_msgdecoder[i].status

\* A call that was answered to the end has got it all, or the server's error.
AnsweredOK(r, q) ==
    /\ wire[q] # <<>>
    /\ \/ frq_error[r] = "server" /\ LastWritten(q) = "error"
       \/ /\ frq_error[r] = "none" /\ LastWritten(q) = "end"
          /\ Len(delivered[r]) + 1 = Len(wire[q])

AnswerOK(r) ==
    /\ SourceOK(r)
    /\ \A q \in Served(r) : C!IsPending(r) => TakenOK(r, q)
    /\ r \in frq_done_graceful => \E q \in Served(r) : AnsweredOK(r, q)

AnswerInv == \A r \in Requests : AnswerOK(r)

\* The places of one request's messages when the head of a queue is taken.
LEMMA TailCount ==
    ASSUME NEW S, NEW q \in Seq(S), q # <<>>, NEW r
    PROVE  /\ \A i \in In(Tail(q), r) :
                 \E x \in In(q, r) : x # 1 /\ Tail(q)[i] = q[x]
           /\ Cardinality(In(q, r)) \in Nat
           /\ q[1].req = r =>
                 /\ 1 \in In(q, r)
                 /\ Cardinality(In(Tail(q), r)) = Cardinality(In(q, r)) - 1
           /\ q[1].req # r =>
                 Cardinality(In(Tail(q), r)) = Cardinality(In(q, r))
<1> DEFINE p == Tail(q)
<1>1. /\ \A i \in In(p, r) : i + 1 \in In(q, r) /\ i \in Nat /\ p[i] = q[i + 1]
      /\ Cardinality(In(p, r)) = Cardinality(In(q, r) \ {1})
    BY TailPlaces
<1>2. \A i \in In(p, r) : i >= 1
    BY DEF In
<1> HIDE DEF p
<1>3. ASSUME NEW i \in In(p, r) PROVE \E x \in In(q, r) : x # 1 /\ p[i] = q[x]
  <2>1. PICK x \in In(q, r) : x = i + 1
      BY <1>1
  <2> QED
      BY <1>1, <1>2, <2>1
<1>4. IsFiniteSet(In(q, r)) /\ Cardinality(In(q, r)) \in Nat
    BY InFinite
<1>5. 1 \in In(q, r) <=> q[1].req = r
  <2>1. Len(q) \in Nat /\ Len(q) >= 1
      OBVIOUS
  <2> QED
      BY <2>1 DEF In
<1>6. CASE 1 \in In(q, r)
  <2>1. Cardinality(In(q, r) \ {1}) = Cardinality(In(q, r)) - 1
      BY <1>4, <1>6, FS_RemoveElement
  <2> QED
      BY <1>1, <1>3, <1>4, <1>5, <1>6, <2>1 DEF p
<1>7. CASE 1 \notin In(q, r)
  <2>1. In(q, r) \ {1} = In(q, r)
      BY <1>7
  <2> QED
      BY <1>1, <1>3, <1>4, <1>5, <1>7, <2>1 DEF p
<1> QED
    BY <1>6, <1>7

\* The same when a message is appended.
LEMMA AppendCount ==
    ASSUME NEW S, NEW q \in Seq(S), NEW m \in S, NEW r
    PROVE  /\ Cardinality(In(q, r)) \in Nat
           /\ m.req = r => Cardinality(In(Append(q, m), r)) =
                                Cardinality(In(q, r)) + 1
           /\ m.req # r => Cardinality(In(Append(q, m), r)) =
                                Cardinality(In(q, r))
<1> DEFINE p == Append(q, m)
           n == Len(q) + 1
<1>1. /\ n \in Nat /\ Len(q) \in Nat /\ Len(p) = n /\ p[n] = m
      /\ \A i \in 1 .. Len(q) : p[i] = q[i]
    BY AppendMeans
<1>2. IsFiniteSet(In(q, r)) /\ Cardinality(In(q, r)) \in Nat
    BY InFinite
<1>3. \A i \in 1 .. Len(p) : i \in 1 .. Len(q) \/ i = n
    BY <1>1
<1>4. n \notin In(q, r) /\ 1 .. Len(q) \subseteq 1 .. Len(p) /\ n \in 1 .. Len(p)
    BY <1>1 DEF In
<1> HIDE DEF p, n
<1>5. /\ m.req = r => In(p, r) = In(q, r) \cup {n}
      /\ m.req # r => In(p, r) = In(q, r)
  <2>1. \A i \in 1 .. Len(q) : i \in In(p, r) <=> i \in In(q, r)
      BY <1>1, <1>4 DEF In
  <2>2. n \in In(p, r) <=> m.req = r
      BY <1>1, <1>4 DEF In
  <2>3. In(p, r) \subseteq 1 .. Len(p) /\ In(q, r) \subseteq 1 .. Len(q)
      BY DEF In
  <2>4. \A i \in In(p, r) : i \in In(q, r) \/ (i = n /\ m.req = r)
      BY <1>3, <2>1, <2>2, <2>3
  <2>5. In(q, r) \subseteq In(p, r)
      BY <2>1, <2>3
  <2> QED
      BY <2>2, <2>4, <2>5
<1>6. Cardinality(In(q, r) \cup {n}) = Cardinality(In(q, r)) + 1
    BY <1>2, <1>4, FS_AddElement
<1> QED
    BY <1>2, <1>5, <1>6 DEF p

LEMMA AnswerTypes ==
    ASSUME Client!IInv
    PROVE  /\ fc_msgdecoder \in Seq(Client!Event)
           /\ delivered \in [Requests -> Seq(Reqs)]
           /\ frq_error \in [Requests -> Client!Causes]
           /\ frq_done_graceful \subseteq Requests
           /\ running \in Client!Frame
           /\ running.kind = "emit" => running.req \in Asked
BY DEF Client!IInv, Client!TypeOK, Client!DecoderTypeOK, Client!StreamTypeOK,
       Client!RequestTypeOK, Client!LoopTypeOK, Client!FrameOK, Asked

\* Nothing is done for call r but perhaps to give it up.
LEMMA AnswerKept ==
    ASSUME NEW r \in Requests, AnswerOK(r),
           Served(r)' = Served(r), \A q \in Served(r) : wire'[q] = wire[q],
           Heard' => Heard, delivered'[r] = delivered[r],
           r \in frq_done_graceful' => r \in frq_done_graceful,
           r \in frq_done_graceful => frq_error'[r] = frq_error[r],
           Emits(r)' => Emits(r) /\ UNCHANGED running,
           \A i \in Waiting(r)' :
                \E x \in Waiting(r) : fc_msgdecoder'[i] = fc_msgdecoder[x],
           C!IsPending(r)' /\ Served(r) # {} =>
                /\ C!IsPending(r) /\ Doing(r)' = Doing(r)
                /\ Cardinality(Waiting(r)') = Cardinality(Waiting(r))
    PROVE  AnswerOK(r)'
<1>1. SourceOK(r)'
    BY DEF AnswerOK, SourceOK
<1>2. ASSUME NEW q \in Served(r)', C!IsPending(r)' PROVE TakenOK(r, q)'
  <2>1. /\ q \in Served(r) /\ wire'[q] = wire[q] /\ C!IsPending(r)
        /\ TakenOK(r, q) /\ Taken(r)' = Taken(r)
      BY <1>2 DEF AnswerOK, Taken
  <2>2. Ends(r)' => Ends(r)
      BY DEF Ends
  <2>3. EndTaken(r)' => EndTaken(r)
      BY <2>2 DEF EndTaken
  <2> QED
      BY <2>1, <2>2, <2>3 DEF TakenOK, LastWritten
<1>3. ASSUME r \in frq_done_graceful' PROVE \E q \in Served(r)' : AnsweredOK(r, q)'
  <2>1. PICK q \in Served(r) : AnsweredOK(r, q)
      BY <1>3 DEF AnswerOK
  <2>2. AnsweredOK(r, q)'
      BY <1>3, <2>1 DEF AnsweredOK, LastWritten
  <2> QED
      BY <2>2
<1> QED
    BY <1>1, <1>2, <1>3 DEF AnswerOK

LEMMA QuietKeeps ==
    ASSUME AnswerInv,
           UNCHANGED <<call, wire, delivered, frq_done_graceful, frq_error,
                       fc_msgdecoder, running>>,
           Heard' => Heard
    PROVE  AnswerInv'
<1> SUFFICES ASSUME NEW r \in Requests PROVE AnswerOK(r)'
    BY DEF AnswerInv
<1>1. /\ Served(r)' = Served(r) /\ Waiting(r)' = Waiting(r)
      /\ Doing(r)' = Doing(r) /\ Emits(r)' = Emits(r)
      /\ C!IsPending(r)' = C!IsPending(r)
    BY DEF Served, Waiting, Doing, Ends, Emits, C!IsPending
<1> QED
    BY <1>1, AnswerKept DEF AnswerInv

\* A call that is served was made.
LEMMA ServedIsAsked ==
    ASSUME SystemInv, NEW r \in Requests
    PROVE  \A q \in Served(r) :
                q \in Reqs /\ call[q] = r /\ r \in Asked /\ r # None
BY SystemAssumption DEF SystemInv, Linked, CallsOK, Served

\* Who is pending is in fc_pending, and not done.
LEMMA PendingMeans ==
    ASSUME Client!IInv, NEW r \in Requests
    PROVE  /\ r \in C!Pending => r \in Asked /\ C!IsPending(r)
           /\ r \in Asked /\ C!IsPending(r) => r \in C!Pending
<1>1. /\ frq_msgid[r] # 0 => (C!IsPending(r) <=> c_pending[frq_msgid[r]] = r)
      /\ \A id \in CallIds :
            c_pending[id] # None =>
                c_pending[id] \in Requests /\ frq_msgid[c_pending[id]] = id
    BY SystemAssumption
       DEF Client!IInv, Client!Bookkeeping, Client!PendingAgrees,
           Client!PendingById, Client!Registered, Client!IsPending, C!IsPending,
           Client!MsgIds
<1>2. C!Pending = {c_pending[id] : id \in CallIds} \ {None}
    BY SystemAssumption DEF C!Pending, C!MsgIds
<1>3. ASSUME r \in C!Pending PROVE r \in Asked /\ C!IsPending(r)
  <2>1. PICK id \in CallIds : c_pending[id] = r /\ r # None
      BY <1>2, <1>3
  <2>2. frq_msgid[r] = id /\ id # 0
      BY <1>1, <2>1, SystemAssumption
  <2> QED
      BY <1>1, <2>1, <2>2 DEF Asked
<1>4. ASSUME r \in Asked, C!IsPending(r) PROVE r \in C!Pending
  <2>1. frq_msgid[r] \in CallIds /\ r # None /\ frq_msgid[r] # 0
      BY <1>4, AskedMeans DEF Asked
  <2>2. c_pending[frq_msgid[r]] = r
      BY <1>1, <1>4, <2>1
  <2> QED
      BY <1>2, <2>1, <2>2
<1> QED
    BY <1>3, <1>4

\* A step that gives calls up, or none, and hands nothing over.
LEMMA FailingKeeps ==
    ASSUME SystemInv, AnswerInv,
           UNCHANGED <<call, wire, delivered, frq_done_graceful>>,
           Heard' => Heard,
           \/ UNCHANGED running
           \/ /\ running'.kind # "emit"
              /\ running.kind = "emit" =>
                    running.rest = <<>> /\ running.status = "data",
           \A r \in frq_done_graceful : frq_error'[r] = frq_error[r],
           \A r \in Requests : C!IsPending(r)' => C!IsPending(r),
           \/ UNCHANGED fc_msgdecoder
           \/ /\ \A r \in Asked : ~C!IsPending(r)'
              /\ \E k \in 0 .. Len(fc_msgdecoder) :
                    fc_msgdecoder' = SubSeq(fc_msgdecoder, 1, k)
    PROVE  AnswerInv'
<1> SUFFICES ASSUME NEW r \in Requests PROVE AnswerOK(r)'
    BY DEF AnswerInv
<1>1. Served(r)' = Served(r)
    BY DEF Served
<1>2. /\ Doing(r)' = Doing(r)
      /\ Emits(r)' => Emits(r) /\ UNCHANGED running
  <2>1. CASE UNCHANGED running
      BY <2>1 DEF Doing, Ends, Emits
  <2>2. CASE /\ running'.kind # "emit"
             /\ running.kind = "emit" =>
                    running.rest = <<>> /\ running.status = "data"
    <3>1. Doing(r)' = 0 /\ ~Emits(r)'
        BY <2>2 DEF Doing, Ends, Emits
    <3>2. Emits(r) => Len(running.rest) = 0 /\ running.status = "data"
        BY <2>2 DEF Emits
    <3>3. Doing(r) = 0
        BY <3>2 DEF Doing, Ends
    <3> QED
        BY <3>1, <3>3
  <2> QED
      BY <2>1, <2>2
<1>3. CASE UNCHANGED fc_msgdecoder
  <2>1. Waiting(r)' = Waiting(r)
      BY <1>3 DEF Waiting
  <2> QED
      BY <1>1, <1>2, <1>3, <2>1, AnswerKept DEF AnswerInv
<1>4. ASSUME \A x \in Asked : ~C!IsPending(x)',
             NEW k \in 0 .. Len(fc_msgdecoder),
             fc_msgdecoder' = SubSeq(fc_msgdecoder, 1, k)
      PROVE  AnswerOK(r)'
  <2>1. /\ fc_msgdecoder \in Seq(Client!Event) /\ Len(fc_msgdecoder) \in Nat
        /\ Len(fc_msgdecoder') = k
        /\ \A i \in 1 .. k : fc_msgdecoder'[i] = fc_msgdecoder[i]
      BY <1>4, AnswerTypes DEF SystemInv
  <2>2. \A i \in Waiting(r)' :
            i \in Waiting(r) /\ fc_msgdecoder'[i] = fc_msgdecoder[i]
      BY <2>1 DEF Waiting
  <2>3. Served(r) # {} => r \in Asked
      BY ServedIsAsked
  <2> QED
      BY <1>1, <1>2, <1>4, <2>2, <2>3, AnswerKept DEF AnswerInv
<1> QED
    BY <1>3, <1>4

\* The message at the head of the decoder's queue is an answer to the request
\* that its message id leads to, or none.
LEMMA HeadIsHeld ==
    ASSUME SystemInv, fc_msgdecoder # <<>>
    PROVE  LET m == fc_msgdecoder[1] IN
           /\ C!Message = m
           /\ m.status \in C!Status =>
                 /\ m.msgid \in CallIds
                 /\ m.req # None /\ Client!Held(m.msgid) = m.req
           /\ m.status \in {"invalid", "eof"} => m.req = None
<1>1. fc_msgdecoder \in Seq(Client!Event)
    BY AnswerTypes DEF SystemInv
<1> DEFINE m == fc_msgdecoder[1]
           E == Client!Event
<1> HIDE DEF E
<1>2. m \in E /\ C!Message = m /\ 1 \in 1 .. Len(fc_msgdecoder)
  <2>1. fc_msgdecoder \in Seq(E)
      BY <1>1 DEF E
  <2>2. Len(fc_msgdecoder) \in Nat \ {0} /\ Head(fc_msgdecoder) = m /\ m \in E
      BY <2>1, HeadMeans
  <2> QED
      BY <2>2 DEF C!Message
<1>3. /\ m.status \in C!Status => m.msgid \in CallIds
      /\ m.status \in {"invalid", "eof"} => m.req = None
    BY <1>2, SystemAssumption
       DEF E, Client!Event, Client!Status, C!Status, Client!MsgIds
<1>4. m.status \in C!Status => m.req # None /\ Client!Held(m.msgid) = m.req
    BY <1>2, <1>3, SystemAssumption
       DEF SystemInv, Client!PeerInv, Client!AnswersOK, Client!MsgIds
<1> QED
    BY <1>2, <1>3, <1>4

\* What is left when the head is taken.
LEMMA HeadTaken ==
    ASSUME SystemInv, fc_msgdecoder # <<>>, fc_msgdecoder' = Tail(fc_msgdecoder),
           NEW r
    PROVE  /\ \A i \in Waiting(r)' :
                 \E x \in Waiting(r) : x # 1 /\ fc_msgdecoder'[i] = fc_msgdecoder[x]
           /\ Cardinality(Waiting(r)) \in Nat
           /\ fc_msgdecoder[1].req = r =>
                 /\ 1 \in Waiting(r)
                 /\ Cardinality(Waiting(r)') = Cardinality(Waiting(r)) - 1
           /\ fc_msgdecoder[1].req # r =>
                 Cardinality(Waiting(r)') = Cardinality(Waiting(r))
<1> DEFINE S == Client!Event
<1>1. fc_msgdecoder \in Seq(S)
    BY AnswerTypes DEF SystemInv
<1> HIDE DEF S
<1>2. /\ \A i \in In(Tail(fc_msgdecoder), r) :
            \E x \in In(fc_msgdecoder, r) :
                x # 1 /\ Tail(fc_msgdecoder)[i] = fc_msgdecoder[x]
      /\ Cardinality(In(fc_msgdecoder, r)) \in Nat
      /\ fc_msgdecoder[1].req = r =>
            /\ 1 \in In(fc_msgdecoder, r)
            /\ Cardinality(In(Tail(fc_msgdecoder), r)) =
                    Cardinality(In(fc_msgdecoder, r)) - 1
      /\ fc_msgdecoder[1].req # r =>
            Cardinality(In(Tail(fc_msgdecoder), r)) =
                    Cardinality(In(fc_msgdecoder, r))
    BY <1>1, TailCount
<1>3. Waiting(r) = In(fc_msgdecoder, r) /\ Waiting(r)' = In(Tail(fc_msgdecoder), r)
    BY DEF Waiting, In
<1> QED
    BY <1>2, <1>3

\* A message that is taken and handed to nobody: an end-of-stream, an error of
\* the decoder, an answer to an abandoned call.
LEMMA SkippedKeeps ==
    ASSUME SystemInv, AnswerInv, fc_msgdecoder # <<>>,
           fc_msgdecoder' = Tail(fc_msgdecoder),
           UNCHANGED <<call, wire, delivered, frq_done_graceful, frq_error>>,
           Heard' => Heard,
           running.kind # "emit" /\ running'.kind # "emit",
           NEW h, h = fc_msgdecoder[1].req,
           h \in Requests => ~C!IsPending(h)
    PROVE  AnswerInv'
<1> SUFFICES ASSUME NEW r \in Requests PROVE AnswerOK(r)'
    BY DEF AnswerInv
<1>1. /\ Served(r)' = Served(r)
      /\ Doing(r)' = Doing(r) /\ ~Emits(r)'
      /\ C!IsPending(r)' <=> C!IsPending(r)
    BY DEF Served, Doing, Ends, Emits, C!IsPending
<1>2. /\ \A i \in Waiting(r)' :
            \E x \in Waiting(r) : fc_msgdecoder'[i] = fc_msgdecoder[x]
      /\ h # r => Cardinality(Waiting(r)') = Cardinality(Waiting(r))
    BY HeadTaken
<1> QED
    BY <1>1, <1>2, AnswerKept DEF AnswerInv

\* A DATA or END is taken for the call it answers.
LEMMA DataTaken ==
    ASSUME SystemInv, AnswerInv, UNCHANGED <<call, wire>>, Heard' => Heard,
           NEW h \in Requests, C!OnData(h), ~C!Crash
    PROVE  AnswerInv'
<1> DEFINE m == fc_msgdecoder[1]
<1>1. /\ fc_msgdecoder # <<>> /\ fc_msgdecoder' = Tail(fc_msgdecoder)
      /\ running.kind = "idle" /\ C!Message.status \in {"data", "end"}
      /\ running' = [kind |-> "emit", req |-> h, rest |-> C!Message.d,
                     status |-> C!Message.status, listener |-> FALSE]
      /\ c_pending[C!Message.msgid] = h
      /\ UNCHANGED <<delivered, frq_done_graceful, frq_error>>
    BY DEF C!OnData, C!Receives, C!InHandler, C!requestVars, C!streamVars
<1>2. C!Message = m /\ m.status \in {"data", "end"} /\ m.req = h
  <2>1. /\ C!Message = m
        /\ m.status \in C!Status =>
                m.msgid \in CallIds /\ Client!Held(m.msgid) = m.req
      BY <1>1, HeadIsHeld
  <2> QED
      BY <1>1, <2>1, SystemAssumption DEF C!Status, Client!Held
<1> SUFFICES ASSUME NEW r \in Requests PROVE AnswerOK(r)'
    BY DEF AnswerInv
<1>3. /\ \A i \in Waiting(r)' :
            \E x \in Waiting(r) : x # 1 /\ fc_msgdecoder'[i] = fc_msgdecoder[x]
      /\ Cardinality(Waiting(r)) \in Nat
      /\ h = r => /\ 1 \in Waiting(r)
                  /\ Cardinality(Waiting(r)') = Cardinality(Waiting(r)) - 1
      /\ h # r => Cardinality(Waiting(r)') = Cardinality(Waiting(r))
    BY <1>1, <1>2, HeadTaken
<1>4. Served(r)' = Served(r) /\ (C!IsPending(r)' <=> C!IsPending(r)) /\ ~Emits(r)
    BY <1>1 DEF Served, C!IsPending, Emits
<1>5. CASE r # h
  <2>1. ~Emits(r)' /\ Doing(r) = 0 /\ Doing(r)' = 0
      BY <1>1, <1>4, <1>5 DEF Emits, Ends, Doing
  <2> QED
      BY <1>1, <1>3, <1>4, <1>5, <2>1, AnswerKept DEF AnswerInv
<1>6. CASE r = h
  <2>1. AnswerOK(r) /\ 1 \in Waiting(r)
      BY <1>3, <1>6 DEF AnswerInv
  <2>2. /\ Served(r) # {} /\ m.d \in Seq(Served(r))
        /\ Len(m.d) = IF m.status = "data" THEN 1 ELSE 0
      BY <2>1 DEF AnswerOK, SourceOK
  <2>3. /\ Emits(r)' /\ running'.rest = m.d
        /\ Ends(r)' <=> m.status = "end"
      BY <1>1, <1>2, <1>6 DEF Emits, Ends
  <2>4. Doing(r) = 0 /\ Doing(r)' = 1
    <3>1. Doing(r) = 0
        BY <1>4 DEF Doing, Ends
    <3>2. CASE m.status = "data"
      <4>1. Len(m.d) = 1 /\ ~Ends(r)'
          BY <2>2, <2>3, <3>2
      <4>2. Doing(r)' = Len(running'.rest)
          BY <2>3, <4>1 DEF Doing
      <4> QED
          BY <2>3, <3>1, <4>1, <4>2
    <3>3. CASE m.status = "end"
      <4>1. Len(m.d) = 0 /\ Ends(r)'
          BY <2>2, <2>3, <3>3
      <4>2. Doing(r)' = Len(running'.rest) + 1
          BY <4>1 DEF Doing
      <4> QED
          BY <2>3, <3>1, <4>1, <4>2
    <3> QED
        BY <1>2, <3>2, <3>3
  <2>5. SourceOK(r)'
      BY <1>1, <1>3, <1>4, <2>1, <2>2, <2>3 DEF AnswerOK, SourceOK
  <2>6. Len(delivered[r]) \in Nat
      BY AnswerTypes DEF SystemInv
  <2>7. Taken(r)' = Taken(r)
    <3>1. delivered'[r] = delivered[r]
        BY <1>1
    <3>2. Cardinality(Waiting(r)') = Cardinality(Waiting(r)) - 1
        BY <1>3, <1>6
    <3> QED
        BY <1>3, <2>4, <2>6, <3>1, <3>2 DEF Taken
  <2>8. EndTaken(r)' => EndTaken(r)
      BY <1>2, <1>3, <2>1, <2>3 DEF EndTaken
  <2>9. ASSUME NEW q \in Served(r)', C!IsPending(r)' PROVE TakenOK(r, q)'
    <3>1. TakenOK(r, q) /\ wire'[q] = wire[q]
        BY <1>4, <2>1, <2>9 DEF AnswerOK
    <3>2. Ends(r)' => wire[q] # <<>> /\ LastWritten(q) = "end"
        BY <2>1, <2>3, <3>1 DEF TakenOK
    <3> QED
        BY <1>3, <2>7, <2>8, <3>1, <3>2 DEF TakenOK, LastWritten
  <2>10. ASSUME r \in frq_done_graceful'
         PROVE  \E q \in Served(r)' : AnsweredOK(r, q)'
    <3>1. PICK q \in Served(r) : AnsweredOK(r, q)
        BY <1>1, <2>1, <2>10 DEF AnswerOK
    <3>2. AnsweredOK(r, q)'
        BY <1>1, <3>1 DEF AnsweredOK, LastWritten
    <3> QED
        BY <1>4, <3>2
  <2> QED
      BY <2>5, <2>9, <2>10 DEF AnswerOK
<1> QED
    BY <1>5, <1>6

\* The server's error ends the call that it answers.
LEMMA ErrorTaken ==
    ASSUME SystemInv, AnswerInv, UNCHANGED <<call, wire>>, Heard' => Heard,
           NEW h \in Requests, C!OnServerError(h), ~C!Crash
    PROVE  AnswerInv'
<1> DEFINE m == fc_msgdecoder[1]
<1>1. /\ fc_msgdecoder # <<>> /\ fc_msgdecoder' = Tail(fc_msgdecoder)
      /\ running.kind = "idle" /\ C!Message.status = "error"
      /\ c_pending[C!Message.msgid] = h /\ C!IsPending(h)
      /\ frq_done_graceful' = frq_done_graceful \cup {h}
      /\ frq_error' = [r \in Requests |-> IF r \in {h} THEN "server"
                                          ELSE frq_error[r]]
      /\ UNCHANGED <<delivered, running>>
    BY DEF C!OnServerError, C!Receives, C!ReceiveAsserts, C!IsPending,
           C!InHandler, C!RequestFail, C!streamVars, C!loopVars
<1>2. C!Message = m /\ m.status = "error" /\ m.req = h
  <2>1. /\ C!Message = m
        /\ m.status \in C!Status =>
                m.msgid \in CallIds /\ Client!Held(m.msgid) = m.req
      BY <1>1, HeadIsHeld
  <2> QED
      BY <1>1, <2>1, SystemAssumption DEF C!Status, Client!Held
<1> SUFFICES ASSUME NEW r \in Requests PROVE AnswerOK(r)'
    BY DEF AnswerInv
<1>3. /\ \A i \in Waiting(r)' :
            \E x \in Waiting(r) : fc_msgdecoder'[i] = fc_msgdecoder[x]
      /\ h = r => 1 \in Waiting(r)
      /\ h # r => Cardinality(Waiting(r)') = Cardinality(Waiting(r))
    BY <1>1, <1>2, HeadTaken
<1>4. /\ Served(r)' = Served(r) /\ ~Emits(r) /\ ~Emits(r)'
      /\ Doing(r) = 0 /\ Doing(r)' = 0
    BY <1>1 DEF Served, Emits, Ends, Doing
<1>5. CASE r # h
  <2>1. /\ C!IsPending(r)' => C!IsPending(r)
        /\ frq_error'[r] = frq_error[r]
        /\ r \in frq_done_graceful' => r \in frq_done_graceful
        /\ delivered'[r] = delivered[r]
      BY <1>1, <1>5 DEF C!IsPending
  <2> QED
      BY <1>3, <1>4, <1>5, <2>1, AnswerKept DEF AnswerInv
<1>6. CASE r = h
  <2>1. AnswerOK(r) /\ 1 \in Waiting(r)
      BY <1>3, <1>6 DEF AnswerInv
  <2>2. PICK q \in Served(r) : TRUE
      BY <2>1 DEF AnswerOK, SourceOK
  <2>3. wire[q] # <<>> /\ LastWritten(q) = "error"
      BY <1>1, <1>2, <1>6, <2>1, <2>2 DEF AnswerOK, TakenOK
  <2>4. /\ frq_error'[r] = "server" /\ ~C!IsPending(r)'
      BY <1>1, <1>6 DEF C!IsPending
  <2>5. AnsweredOK(r, q)'
      BY <2>3, <2>4 DEF AnsweredOK, LastWritten
  <2>6. SourceOK(r)'
      BY <1>1, <1>3, <1>4, <2>1 DEF AnswerOK, SourceOK
  <2> QED
      BY <1>4, <2>4, <2>5, <2>6 DEF AnswerOK
<1> QED
    BY <1>5, <1>6

\* An object is given to the caller.
LEMMA ObjectEmitted ==
    ASSUME SystemInv, AnswerInv, UNCHANGED <<call, wire>>, Heard' => Heard,
           C!EmitObject
    PROVE  AnswerInv'
<1> DEFINE h == running.req  rest == running.rest
<1>1. /\ running.kind = "emit" /\ h \in Requests /\ C!IsPending(h)
      /\ rest # <<>> /\ delivered \in [Requests -> Seq(Reqs)]
      /\ running \in Client!Frame
  <2>1. running.kind = "emit" /\ rest # <<>>
      BY DEF C!EmitObject, C!InHandler
  <2>2. C!IsPending(h)
      BY <2>1 DEF SystemInv, Client!IInv, Client!EmitsPending, Client!IsPending,
                  C!IsPending
  <2> QED
      BY <2>1, <2>2, AnswerTypes DEF SystemInv, Asked
<1>2. /\ delivered' = [delivered EXCEPT ![h] = Append(@, Head(rest))]
      /\ running' = [running EXCEPT !.rest = Tail(@), !.listener = h \in Requests]
      /\ UNCHANGED <<fc_msgdecoder, frq_done_graceful, frq_error>>
    BY <1>1 DEF C!EmitObject, C!requestVars, C!transportVars
<1>3. /\ running'.kind = "emit" /\ running'.req = h
      /\ running'.rest = Tail(rest) /\ running'.status = running.status
    BY <1>1, <1>2 DEF Client!Frame
<1> SUFFICES ASSUME NEW r \in Requests PROVE AnswerOK(r)'
    BY DEF AnswerInv
<1>4. /\ Served(r)' = Served(r) /\ Waiting(r)' = Waiting(r)
      /\ C!IsPending(r)' <=> C!IsPending(r)
    BY <1>2 DEF Served, Waiting, C!IsPending
<1>5. CASE r # h
  <2>1. /\ ~Emits(r)' /\ ~Emits(r) /\ Doing(r) = 0 /\ Doing(r)' = 0
        /\ delivered'[r] = delivered[r]
      BY <1>1, <1>2, <1>3, <1>5 DEF Emits, Ends, Doing
  <2> QED
      BY <1>2, <1>4, <2>1, AnswerKept DEF AnswerInv
<1>6. CASE r = h
  <2>1. /\ AnswerOK(r) /\ Emits(r) /\ Emits(r)' /\ (Ends(r)' <=> Ends(r))
        /\ C!IsPending(r)
      BY <1>1, <1>3, <1>6 DEF AnswerInv, Emits, Ends
  <2> DEFINE S == Served(r)  d == delivered[r]
  <2>2. /\ S # {} /\ rest \in Seq(S) /\ d \in Seq(S)
      BY <2>1 DEF AnswerOK, SourceOK
  <2>3. delivered'[r] = Append(d, Head(rest))
      BY <1>1, <1>2, <1>6
  <2> HIDE DEF S, d
  <2>4. /\ Len(rest) \in Nat \ {0} /\ Head(rest) \in S /\ Tail(rest) \in Seq(S)
        /\ Len(Tail(rest)) = Len(rest) - 1
        /\ Append(d, Head(rest)) \in Seq(S) /\ Len(d) \in Nat
        /\ Len(Append(d, Head(rest))) = Len(d) + 1
    <3>1. /\ Len(rest) \in Nat \ {0} /\ Head(rest) \in S /\ Tail(rest) \in Seq(S)
          /\ Len(Tail(rest)) = Len(rest) - 1
        BY <1>1, <2>2, HeadMeans
    <3> QED
        BY <2>2, <3>1, AppendMeans
  <2>5. SourceOK(r)'
    <3>1. delivered'[r] \in Seq(Served(r)') /\ running'.rest \in Seq(Served(r)')
        BY <1>3, <1>4, <2>3, <2>4 DEF S
    <3> QED
        BY <1>2, <1>4, <2>1, <2>2, <3>1 DEF AnswerOK, SourceOK, S
  <2>6. Len(delivered'[r]) + Doing(r)' = Len(delivered[r]) + Doing(r)
    <3>1. /\ Len(running'.rest) = Len(running.rest) - 1
          /\ Len(running.rest) \in Nat
        BY <1>3, <2>4
    <3>2. /\ Len(delivered'[r]) = Len(delivered[r]) + 1
          /\ Len(delivered[r]) \in Nat
        BY <2>3, <2>4 DEF d
    <3>3. Doing(r) = Doing(r)' + 1 /\ Doing(r)' \in Int
      <4>1. CASE Ends(r)
        <5>1. /\ Doing(r) = Len(running.rest) + 1
              /\ Doing(r)' = Len(running'.rest) + 1
            BY <2>1, <4>1 DEF Doing
        <5> QED
            BY <3>1, <5>1
      <4>2. CASE ~Ends(r)
        <5>1. /\ Doing(r) = Len(running.rest)
              /\ Doing(r)' = Len(running'.rest)
            BY <2>1, <4>2 DEF Doing
        <5> QED
            BY <3>1, <5>1
      <4> QED
          BY <4>1, <4>2
    <3> QED
        BY <3>2, <3>3
  <2>7. Taken(r)' = Taken(r)
    <3>1. Cardinality(Waiting(r)') = Cardinality(Waiting(r))
        BY <1>4
    <3> QED
        BY <2>6, <3>1 DEF Taken
  <2>8. EndTaken(r)' <=> EndTaken(r)
      BY <1>2, <1>4, <2>1 DEF EndTaken
  <2>9. ASSUME NEW q \in Served(r)' PROVE TakenOK(r, q)'
    <3>1. TakenOK(r, q) /\ wire'[q] = wire[q]
        BY <1>4, <2>1, <2>9 DEF AnswerOK
    <3> QED
        BY <1>2, <1>4, <2>1, <2>7, <2>8, <3>1 DEF TakenOK, LastWritten
  <2>10. r \notin frq_done_graceful'
      BY <1>2, <2>1 DEF C!IsPending
  <2> QED
      BY <2>5, <2>9, <2>10 DEF AnswerOK
<1> QED
    BY <1>5, <1>6

\* Messages that lead to one request have its message id.
LEMMA QueuedHasId ==
    ASSUME SystemInv, NEW r \in Requests, NEW i \in Waiting(r)
    PROVE  fc_msgdecoder[i].msgid = frq_msgid[r] /\ frq_msgid[r] \in CallIds
<1> DEFINE E == Client!Event  m == fc_msgdecoder[i]
<1>1. m \in E /\ i \in 1 .. Len(fc_msgdecoder) /\ m.req = r /\ r # None
  <2>1. fc_msgdecoder \in Seq(E)
      BY AnswerTypes DEF SystemInv
  <2> HIDE DEF E
  <2> QED
      BY <2>1, SystemAssumption DEF Waiting
<1>2. m.msgid \in CallIds
    BY <1>1, SystemAssumption DEF Client!Event, Client!MsgIds
<1>3. Client!Held(m.msgid) = r
    BY <1>1, <1>2, SystemAssumption
       DEF SystemInv, Client!PeerInv, Client!AnswersOK, Client!MsgIds
<1>4. frq_msgid[r] = m.msgid
    BY <1>1, <1>2, <1>3, SystemAssumption
       DEF SystemInv, Client!Held, Client!PeerInv, Client!HeldOnce, Client!IInv,
           Client!Bookkeeping, Client!PendingById, Client!MsgIds
<1> QED
    BY <1>2, <1>4

\* The last object of an END is out, and the call has its answer.
LEMMA EndEmitted ==
    ASSUME SystemInv, AnswerInv, UNCHANGED <<call, wire>>, Heard' => Heard,
           C!EndDone, ~C!Crash
    PROVE  AnswerInv'
<1> DEFINE h == running.req
<1>1. /\ running.kind = "emit" /\ running.status = "end" /\ running.rest = <<>>
      /\ running' = C!Idle
      /\ frq_done_graceful' = frq_done_graceful \cup {h}
      /\ UNCHANGED <<fc_msgdecoder, frq_error, delivered>>
    BY DEF C!EndDone, C!InHandler, C!streamVars, C!transportVars
<1>2. h \in Requests /\ C!IsPending(h)
  <2>1. C!IsPending(h)
      BY <1>1 DEF SystemInv, Client!IInv, Client!EmitsPending, Client!IsPending,
                  C!IsPending
  <2> QED
      BY <1>1, <2>1, AnswerTypes DEF SystemInv, Asked
<1> SUFFICES ASSUME NEW r \in Requests PROVE AnswerOK(r)'
    BY DEF AnswerInv
<1>3. /\ Served(r)' = Served(r) /\ Waiting(r)' = Waiting(r) /\ ~Emits(r)'
    BY <1>1 DEF Served, Waiting, Emits, C!Idle
<1>4. CASE r # h
  <2>1. /\ Doing(r) = 0 /\ Doing(r)' = 0
        /\ r \in frq_done_graceful' => r \in frq_done_graceful
        /\ C!IsPending(r)' => C!IsPending(r)
      BY <1>1, <1>3, <1>4 DEF Emits, Ends, Doing, C!IsPending
  <2> QED
      BY <1>1, <1>3, <2>1, AnswerKept DEF AnswerInv
<1>5. CASE r = h
  <2>1. AnswerOK(r) /\ Ends(r) /\ Emits(r) /\ ~C!IsPending(r)'
      BY <1>1, <1>2, <1>5 DEF AnswerInv, Emits, Ends, C!IsPending
  <2>2. PICK q \in Served(r) : TakenOK(r, q)
      BY <1>2, <1>5, <2>1 DEF AnswerOK, SourceOK
  <2>3. Waiting(r) = {}
    <3> SUFFICES ASSUME NEW i \in Waiting(r) PROVE FALSE
        OBVIOUS
    <3>1. fc_msgdecoder[i].msgid = frq_msgid[r] /\ frq_msgid[r] \in CallIds
        BY QueuedHasId
    <3>2. i \in 1 .. Len(fc_msgdecoder)
        BY DEF Waiting
    <3> QED
        BY <1>1, <1>5, <3>1, <3>2, SystemAssumption
           DEF SystemInv, Client!PeerInv, Client!EndingOK, Client!Unused,
               Client!MsgIds
  <2>4. Cardinality(Waiting(r)) = 0
      BY <2>3, FS_EmptySet
  <2>5. Doing(r) = 1
      BY <1>1, <2>1 DEF Doing
  <2>6. Len(delivered[r]) \in Nat
      BY AnswerTypes DEF SystemInv
  <2>7. /\ Len(delivered[r]) + 1 = Len(wire[q])
        /\ wire[q] # <<>> /\ LastWritten(q) = "end"
      BY <2>1, <2>2, <2>4, <2>5, <2>6 DEF TakenOK, EndTaken, Taken
  <2>8. AnsweredOK(r, q)'
      BY <1>1, <1>2, <1>5, <2>7 DEF AnsweredOK, LastWritten, C!IsPending
  <2>9. SourceOK(r)'
      BY <1>1, <1>3, <2>1 DEF AnswerOK, SourceOK
  <2> QED
      BY <1>3, <2>1, <2>8, <2>9 DEF AnswerOK
<1> QED
    BY <1>4, <1>5

\* Calls are abandoned.
LEMMA AbandoningAnswers ==
    ASSUME SystemInv, AnswerInv, UNCHANGED <<call, wire, delivered>>,
           Heard' => Heard,
           NEW R, \A r \in R : r \notin frq_done_graceful,
           NEW cause, cause # "none", C!RequestAbandon(R, cause),
           \/ UNCHANGED running
           \/ running.kind # "emit" /\ running'.kind # "emit",
           \/ UNCHANGED fc_msgdecoder
           \/ /\ R = C!Pending
              /\ \E k \in 0 .. Len(fc_msgdecoder) :
                    fc_msgdecoder' = SubSeq(fc_msgdecoder, 1, k)
    PROVE  AnswerInv'
<1>1. /\ frq_error' = [r \in Requests |-> IF r \in R THEN cause ELSE frq_error[r]]
      /\ UNCHANGED frq_done_graceful
    BY DEF C!RequestAbandon, C!RequestFail
<1>2. frq_done_graceful \subseteq Requests
    BY AnswerTypes DEF SystemInv
<1>3. /\ \A r \in frq_done_graceful : frq_error'[r] = frq_error[r]
      /\ \A r \in Requests : C!IsPending(r)' => C!IsPending(r) /\ r \notin R
    BY <1>1, <1>2 DEF C!IsPending
<1>4. R = C!Pending => \A r \in Asked : ~C!IsPending(r)'
    BY <1>3, PendingMeans DEF SystemInv, Asked
<1> QED
    BY <1>1, <1>3, <1>4, FailingKeeps

\* Nothing pending is done.
LEMMA PendingNotDone ==
    ASSUME SystemInv
    PROVE  \A r \in C!Pending : r \notin frq_done_graceful
<1> SUFFICES ASSUME NEW r \in C!Pending PROVE r \notin frq_done_graceful
    OBVIOUS
<1>1. r \in Requests
    BY SystemAssumption
       DEF C!Pending, C!MsgIds, SystemInv, Client!IInv, Client!Bookkeeping,
           Client!PendingById, Client!MsgIds
<1>2. C!IsPending(r)
    BY <1>1, PendingMeans DEF SystemInv
<1> QED
    BY <1>2 DEF C!IsPending

LEMMA CrashAnswers ==
    ASSUME SystemInv, AnswerInv, UNCHANGED <<call, wire, transport>>, C!Crash
    PROVE  AnswerInv'
BY QuietKeeps
   DEF C!Crash, C!requestVars, C!streamVars, C!transportVars, C!peerVars, Heard

\* The caller makes calls and gives them up.
LEMMA CallerAnswers ==
    ASSUME SystemInv, AnswerInv, CallerStep
    PROVE  AnswerInv'
<1>1. UNCHANGED <<call, wire, transport>>
    BY DEF CallerStep, serverVars, vars, outVars, ghosts
<1>2. world.calls \subseteq Requests
    BY SystemAssumption DEF SystemInv, Linked, WorldOK
<1>3. CASE C!Crash
    BY <1>1, <1>3, CrashAnswers
<1>4. CASE C!Detach /\ ~C!Crash
  <2>1. /\ C!RequestAbandon(C!Pending, "detached") /\ decoder_open' = FALSE
        /\ \E k \in 0 .. Len(fc_msgdecoder) :
                fc_msgdecoder' = SubSeq(fc_msgdecoder, 1, k)
        /\ UNCHANGED <<delivered, running>>
      BY <1>4 DEF C!Detach, C!streamVars, C!loopVars
  <2>2. Heard' => Heard
      BY <2>1 DEF Heard
  <2> QED
      BY <1>1, <2>1, <2>2, PendingNotDone, AbandoningAnswers
<1>5. ASSUME NEW r \in Requests, C!Abandon(r), ~C!Crash PROVE AnswerInv'
  <2>1. /\ C!RequestAbandon({r}, "user") /\ C!IsPending(r)
        /\ UNCHANGED <<delivered, running, fc_msgdecoder, decoder_open>>
      BY <1>5 DEF C!Abandon, C!streamVars, C!loopVars, C!transportVars, C!peerVars
  <2>2. (Heard' => Heard) /\ \A x \in {r} : x \notin frq_done_graceful
      BY <1>1, <2>1 DEF Heard, C!IsPending
  <2> QED
      BY <1>1, <2>1, <2>2, AbandoningAnswers
<1>6. ASSUME NEW r \in Requests, C!Rpc(r) PROVE AnswerInv'
  <2>1. /\ frq_msgid[r] = 0
        /\ \/ UNCHANGED frq_error
           \/ frq_error' = [frq_error EXCEPT ![r] = "skipped"]
        /\ UNCHANGED <<delivered, frq_done_graceful, running, fc_msgdecoder,
                       decoder_open>>
      BY <1>6 DEF C!Rpc, C!RpcSkipped, C!RpcSent, C!streamVars, C!loopVars
  <2>2. r \notin frq_done_graceful /\ frq_error \in [Requests -> Client!Causes]
      BY <2>1, AnswerTypes
         DEF SystemInv, Client!IInv, Client!Bookkeeping, Client!Unasked
  <2>3. /\ \A x \in frq_done_graceful : frq_error'[x] = frq_error[x]
        /\ \A x \in Requests : C!IsPending(x)' => C!IsPending(x)
    <3>1. \A x \in Requests :
            frq_error'[x] = frq_error[x] \/ (x = r /\ frq_error'[x] = "skipped")
        BY <2>1, <2>2
    <3>2. frq_done_graceful \subseteq Requests
        BY AnswerTypes DEF SystemInv
    <3> QED
        BY <2>1, <2>2, <3>1, <3>2 DEF C!IsPending
  <2>4. Heard' => Heard
      BY <1>1, <2>1 DEF Heard
  <2> QED
      BY <1>1, <2>1, <2>3, <2>4, FailingKeeps
<1> QED
    BY <1>2, <1>3, <1>4, <1>5, <1>6 DEF CallerStep

\* The client's handlers.
LEMMA HandlerAnswers ==
    ASSUME SystemInv, AnswerInv, UNCHANGED <<call, wire, transport>>, C!HandlerStep
    PROVE  AnswerInv'
<1>1. UNCHANGED decoder_open
    BY DEF C!HandlerStep, C!OnUnknownMsgid, C!OnDecoderError, C!OnTransportEnd,
           C!AbandonAll, C!EmitObject, C!SkipNull, C!RejectNull, C!DataDone,
           C!EndDone, C!OnData, C!OnServerError, C!OnAbandonedMessage, C!Crash,
           C!transportVars, C!peerVars
<1>2. Heard' => Heard
    BY <1>1 DEF Heard
<1>3. CASE C!Crash
    BY <1>3, CrashAnswers
<1>4. CASE C!OnUnknownMsgid
  <2>1. /\ fc_msgdecoder # <<>> /\ C!Message.status \in C!Status
        /\ C!Message.msgid \in C!MsgIds \ C!AllocatedIds
      BY <1>4 DEF C!OnUnknownMsgid
  <2>2. /\ C!Message.msgid \in CallIds
        /\ Client!Held(C!Message.msgid) # None
      BY <2>1, HeadIsHeld
  <2> QED
      BY <2>1, <2>2 DEF C!AllocatedIds, Client!Held
<1>5. CASE C!OnDecoderError \/ C!OnTransportEnd
  <2>1. /\ fc_msgdecoder # <<>> /\ fc_msgdecoder' = Tail(fc_msgdecoder)
        /\ C!Message.status \in {"invalid", "eof"}
        /\ running.kind # "emit" /\ running'.kind # "emit"
        /\ UNCHANGED <<delivered, frq_done_graceful, frq_error>>
      BY <1>5
         DEF C!OnDecoderError, C!OnTransportEnd, C!InHandler, C!FatalError,
             C!Idle, C!requestVars, C!streamVars
  <2>2. fc_msgdecoder[1].req = None
      BY <2>1, HeadIsHeld
  <2>3. None \in Requests => ~C!IsPending(None)
      BY SystemAssumption
  <2> QED
      BY <1>2, <2>1, <2>2, <2>3, SkippedKeeps
<1>6. ASSUME NEW r \in Requests, C!OnAbandonedMessage(r), ~C!Crash PROVE AnswerInv'
  <2>1. /\ fc_msgdecoder # <<>> /\ fc_msgdecoder' = Tail(fc_msgdecoder)
        /\ C!Message.status \in C!Status /\ r \in frq_abandoned
        /\ c_pending[C!Message.msgid] = None
        /\ fc_abandoned[C!Message.msgid] = r
        /\ running.kind # "emit" /\ running'.kind # "emit"
        /\ UNCHANGED <<delivered, frq_done_graceful, frq_error>>
      BY <1>6 DEF C!OnAbandonedMessage, C!InHandler, C!streamVars, C!loopVars
  <2>2. fc_msgdecoder[1].req = r
      BY <2>1, HeadIsHeld DEF Client!Held
  <2>3. ~C!IsPending(r)
      BY <2>1 DEF SystemInv, Client!IInv, Client!Bookkeeping,
                  Client!AbandonedFailed, C!IsPending
  <2> QED
      BY <1>2, <2>1, <2>2, <2>3, SkippedKeeps
<1>7. CASE C!AbandonAll /\ ~C!Crash
  <2>1. /\ C!RequestAbandon(C!Pending, "fatal")
        /\ running.kind # "emit" /\ running'.kind # "emit"
        /\ UNCHANGED <<delivered, fc_msgdecoder>>
      BY <1>7
         DEF C!AbandonAll, C!InHandler, C!Idle, C!streamVars, C!transportVars
  <2> QED
      BY <1>2, <2>1, PendingNotDone, AbandoningAnswers
<1>8. CASE C!SkipNull \/ C!RejectNull
  <2>1. /\ running.kind = "emit" /\ running.rest # <<>>
        /\ Head(running.rest) = Null
      BY <1>8 DEF C!SkipNull, C!RejectNull, C!InHandler
  <2>2. running.req \in Requests /\ Emits(running.req)
      BY <2>1, AnswerTypes DEF SystemInv, Asked, Emits
  <2> DEFINE S == Served(running.req)
  <2>3. running.rest \in Seq(S)
      BY <2>2 DEF AnswerInv, AnswerOK, SourceOK
  <2>4. Head(running.rest) \in S
    <3> HIDE DEF S
    <3> QED
        BY <2>1, <2>3, HeadMeans
  <2> QED
      BY <2>1, <2>4, ClientAssumed DEF Served
<1>9. CASE C!DataDone
  <2>1. /\ running.rest = <<>> /\ running.status = "data"
        /\ running'.kind # "emit"
        /\ UNCHANGED <<delivered, frq_done_graceful, frq_error, fc_msgdecoder>>
      BY <1>9 DEF C!DataDone, C!Idle, C!requestVars, C!streamVars, C!transportVars
  <2>2. \A r \in Requests : C!IsPending(r)' => C!IsPending(r)
      BY <2>1 DEF C!IsPending
  <2> QED
      BY <1>2, <2>1, <2>2, FailingKeeps
<1> QED
    BY <1>2, <1>3, <1>4, <1>5, <1>6, <1>7, <1>8, <1>9, ObjectEmitted, EndEmitted,
       DataTaken, ErrorTaken
       DEF C!HandlerStep

\* Timers and the events of calls that are over.
LEMMA OutcomeAnswers ==
    ASSUME SystemInv, AnswerInv, UNCHANGED <<call, wire, transport>>,
           NEW r \in Requests, C!RequestStep(r)
    PROVE  AnswerInv'
<1>1. CASE C!Crash
    BY <1>1, CrashAnswers
<1>2. CASE C!EmitRequestError(r) \/ C!EmitRequestEnd(r)
           \/ (C!OnRpcTimeout(r) /\ ~C!IsPending(r))
  <2>1. UNCHANGED <<delivered, frq_done_graceful, frq_error, fc_msgdecoder,
                    running, decoder_open>>
      BY <1>2
         DEF C!EmitRequestError, C!EmitRequestEnd, C!OnRpcTimeout, C!requestVars,
             C!loopVars, C!streamVars, C!transportVars, C!peerVars
  <2> QED
      BY <2>1, QuietKeeps DEF Heard
<1>3. CASE C!OnRpcTimeout(r) /\ C!IsPending(r) /\ ~C!Crash
  <2>1. /\ C!RequestAbandon({r}, "timeout")
        /\ UNCHANGED <<delivered, running, fc_msgdecoder, decoder_open>>
      BY <1>3
         DEF C!OnRpcTimeout, C!streamVars, C!loopVars, C!transportVars, C!peerVars
  <2>2. (Heard' => Heard) /\ \A x \in {r} : x \notin frq_done_graceful
      BY <1>3, <2>1 DEF Heard, C!IsPending
  <2> QED
      BY <2>1, <2>2, AbandoningAnswers
<1> QED
    BY <1>1, <1>2, <1>3 DEF C!RequestStep

LEMMA FailureAnswers ==
    ASSUME SystemInv, AnswerInv, TransportFails
    PROVE  AnswerInv'
<1>1. UNCHANGED <<call, wire>> /\ transport' = "destroyed"
    BY DEF TransportFails, serverVars, vars, outVars, ghosts
<1>2. /\ running.kind # "emit" /\ running'.kind # "emit"
      /\ UNCHANGED <<delivered, frq_done_graceful, frq_error, fc_msgdecoder>>
    BY DEF TransportFails, C!OnTransportError, C!InHandler, C!FatalError, C!Idle,
           C!requestVars, C!streamVars, C!transportVars
<1>3. \A r \in Requests : C!IsPending(r)' => C!IsPending(r)
    BY <1>2 DEF C!IsPending
<1>4. Heard' => Heard
    BY <1>1 DEF Heard
<1> QED
    BY <1>1, <1>2, <1>3, <1>4, FailingKeeps

\* Something is appended to the decoder's queue.
LEMMA QueueGrows ==
    ASSUME SystemInv, NEW m \in Client!Event,
           fc_msgdecoder' = Append(fc_msgdecoder, m), NEW r
    PROVE  /\ \A i \in Waiting(r)' :
                 \/ i \in Waiting(r) /\ fc_msgdecoder'[i] = fc_msgdecoder[i]
                 \/ fc_msgdecoder'[i] = m /\ m.req = r
           /\ Cardinality(Waiting(r)) \in Nat
           /\ m.req = r => Cardinality(Waiting(r)') = Cardinality(Waiting(r)) + 1
           /\ m.req # r => Cardinality(Waiting(r)') = Cardinality(Waiting(r))
<1> DEFINE S == Client!Event  q == fc_msgdecoder
<1>1. q \in Seq(S) /\ m \in S
    BY AnswerTypes DEF SystemInv
<1> HIDE DEF S
<1>2. Cardinality(In(q, r)) \in Nat
    BY <1>1, AppendCount
<1>3. m.req = r => Cardinality(In(Append(q, m), r)) = Cardinality(In(q, r)) + 1
    BY <1>1, AppendCount
<1>4. m.req # r => Cardinality(In(Append(q, m), r)) = Cardinality(In(q, r))
    BY <1>1, AppendCount
<1>5. Waiting(r) = In(q, r) /\ Waiting(r)' = In(Append(q, m), r)
    BY DEF Waiting, In
<1>6. ASSUME NEW i \in Waiting(r)'
      PROVE  \/ i \in Waiting(r) /\ fc_msgdecoder'[i] = fc_msgdecoder[i]
             \/ fc_msgdecoder'[i] = m /\ m.req = r
  <2>1. /\ Len(q) \in Nat /\ Len(fc_msgdecoder') = Len(q) + 1
        /\ fc_msgdecoder'[Len(q) + 1] = m
        /\ \A x \in 1 .. Len(q) : fc_msgdecoder'[x] = fc_msgdecoder[x]
      BY <1>1, AppendMeans
  <2> QED
      BY <1>6, <2>1 DEF Waiting
<1> QED
    BY <1>2, <1>3, <1>4, <1>5, <1>6

\* End-of-stream, and nothing is heard any more.
LEMMA GoneAnswers ==
    ASSUME SystemInv, AnswerInv, ServerGone
    PROVE  AnswerInv'
<1>1. /\ UNCHANGED <<call, wire, delivered, frq_done_graceful, frq_error, running>>
      /\ decoder_open' = FALSE
    BY DEF ServerGone, C!PeerStops, C!requestVars, C!streamVars, C!loopVars,
           serverVars, vars, outVars, ghosts
<1>2. PICK m : /\ fc_msgdecoder' = Append(fc_msgdecoder, m)
               /\ \E status \in {"eof", "invalid"} :
                    m = [status |-> status, msgid |-> 0, d |-> <<>>, req |-> None]
    BY DEF ServerGone, C!PeerStops, C!Sends
<1>3. m \in Client!Event /\ m.req = None
    BY <1>2 DEF Client!Event
<1> SUFFICES ASSUME NEW r \in Requests PROVE AnswerOK(r)'
    BY DEF AnswerInv
<1>4. /\ \A i \in Waiting(r)' :
            i \in Waiting(r) /\ fc_msgdecoder'[i] = fc_msgdecoder[i]
      /\ Cardinality(Waiting(r)') = Cardinality(Waiting(r))
    BY ZenonT(40), <1>2, <1>3, QueueGrows, SystemAssumption
<1>5. /\ Served(r)' = Served(r) /\ Doing(r)' = Doing(r) /\ ~Heard'
      /\ C!IsPending(r)' = C!IsPending(r) /\ Emits(r)' = Emits(r)
    BY <1>1 DEF Served, Doing, Emits, Ends, C!IsPending, Heard
<1> QED
    BY <1>1, <1>4, <1>5, AnswerKept DEF AnswerInv

\* The server writes an answer, and the client's decoder has it, or hears
\* nothing any more.
LEMMA ArrivedAnswers ==
    ASSUME SystemInv, AnswerInv, AnswerArrives
    PROVE  AnswerInv'
<1>1. SocketWrite(conn)
    BY DEF AnswerArrives
<1>2. PICK m \in Messages : m = Head(fc_msgencoder[conn])
    BY <1>1, HeadMeans, ServerTypes DEF SystemInv, SocketWrite
<1> DEFINE q == m.req  n == Len(wire[q]) + 1  h == call[q]
           answer == Answer(q, m.status)
<1>3. /\ q \in Reqs /\ m.status \in Status /\ Owes(q) /\ h \in Asked
      /\ fsr_msgid[q] = frq_msgid[h]
    BY <1>1, <1>2, NextAnswer
<1>4. /\ wire' = [wire EXCEPT ![q] = Append(@, m.status)]
      /\ UNCHANGED <<call, transport, decoder_open, delivered, frq_done_graceful,
                     frq_error, running>>
      /\ IF Heard THEN fc_msgdecoder' = Append(fc_msgdecoder, answer)
                  ELSE UNCHANGED fc_msgdecoder
    BY <1>2 DEF AnswerArrives, SocketWrite, Heard, C!Sends, requestVars, streamVars,
           loopVars, pipeEnds, ghosts
<1>5. /\ wire[q] \in Seq(Status) /\ wire'[q] = Append(wire[q], m.status)
      /\ \A x \in Reqs \ {q} : wire'[x] = wire[x]
    BY <1>3, <1>4, ServerTypes DEF SystemInv
<1>6. /\ n \in Nat /\ Len(wire'[q]) = n /\ wire'[q][n] = m.status
      /\ wire'[q] # <<>> /\ Len(wire[q]) \in Nat
    BY <1>3, <1>5, AppendMeans
<1>7. wire[q] # <<>> => LastWritten(q) = "data"
    BY <1>3, <1>5 DEF Owes, LastWritten
<1>8. /\ answer.req = h /\ answer.status = m.status
      /\ answer.d = IF m.status = "data" THEN <<q>> ELSE <<>>
      /\ answer \in Client!Event
  <2>1. frq_msgid[h] \in Client!MsgIds /\ h \in Requests
      BY <1>3, AskedMeans, SystemAssumption DEF SystemInv, Client!MsgIds
  <2>2. answer.d \in Seq(Client!Value)
    <3>1. q \in Client!Value
        BY <1>3 DEF Client!Value
    <3>2. <<q>> \in Seq(Client!Value) /\ <<>> \in Seq(Client!Value)
        BY <3>1
    <3> QED
        BY <3>2 DEF Answer
  <2>3. m.status \in Client!Status
      BY <1>3 DEF Status, Client!Status
  <2> QED
      BY <1>3, <2>1, <2>2, <2>3 DEF Answer, Client!Event
<1> HIDE DEF answer
<1> SUFFICES ASSUME NEW r \in Requests PROVE AnswerOK(r)'
    BY DEF AnswerInv
<1>9. /\ Served(r)' = Served(r) /\ Doing(r)' = Doing(r) /\ Heard' = Heard
      /\ C!IsPending(r)' = C!IsPending(r) /\ (Emits(r)' <=> Emits(r))
      /\ Ends(r)' <=> Ends(r)
    BY <1>4 DEF Served, Doing, Emits, Ends, C!IsPending, Heard
<1>10. /\ \A i \in Waiting(r)' :
            \/ i \in Waiting(r) /\ fc_msgdecoder'[i] = fc_msgdecoder[i]
            \/ fc_msgdecoder'[i] = answer /\ h = r
       /\ Cardinality(Waiting(r)) \in Nat
       /\ Cardinality(Waiting(r)') =
             IF Heard /\ h = r THEN Cardinality(Waiting(r)) + 1
                              ELSE Cardinality(Waiting(r))
  <2>1. CASE Heard
      BY <1>4, <1>8, <2>1, QueueGrows
  <2>2. CASE ~Heard
    <3>1. Waiting(r)' = Waiting(r)
        BY <1>4, <2>2 DEF Waiting
    <3>2. Cardinality(Waiting(r)) \in Nat
      <4> DEFINE S == Client!Event
      <4>1. fc_msgdecoder \in Seq(S)
          BY AnswerTypes DEF SystemInv
      <4> HIDE DEF S
      <4>2. Cardinality(In(fc_msgdecoder, r)) \in Nat
          BY <4>1, InFinite
      <4> QED
          BY <4>2 DEF Waiting, In
    <3> QED
        BY <1>4, <2>2, <3>1, <3>2 DEF Waiting
  <2> QED
      BY <2>1, <2>2
<1>11. CASE h # r
  <2>1. \A x \in Served(r) : wire'[x] = wire[x]
      BY <1>5, <1>11 DEF Served
  <2> QED
      BY <1>4, <1>9, <1>10, <1>11, <2>1, AnswerKept DEF AnswerInv
<1>12. CASE h = r
  <2>1. AnswerOK(r) /\ q \in Served(r) /\ Served(r) = {q}
    <3>1. \A p \in Served(r) : p = q
        BY <1>3, <1>12, ServedIsAsked DEF Served, SystemInv, Linked, OnceOK
    <3> QED
        BY <1>3, <1>12, <3>1 DEF AnswerInv, Served
  <2>2. r \notin frq_done_graceful
    <3> SUFFICES ASSUME r \in frq_done_graceful PROVE FALSE
        OBVIOUS
    <3>1. AnsweredOK(r, q)
        BY <2>1 DEF AnswerOK
    <3> QED
        BY <1>7, <3>1 DEF AnsweredOK
  <2>3. SourceOK(r)'
    <3>1. answer.d \in Seq(Served(r))
          /\ Len(answer.d) = IF m.status = "data" THEN 1 ELSE 0
      <4>1. /\ <<q>> \in Seq(Served(r)) /\ <<>> \in Seq(Served(r))
            /\ Len(<<q>>) = 1
          BY <2>1
      <4> QED
          BY <1>8, <4>1
    <3>2. ASSUME NEW i \in Waiting(r)'
          PROVE  /\ Served(r) # {} /\ fc_msgdecoder'[i].d \in Seq(Served(r))
                 /\ Len(fc_msgdecoder'[i].d) =
                        IF fc_msgdecoder'[i].status = "data" THEN 1 ELSE 0
        BY <1>8, <1>10, <2>1, <3>1, <3>2 DEF AnswerOK, SourceOK
    <3> QED
        BY <1>4, <1>9, <2>1, <3>2 DEF AnswerOK, SourceOK
  <2>4. ASSUME NEW p \in Served(r)', C!IsPending(r)' PROVE TakenOK(r, p)'
    <3>1. p = q /\ TakenOK(r, q)
        BY <1>9, <2>1, <2>4 DEF AnswerOK
    <3>2. ~Ends(r) /\ \A i \in Waiting(r) : fc_msgdecoder[i].status = "data"
      <4>1. /\ ~Ends(r)
            /\ \A i \in Waiting(r) :
                 fc_msgdecoder[i].status # "data" =>
                    LastWritten(q) = fc_msgdecoder[i].status /\ wire[q] # <<>>
          BY <1>7, <3>1 DEF TakenOK
      <4> QED
          BY <1>7, <4>1
    <3>3. /\ ~Ends(r)'
          /\ \A i \in Waiting(r)' :
                fc_msgdecoder'[i].status # "data" =>
                    Heard /\ fc_msgdecoder'[i].status = m.status
      <4>1. ASSUME NEW i \in Waiting(r)', fc_msgdecoder'[i].status # "data"
            PROVE  fc_msgdecoder'[i] = answer
          BY <1>10, <3>2, <4>1
      <4>2. ASSUME NEW i \in Waiting(r)', ~Heard
            PROVE  fc_msgdecoder'[i].status = "data"
          BY <1>4, <3>2, <4>2 DEF Waiting
      <4> QED
          BY <1>8, <1>9, <3>2, <4>1, <4>2
    <3>4. Heard' \/ EndTaken(r)' => Taken(r)' = Len(wire'[q])
      <4> SUFFICES ASSUME Heard PROVE Taken(r)' = Len(wire'[q])
          BY <1>9, <3>3 DEF EndTaken
      <4>1. Taken(r) = Len(wire[q])
          BY <3>1 DEF TakenOK
      <4>2. /\ delivered'[r] = delivered[r] /\ Doing(r)' = Doing(r)
            /\ Cardinality(Waiting(r)') = Cardinality(Waiting(r)) + 1
          BY <1>4, <1>9, <1>10, <1>12
      <4>3. Len(delivered[r]) \in Nat /\ Doing(r) \in Int
        <5>1. Len(delivered[r]) \in Nat /\ running \in Client!Frame
            BY AnswerTypes DEF SystemInv
        <5>2. Len(running.rest) \in Nat
            BY <5>1 DEF Client!Frame
        <5> QED
            BY <5>1, <5>2 DEF Doing
      <4>4. Taken(r)' = Taken(r) + 1
          BY <1>10, <4>2, <4>3 DEF Taken
      <4> QED
          BY <1>6, <4>1, <4>4
    <3>5. LastWritten(q)' = m.status
        BY <1>6 DEF LastWritten
    <3> QED
        BY <1>6, <3>1, <3>3, <3>4, <3>5 DEF TakenOK
  <2> QED
      BY <1>4, <2>2, <2>3, <2>4 DEF AnswerOK
<1> QED
    BY <1>11, <1>12

\* A call is taken on, of which the client has nothing yet.
LEMMA MessageAnswers ==
    ASSUME SystemInv, AnswerInv, ServerMessage
    PROVE  AnswerInv'
<1>1. UNCHANGED <<wire, delivered, frq_done_graceful, frq_error, fc_msgdecoder,
                  running, decoder_open, transport>>
    BY MessageHandled DEF Handles, ServerMessage, clientVars, requestVars,
       streamVars, loopVars, pipeEnds
<1>2. CASE UNCHANGED call
    BY <1>1, <1>2, QuietKeeps DEF Heard
<1>3. ASSUME NEW q \in Reqs, fsr_state[q] = "none",
             call' = [call EXCEPT ![q] = Head(queued)], queued # <<>>
      PROVE  AnswerInv'
  <2> DEFINE h == Head(queued)
  <2>1. /\ call \in [Reqs -> Requests \cup {None}] /\ call[q] = None
        /\ wire[q] = <<>> /\ fsr_state[q] = "none"
    <3>1. wire[q] = <<>>
        BY <1>3
           DEF SystemInv, RInv, PipelinesOK, Stages, NotMade, Open, Ending, Ended,
               Failed, CutOff
    <3> QED
        BY <1>3, <3>1 DEF SystemInv, Linked, CallsOK
  <2>2. h \in Requests /\ Served(h) = {}
    <3>1. queued \in Seq(Requests)
        BY DEF SystemInv, Linked, CallsOK
    <3>2. h = queued[1] /\ 1 \in 1 .. Len(queued) /\ queued[1] \in Requests
        BY <1>3, <3>1, HeadMeans
    <3> QED
        BY <3>2 DEF SystemInv, Linked, OnceOK, Served
  <2> HIDE DEF h
  <2> SUFFICES ASSUME NEW r \in Requests PROVE AnswerOK(r)'
      BY DEF AnswerInv
  <2>3. /\ Waiting(r)' = Waiting(r) /\ Doing(r)' = Doing(r) /\ Heard' = Heard
        /\ Emits(r)' = Emits(r) /\ C!IsPending(r)' = C!IsPending(r)
        /\ Ends(r)' = Ends(r)
      BY <1>1 DEF Waiting, Doing, Emits, Ends, C!IsPending, Heard
  <2>4. CASE r # h
    <3>1. Served(r)' = Served(r)
      <4>1. \A p \in Reqs : call'[p] = call[p] \/ (p = q /\ call'[p] = h)
          BY <1>3, <2>1 DEF h
      <4>2. r # None
          BY SystemAssumption
      <4> QED
          BY <2>1, <2>4, <4>1, <4>2 DEF Served
    <3> QED
        BY <1>1, <2>3, <3>1, AnswerKept DEF AnswerInv
  <2>5. CASE r = h
    <3>1. Served(r)' = {q}
        BY <1>3, <2>1, <2>2, <2>5 DEF Served, h
    <3>2. /\ AnswerOK(r) /\ Served(r) = {} /\ ~Emits(r) /\ Waiting(r) = {}
          /\ delivered[r] = <<>> /\ r \notin frq_done_graceful
      <4>1. AnswerOK(r) /\ Served(r) = {}
          BY <2>2, <2>5 DEF AnswerInv
      <4>2. delivered[r] = <<>>
        <5>1. delivered[r] \in Seq({})
            BY <4>1 DEF AnswerOK, SourceOK
        <5> QED
            BY <5>1
      <4> QED
          BY <4>1, <4>2 DEF AnswerOK, SourceOK
    <3>3. SourceOK(r)'
      <4>1. <<>> \in Seq({q})
          OBVIOUS
      <4> QED
          BY <1>1, <2>3, <3>1, <3>2, <4>1 DEF SourceOK
    <3>4. Taken(r)' = 0 /\ ~Ends(r)'
      <4>1. Cardinality(Waiting(r)') = 0 /\ Doing(r)' = 0 /\ Len(delivered'[r]) = 0
            /\ ~Ends(r)'
          BY <1>1, <2>3, <3>2, FS_EmptySet DEF Doing, Ends
      <4> QED
          BY <4>1 DEF Taken
    <3>5. TakenOK(r, q)'
      <4>1. Len(wire'[q]) = 0
          BY <1>1, <2>1
      <4> QED
          BY <2>3, <3>2, <3>4, <4>1 DEF TakenOK
    <3> QED
        BY <1>1, <3>1, <3>2, <3>3, <3>5 DEF AnswerOK
  <2> QED
      BY <2>4, <2>5
<1> QED
  <2>1. Handles
      BY MessageHandled
  <2>2. queued # <<>>
      BY <2>1, ServerTypes DEF Handles, SystemInv, Linked, CallsOK
  <2> QED
      BY <1>2, <1>3, <2>1, <2>2 DEF Handles

LEMMA AnswersStart == SystemInit => AnswerInv
<1> SUFFICES ASSUME SystemInit, NEW r \in Requests PROVE AnswerOK(r)
    BY DEF AnswerInv
<1>1. /\ delivered[r] = <<>> /\ frq_done_graceful = {} /\ fc_msgdecoder = <<>>
      /\ running.kind = "idle"
      /\ call = [q \in Reqs |-> None]
    BY DEF SystemInit, C!Init, C!Idle
<1>2. Served(r) = {} /\ ~Emits(r) /\ Waiting(r) = {} /\ delivered[r] \in Seq({})
  <2>1. r # None
      BY SystemAssumption
  <2> QED
      BY <1>1, <2>1 DEF Served, Emits, Waiting
<1> QED
    BY <1>1, <1>2 DEF AnswerOK, SourceOK

LEMMA AnswersStep ==
    ASSUME SystemInv, AnswerInv, [SystemNext]_sysvars
    PROVE  AnswerInv'
<1>1. ASSUME UNCHANGED clientVars, UNCHANGED <<call, wire>>,
             transport' # "destroyed" => transport # "destroyed"
      PROVE  AnswerInv'
    BY <1>1, QuietKeeps
       DEF clientVars, requestVars, streamVars, loopVars, pipeEnds, Heard
<1>2. CASE EndTransport \/ DestroyTransport \/ UNCHANGED sysvars
    BY <1>1, <1>2 DEF EndTransport, DestroyTransport, sysvars, serverVars, vars,
       outVars, ghosts
<1>3. CASE ClientGone \/ ConnectionFails \/ CallCut \/ ServerStep \/ ServerUserStep
  <2>1. UNCHANGED clientVars /\ UNCHANGED <<call, transport>>
      BY <1>3
         DEF ClientGone, ConnectionFails, CallCut, ServerStep, ServerUserStep, ghosts
  <2>2. UNCHANGED wire
      BY <1>3, ServerApart DEF Apart
  <2> QED
      BY <1>1, <2>1, <2>2
<1>4. CASE CallArrives
  <2>1. UNCHANGED <<call, wire, delivered, frq_done_graceful, frq_error,
                    fc_msgdecoder, running, decoder_open, transport>>
      BY <1>4 DEF CallArrives, outVars, requestVars, streamVars, loopVars
  <2> QED
      BY <2>1, QuietKeeps DEF Heard
<1>5. CASE ClientStep
  <2>1. UNCHANGED <<call, wire, transport>>
      BY <1>5 DEF ClientStep, serverVars, vars, outVars, ghosts
  <2> QED
      BY <1>5, <2>1, HandlerAnswers, OutcomeAnswers DEF ClientStep
<1> QED
    BY <1>2, <1>3, <1>4, <1>5, CallerAnswers, FailureAnswers, ArrivedAnswers,
       GoneAnswers, MessageAnswers
       DEF SystemNext

\* What a response comes to whose last message was written.
LEMMA LastMeans ==
    ASSUME SystemInv, NEW q \in Reqs, wire[q] # <<>>
    PROVE  /\ LastWritten(q) = "end" =>
                 handler[q] \in {"ended", "finished"} /\ Len(wire[q]) = nwritten[q] + 1
           /\ LastWritten(q) = "error" => handler[q] \in {"none", "failed"}
<1>1. Len(wire[q]) \in Nat /\ Len(wire[q]) \in 1 .. Len(wire[q])
  <2>1. wire[q] \in Seq(Status)
      BY ServerTypes DEF SystemInv
  <2> QED
      BY <2>1
<1>2. Stages(q)
    BY DEF SystemInv, RInv, PipelinesOK
<1>3. AllData(q) => LastWritten(q) = "data"
    BY <1>1 DEF AllData, LastWritten
<1>4. ASSUME NEW status, ClosedBy(q, status), LastWritten(q) # "data"
      PROVE  LastWritten(q) = status /\ Places(q) = {}
    BY <1>1, <1>4 DEF ClosedBy, LastWritten
<1>5. CASE AllData(q)
    BY <1>3, <1>5
<1>6. CASE Ended(q)
  <2>1. CASE LastWritten(q) = "data"
      BY <2>1
  <2>2. CASE LastWritten(q) # "data"
    <3>1. LastWritten(q) = "end" /\ Places(q) = {}
        BY <1>4, <1>6, <2>2 DEF Ended
    <3>2. ResponseLen(q) = Len(wire[q])
        BY <1>1, <3>1, FS_EmptySet DEF ResponseLen
    <3> QED
        BY <1>6, <3>1, <3>2 DEF Ended
  <2> QED
      BY <2>1, <2>2
<1>7. CASE Failed(q)
    BY <1>4, <1>7 DEF Failed
<1> QED
    BY <1>2, <1>5, <1>6, <1>7 DEF Stages, NotMade, Open, Ending, CutOff

\* What the caller is given comes from the handler that served its call, in the
\* number in which the handler wrote it if the call ends; and a call that fails
\* with the server's error is one whose handler failed, or never ran.
THEOREM AnswersComeFromHandlers == SystemSpec => []AnswersAreTheHandlers
<1>1. ASSUME SystemInv, AnswerInv PROVE AnswersAreTheHandlers
  <2> SUFFICES ASSUME NEW r \in Requests
               PROVE  /\ \A i \in 1 .. Len(delivered[r]) :
                            call[delivered[r][i]] = r
                      /\ r \in frq_done_graceful =>
                          \E q \in Served(r) :
                             IF frq_error[r] = "server"
                             THEN handler[q] \in {"none", "failed"}
                             ELSE /\ handler[q] \in {"ended", "finished"}
                                  /\ Len(delivered[r]) = nwritten[q]
      BY DEF AnswersAreTheHandlers
  <2>1. AnswerOK(r)
      BY <1>1 DEF AnswerInv
  <2>2. \A i \in 1 .. Len(delivered[r]) : call[delivered[r][i]] = r
    <3> DEFINE S == Served(r)
    <3>1. delivered[r] \in Seq(S)
        BY <2>1 DEF AnswerOK, SourceOK
    <3> HIDE DEF S
    <3>2. \A i \in 1 .. Len(delivered[r]) : delivered[r][i] \in S
        BY <3>1
    <3> QED
        BY <3>2 DEF S, Served
  <2>3. ASSUME r \in frq_done_graceful
        PROVE  \E q \in Served(r) :
                 IF frq_error[r] = "server"
                 THEN handler[q] \in {"none", "failed"}
                 ELSE /\ handler[q] \in {"ended", "finished"}
                      /\ Len(delivered[r]) = nwritten[q]
    <3>1. PICK q \in Served(r) : AnsweredOK(r, q)
        BY <2>1, <2>3 DEF AnswerOK
    <3>2. q \in Reqs /\ wire[q] # <<>>
        BY <3>1 DEF Served, AnsweredOK
    <3>3. /\ LastWritten(q) = "end" =>
                handler[q] \in {"ended", "finished"} /\ Len(wire[q]) = nwritten[q] + 1
          /\ LastWritten(q) = "error" => handler[q] \in {"none", "failed"}
        BY <1>1, <3>2, LastMeans
    <3>4. Len(delivered[r]) \in Nat /\ nwritten[q] \in Nat
        BY <1>1, <3>2, AnswerTypes, ServerTypes DEF SystemInv
    <3>5. CASE frq_error[r] = "server"
        BY <3>1, <3>3, <3>5 DEF AnsweredOK
    <3>6. CASE frq_error[r] # "server"
      <4>1. LastWritten(q) = "end" /\ Len(delivered[r]) + 1 = Len(wire[q])
          BY <3>1, <3>6 DEF AnsweredOK
      <4>2. Len(delivered[r]) = nwritten[q]
          BY <3>3, <3>4, <4>1
      <4> QED
          BY <3>1, <3>3, <3>6, <4>1, <4>2
    <3> QED
        BY <3>5, <3>6
  <2> QED
      BY <2>2, <2>3
<1> QED
    BY <1>1, AnswersStart, AnswersStep, SystemInvariance, PTL DEF SystemSpec
-----------------------------------------------------------------------------
(* Nobody is left waiting.  What each end's module says of its own rest does  *)
(* most of it; what is left is that a call a client waits for is somewhere.   *)

Queues(r)  == \E i \in 1 .. Len(queued) : queued[i] = r
OwesFor(r) == \E q \in Reqs : call[q] = r /\ Owes(q)

\* A call that has arrived is queued at the server or owed an answer, until the
\* connection goes.
Serves ==
    Heard /\ conn \notin Going =>
        \A id \in CallIds, r \in Requests :
            peer[id] = r => Queues(r) \/ OwesFor(r)

\* The transport's owner leaves nothing behind.
OwnerOK == transport = "destroyed" => Client!Disconnected \/ Client!Pending = {}

RestInv ==
    /\ Leaving /\ GoesForAReason
    /\ Client!ErrorsDue /\ Client!GoneClear
    /\ Client!StreamOpen /\ Client!Awaited
    /\ Serves /\ OwnerOK

LEMMA ServesOn ==
    ASSUME Serves, Heard' => Heard, Going \subseteq Going',
           \A id \in CallIds, r \in Requests :
                /\ Heard /\ conn \notin Going' /\ peer'[id] = r
                /\ peer[id] = r => Queues(r) \/ OwesFor(r)
                => Queues(r)' \/ OwesFor(r)'
    PROVE  Serves'
<1> SUFFICES ASSUME Heard', conn \notin Going',
                    NEW id \in CallIds, NEW r \in Requests, peer'[id] = r
             PROVE  Queues(r)' \/ OwesFor(r)'
    BY DEF Serves
<1>1. peer[id] = r => Queues(r) \/ OwesFor(r)
    BY DEF Serves
<1> QED
    BY <1>1

\* Steps that are not about calls, and those that make them.
LEMMA ApartServes ==
    ASSUME Serves, Apart, Going \subseteq Going'
    PROVE  Serves'
<1>1. \A r \in Requests :
        (Queues(r)' <=> Queues(r)) /\ (OwesFor(r) => OwesFor(r)')
    BY DEF Apart, Queues, OwesFor, Owes
<1> QED
    BY <1>1, ServesOn DEF Apart

LEMMA AskingServes ==
    ASSUME Serves, NEW r \in Requests, NEW id \in CallIds, Asks(r, id),
           Going \subseteq Going'
    PROVE  Serves'
<1>1. \A s \in Requests :
        (Queues(s)' <=> Queues(s)) /\ (OwesFor(s)' <=> OwesFor(s))
    BY DEF Asks, Queues, OwesFor, Owes
<1> QED
    BY <1>1, ServesOn DEF Asks, Heard

LEMMA ArrivalServes ==
    ASSUME SystemInv, Serves, CallArrives, Going \subseteq Going'
    PROVE  Serves'
<1> DEFINE k == Len(queued)
<1>1. /\ c_msgencoder \in Seq([msgid : CallIds, req : Requests])
      /\ c_msgencoder # <<>> /\ queued \in Seq(Requests)
      /\ queued' = Append(queued, Head(c_msgencoder).req)
      /\ peer' = [peer EXCEPT ![Head(c_msgencoder).msgid] = Head(c_msgencoder).req]
      /\ UNCHANGED <<wire, fsr_state, call, transport, decoder_open>>
    BY ClientTypes
       DEF SystemInv, Linked, CallsOK, CallArrives, outVars, tableVars
<1>2. PICK m \in [msgid : CallIds, req : Requests] : m = Head(c_msgencoder)
    BY <1>1, HeadMeans
<1>3. m.msgid \in CallIds /\ m.req \in Requests
    OBVIOUS
<1>4. /\ k \in Nat /\ Len(queued') = k + 1 /\ queued'[k + 1] = m.req
      /\ \A i \in 1 .. k : queued'[i] = queued[i]
    BY <1>1, <1>2, <1>3, AppendMeans
<1>5. \A r \in Requests : Queues(r) => Queues(r)'
    BY <1>4 DEF Queues
<1>6. k + 1 \in 1 .. Len(queued')
    BY <1>4
<1>7. \A r \in Requests : r = m.req => Queues(r)'
    BY <1>4, <1>6 DEF Queues
<1>8. \A r \in Requests : OwesFor(r)' <=> OwesFor(r)
    BY <1>1 DEF OwesFor, Owes
<1>9. \A id \in CallIds : peer'[id] = peer[id] \/ peer'[id] = m.req
    BY <1>1, <1>2, <1>3, ClientTypes DEF SystemInv
<1> QED
    BY <1>1, <1>5, <1>7, <1>8, <1>9, ServesOn DEF Heard

LEMMA AnswerServes ==
    ASSUME SystemInv, Serves, AnswerArrives, Going \subseteq Going'
    PROVE  Serves'
<1>1. SocketWrite(conn)
    BY DEF AnswerArrives
<1>2. PICK m \in Messages : m = Head(fc_msgencoder[conn])
    BY <1>1, HeadMeans, ServerTypes DEF SystemInv, SocketWrite
<1>3. PICK q \in Reqs : q = m.req
    BY <1>2 DEF Messages
<1>4. /\ m.status \in Status /\ Owes(q) /\ call[q] \in Asked
      /\ fsr_msgid[q] = frq_msgid[call[q]]
    BY <1>1, <1>2, <1>3, NextAnswer
<1>5. /\ wire' = [wire EXCEPT ![q] = Append(@, m.status)]
      /\ UNCHANGED <<fsr_state, queued, call, transport, decoder_open>>
    BY <1>2, <1>3 DEF AnswerArrives, SocketWrite, tableVars, pipeEnds, ghosts
<1>6. IF Heard /\ m.status # "data"
      THEN peer' = [peer EXCEPT ![fsr_msgid[q]] = None]
      ELSE UNCHANGED peer
    BY <1>2, <1>3 DEF AnswerArrives, Heard, Answer, peerVars
<1>7. /\ \A p \in Reqs \ {q} : wire'[p] = wire[p]
      /\ wire'[q] = Append(wire[q], m.status)
      /\ wire[q] \in Seq(Status)
    BY <1>5, ServerTypes DEF SystemInv
<1>8. /\ \A p \in Reqs \ {q} : Owes(p) => Owes(p)'
      /\ m.status = "data" => Owes(q)'
  <2>1. ASSUME NEW p \in Reqs \ {q}, Owes(p) PROVE Owes(p)'
      BY <1>5, <1>7, <2>1 DEF Owes
  <2>2. ASSUME m.status = "data" PROVE Owes(q)'
    <3>1. /\ Len(wire[q]) \in Nat /\ Len(wire'[q]) = Len(wire[q]) + 1
          /\ wire'[q][Len(wire[q]) + 1] = "data"
          /\ \A i \in 1 .. Len(wire[q]) : wire'[q][i] = wire[q][i]
        BY <1>4, <1>7, <2>2, AppendMeans
    <3>2. \A i \in 1 .. Len(wire'[q]) : i \in 1 .. Len(wire[q]) \/ i = Len(wire[q]) + 1
        BY <3>1
    <3> QED
        BY <1>4, <1>5, <3>1, <3>2 DEF Owes
  <2> QED
      BY <2>1, <2>2
<1>9. ASSUME NEW id \in CallIds, NEW r \in Requests, Heard, conn \notin Going',
             peer'[id] = r, peer[id] = r => Queues(r) \/ OwesFor(r)
      PROVE  Queues(r)' \/ OwesFor(r)'
  <2>1. r # None /\ peer[id] = r /\ (m.status = "data" \/ id # fsr_msgid[q])
    <3>1. r # None
        BY SystemAssumption
    <3> QED
        BY <1>6, <1>9, <3>1, ClientTypes DEF SystemInv
  <2>2. CASE Queues(r)
      BY <1>5, <2>2 DEF Queues
  <2>3. CASE OwesFor(r)
    <3>1. PICK p \in Reqs : call[p] = r /\ Owes(p)
        BY <2>3 DEF OwesFor
    <3>2. p # q \/ m.status = "data"
      <4> SUFFICES ASSUME p = q PROVE m.status = "data"
          OBVIOUS
      <4>1. frq_msgid[r] = id
        <5>1. id \in Client!MsgIds /\ Client!Held(id) = r
            BY <2>1, SystemAssumption
               DEF SystemInv, Client!PeerInv, Client!ServedOK, Client!MsgIds
        <5> QED
            BY <2>1, <5>1
               DEF Client!Held, SystemInv, Client!PeerInv, Client!HeldOnce,
                   Client!IInv, Client!Bookkeeping, Client!PendingById
      <4> QED
          BY <1>4, <2>1, <3>1, <4>1
    <3>3. Owes(p)'
        BY <1>8, <3>1, <3>2
    <3>4. call'[p] = r
        BY <1>5, <3>1
    <3> QED
        BY <3>3, <3>4 DEF OwesFor
  <2> QED
      BY <1>9, <2>1, <2>2, <2>3
<1> QED
    BY <1>5, <1>9, ServesOn DEF Heard

\* Of a connection that is not to go every message is taken on: it makes a
\* request for the call.
LEMMA MessageTakenOn ==
    ASSUME SystemInv, Leaving, GoesForAReason, ServerMessage, conn \notin Going'
    PROVE  \E q \in Reqs, state \in {"RUNNING", "COMPLETE"} :
              /\ fsr_state[q] = "none"
              /\ fsr_state' = [fsr_state EXCEPT ![q] = state]
              /\ call' = [call EXCEPT ![q] = Head(queued)]
<1>1. conn \in Conns /\ inbound[conn] # <<>> /\ OnMessage(conn)
    BY ServerTypes
       DEF SystemInv, ServerMessage, OnMessage, DropMessage, RejectMessage,
           RejectCall, StartCall, TakesMessage
<1>2. crashed' = "no"
    BY <1>1, MessageAsserts DEF SystemInv, IInv
<1>3. conn \notin Going
    BY <1>1, ServerTakesStep, ServerGoes DEF SystemNext
<1>4. Operational(conn)
  <2>1. conn \in accepted
      BY <1>1 DEF Leaving, ReadOK
  <2>2. conn \in fs_conns
      BY <1>1, <1>3, <2>1
         DEF GoesForAReason, SystemInv, IInv, Accounts, ConnsAccounted
  <2> QED
      BY <1>3, <2>2 DEF Operational, Going
<1>5. Message(conn).kind # "error"
  <2>1. queued \in Seq(Requests) /\ Len(queued) = Len(Inbound) /\ Inbound # <<>>
        /\ Inbound \in Seq([kind : Kinds, msgid : CallIds \cup {None}])
      BY <1>1, ServerTypes DEF SystemInv, Linked, CallsOK, Inbound
  <2>2. 1 \in 1 .. Len(queued) /\ Message(conn) = Inbound[1]
      BY <2>1, HeadMeans DEF Message, Inbound
  <2> QED
      BY <2>2 DEF SystemInv, Linked, CallsOK
<1>6. ~RejectMessage(conn)
  <2>1. RejectMessage(conn) => conn \in Going'
      BY <1>2 DEF RejectMessage, ConnTerminate, Going
  <2> QED
      BY <2>1
<1>7. \E state \in {"RUNNING", "COMPLETE"} : NewRequest(conn, state)
    BY <1>1, <1>2, <1>4, <1>5, <1>6 DEF OnMessage, DropMessage, RejectCall, StartCall
<1>8. fs_nrequests_started' = fs_nrequests_started + 1
      /\ fs_nrequests_started \in Nat
    BY <1>7 DEF NewRequest, SystemInv, IInv, TypeOK, TableTypeOK
<1>9. PICK q \in Reqs : q = fs_nrequests_started + 1
  <2>1. inbound' = [inbound EXCEPT ![conn] = Tail(@)]
      BY DEF ServerMessage, OnMessage, DropMessage, RejectMessage, RejectCall,
             StartCall, TakesMessage
  <2> QED
      BY <1>1, <2>1, NextCall DEF SystemInv, IInv
<1>10. fsr_state[q] = "none"
    BY <1>9, NextIsNew DEF SystemInv, IInv
<1>11. fs_nrequests_started' # fs_nrequests_started /\ fs_nrequests_started' = q
    BY <1>8, <1>9
<1>12. call' = [call EXCEPT ![q] = Head(queued)]
    BY <1>11 DEF ServerMessage
<1> QED
    BY <1>7, <1>9, <1>10, <1>12 DEF NewRequest

LEMMA MessageServes ==
    ASSUME SystemInv, Leaving, GoesForAReason, Serves, ServerMessage,
           Going \subseteq Going'
    PROVE  Serves'
<1> DEFINE n == Len(queued)
<1>1. Handles
    BY MessageHandled
<1>2. /\ UNCHANGED <<wire, peer, transport, decoder_open>>
      /\ queued' = Tail(queued) /\ queued \in Seq(Requests) /\ queued # <<>>
      /\ call \in [Reqs -> Requests \cup {None}]
  <2>1. Len(queued) = Len(Inbound) /\ Inbound # <<>> /\ queued \in Seq(Requests)
        /\ Inbound \in Seq([kind : Kinds, msgid : CallIds \cup {None}])
      BY <1>1, ServerTypes DEF Handles, SystemInv, Linked, CallsOK
  <2> QED
      BY <1>1, <2>1 DEF Handles, SystemInv, Linked, CallsOK
<1>3. PICK first \in Requests : first = Head(queued) /\ first = queued[1]
    BY <1>2, HeadMeans
<1>4. /\ n \in Nat \ {0} /\ Len(queued') = n - 1
      /\ \A i \in 1 .. Len(queued') : queued'[i] = queued[i + 1]
    BY <1>2, HeadMeans
<1>5. \A r \in Requests : Queues(r) /\ r # first => Queues(r)'
  <2> SUFFICES ASSUME NEW r \in Requests, Queues(r), r # first PROVE Queues(r)'
      OBVIOUS
  <2>1. PICK i \in 1 .. n : queued[i] = r
      BY DEF Queues
  <2>2. PICK j \in 1 .. Len(queued') : j + 1 = i
      BY <1>3, <1>4, <2>1
  <2> QED
      BY <1>4, <2>1, <2>2 DEF Queues
<1>6. ASSUME conn \notin Going'
      PROVE  \A r \in Requests : OwesFor(r) \/ r = first => OwesFor(r)'
  <2>1. PICK q \in Reqs, state \in {"RUNNING", "COMPLETE"} :
              /\ fsr_state[q] = "none"
              /\ fsr_state' = [fsr_state EXCEPT ![q] = state]
              /\ call' = [call EXCEPT ![q] = first]
      BY <1>3, <1>6, MessageTakenOn
  <2>2. /\ fsr_state'[q] = state /\ call'[q] = first /\ state # "none"
        /\ \A p \in Reqs : p # q => fsr_state'[p] = fsr_state[p] /\ call'[p] = call[p]
      BY <1>2, <2>1, ServerTypes DEF SystemInv
  <2>3. wire[q] = <<>>
      BY <2>1
         DEF SystemInv, RInv, PipelinesOK, Stages, NotMade, Open, Ending, Ended,
             Failed, CutOff
  <2>4. Owes(q)'
      BY <1>2, <2>2, <2>3 DEF Owes
  <2>5. ASSUME NEW r \in Requests, OwesFor(r) PROVE OwesFor(r)'
    <3>1. PICK p \in Reqs : call[p] = r /\ Owes(p)
        BY <2>5 DEF OwesFor
    <3>2. p # q
        BY <2>1, <3>1 DEF Owes
    <3>3. Owes(p)' /\ call'[p] = r
        BY <1>2, <2>2, <3>1, <3>2 DEF Owes
    <3> QED
        BY <3>3 DEF OwesFor
  <2>6. OwesFor(first)'
      BY <2>2, <2>4 DEF OwesFor
  <2> QED
      BY <2>5, <2>6
<1> QED
    BY <1>2, <1>5, <1>6, ServesOn DEF Heard

LEMMA ServesKept ==
    ASSUME SystemInv, Leaving, GoesForAReason, Serves, [SystemNext]_sysvars
    PROVE  Serves'
<1>1. Going \subseteq Going'
    BY ServerTakesStep, ServerGoes
<1>2. CASE ClientGone \/ ConnectionFails \/ CallCut \/ ServerStep \/ ServerUserStep
    BY <1>1, <1>2, ServerApart, ApartServes
<1>3. CASE CallerStep \/ ClientStep \/ TransportFails \/ ServerGone
    BY <1>1, <1>3, ClientApart, ApartServes, AskingServes
<1>4. CASE EndTransport \/ DestroyTransport \/ UNCHANGED sysvars
  <2>1. UNCHANGED <<queued, call, wire, fsr_state, peer, decoder_open>>
      BY <1>4
         DEF EndTransport, DestroyTransport, sysvars, serverVars, vars, outVars,
             tableVars, clientVars, peerVars, pipeEnds, ghosts
  <2>2. transport' # "destroyed" => transport # "destroyed"
      BY <1>4 DEF EndTransport, DestroyTransport, sysvars
  <2>3. \A r \in Requests :
          (Queues(r)' <=> Queues(r)) /\ (OwesFor(r)' <=> OwesFor(r))
      BY <2>1 DEF Queues, OwesFor, Owes
  <2> QED
      BY <1>1, <2>1, <2>2, <2>3, ServesOn DEF Heard
<1> QED
    BY <1>1, <1>2, <1>3, <1>4, ArrivalServes, AnswerServes, MessageServes
       DEF SystemNext

\* rpc() is called only as long as the transport is there, or known to be gone.
LEMMA AskingMeans ==
    ASSUME SystemInv, [SystemNext]_sysvars
    PROVE  \/ UNCHANGED frq_msgid
           \/ transport' = transport /\ (transport = "open" \/ Client!Disconnected)
<1>1. CASE CallerStep
  <2>1. CASE C!Detach \/ \E r \in Requests : C!Abandon(r)
      BY <2>1 DEF C!Detach, C!Abandon, C!RequestAbandon, C!Crash, C!requestVars
  <2>2. world.calls \subseteq Requests
      BY SystemAssumption DEF SystemInv, Linked, WorldOK
  <2>3. C!Disconnected => Client!Disconnected
      BY DEF C!Disconnected, Client!Disconnected
  <2> QED
      BY <1>1, <2>1, <2>2, <2>3 DEF CallerStep
<1>2. CASE ClientStep
  <2>1. CASE C!HandlerStep
      BY <2>1
         DEF C!HandlerStep, C!OnUnknownMsgid, C!OnDecoderError,
             C!OnTransportEnd, C!AbandonAll, C!EmitObject, C!SkipNull,
             C!RejectNull, C!DataDone, C!EndDone, C!OnData, C!OnServerError,
             C!OnAbandonedMessage, C!RequestAbandon, C!Crash, C!requestVars
  <2>2. CASE \E r \in Requests : C!RequestStep(r)
      BY <2>2
         DEF C!RequestStep, C!OnRpcTimeout, C!EmitRequestError,
             C!EmitRequestEnd, C!RequestAbandon, C!Crash, C!requestVars
  <2> QED
      BY <1>2, <2>1, <2>2 DEF ClientStep
<1>3. CASE TransportFails
    BY <1>3 DEF TransportFails, C!OnTransportError, C!requestVars
<1>4. CASE ServerGone
    BY <1>4 DEF ServerGone, C!PeerStops, C!requestVars
<1>5. CASE UNCHANGED requestVars
    BY <1>5 DEF requestVars
<1> QED
    BY <1>1, <1>2, <1>3, <1>4, <1>5
       DEF SystemNext, EndTransport, DestroyTransport, CallArrives, AnswerArrives,
           ClientGone, ConnectionFails, CallCut, ServerMessage, ServerStep,
           ServerUserStep, clientVars, sysvars

LEMMA OwnerKept ==
    ASSUME SystemInv, OwnerOK, [SystemNext]_sysvars
    PROVE  OwnerOK'
<1> SUFFICES ASSUME transport' = "destroyed"
             PROVE  Client!Disconnected' \/ Client!Pending' = {}
    BY DEF OwnerOK
<1>1. CASE transport = "destroyed"
  <2>1. [Client!Next]_(Client!vars)
      BY ClientTakesStep, ClientSteps, ClientStutters
  <2>2. Client!Disconnected \/ UNCHANGED frq_msgid
      BY <1>1, AskingMeans
  <2> QED
      BY <1>1, <2>1, <2>2, ClientAssumed, Client!NothingIsAdded
         DEF OwnerOK, SystemInv
<1>2. CASE DestroyTransport
  <2>1. UNCHANGED <<c_pending, fc_error, fc_detached, fc_transport_ended>>
      BY <1>2 DEF DestroyTransport, clientVars, requestVars, stateVars
  <2>2. Client!Disconnected \/ Client!Pending = {}
      BY <1>2
         DEF DestroyTransport, C!Disconnected, Client!Disconnected, C!Pending,
             Client!Pending, C!MsgIds, Client!MsgIds
  <2> QED
      BY <2>1, <2>2 DEF Client!Disconnected, Client!Pending
<1>3. CASE TransportFails
    BY <1>3
       DEF TransportFails, C!OnTransportError, C!FatalError, Client!Disconnected
<1>4. CASE transport' = transport
    BY <1>1, <1>4
<1> QED
    BY <1>2, <1>3, <1>4
       DEF SystemNext, CallerStep, ClientStep, EndTransport, CallArrives,
           AnswerArrives, ServerGone, ClientGone, ConnectionFails, CallCut,
           ServerMessage, ServerStep, ServerUserStep, sysvars

LEMMA RestStarts == SystemInit => RestInv
<1> SUFFICES ASSUME SystemInit PROVE RestInv
    OBVIOUS
<1>1. /\ Leaving /\ fc_draining = {} /\ accepted = {}
      /\ frq_error = [r \in Requests |-> "none"] /\ decoder_open
      /\ c_pending = [id \in C!MsgIds |-> None]
      /\ peer = [id \in C!MsgIds |-> None] /\ transport = "open"
    BY InitLeaves DEF SystemInit, Init, C!Init
<1>2. C!MsgIds = Client!MsgIds /\ C!MsgIds = CallIds
    BY SystemAssumption DEF C!MsgIds, Client!MsgIds
<1>3. Client!Pending = {}
    BY <1>1, <1>2 DEF Client!Pending
<1>4. GoesForAReason /\ OwnerOK
    BY <1>1 DEF GoesForAReason, OwnerOK
<1>5. Client!ErrorsDue /\ Client!GoneClear /\ Client!StreamOpen /\ Client!Awaited
    BY <1>1, <1>2, <1>3
       DEF Client!ErrorsDue, Client!GoneClear, Client!StreamOpen, Client!Awaited
<1>6. Serves
    BY <1>1, <1>2, SystemAssumption DEF Serves
<1> QED
    BY <1>1, <1>4, <1>5, <1>6 DEF RestInv

LEMMA RestStep ==
    ASSUME SystemInv, SystemInv', RestInv, [SystemNext]_sysvars
    PROVE  RestInv'
<1>1. Leaving' /\ GoesForAReason'
    BY ServerTakesStep, ServerGoes, LeavingKept DEF RestInv, SystemInv
<1>2. [Client!Next]_(Client!vars)
    BY ClientTakesStep, ClientSteps, ClientStutters
<1>3. Client!IInv /\ Client!IInv' /\ Client!TypeOK
    BY DEF SystemInv, Client!IInv
<1>4. Client!ErrorsDue'
    BY <1>2, <1>3, ClientAssumed, Client!ErrorsStayDue DEF RestInv
<1>5. Client!GoneClear'
    BY <1>2, <1>3, ClientAssumed, Client!GoneKept DEF RestInv
<1>6. Client!StreamOpen'
    BY <1>2, <1>3, ClientAssumed, Client!StreamStaysOpen DEF RestInv
<1>7. Client!Awaited'
    BY <1>2, <1>3, ClientAssumed, Client!StaysAwaited DEF RestInv
<1>8. Serves' /\ OwnerOK'
    BY ServesKept, OwnerKept DEF RestInv
<1> QED
    BY <1>1, <1>4, <1>5, <1>6, <1>7, <1>8 DEF RestInv

LEMMA RestInvariance == SystemSpec => []RestInv
BY RestStarts, RestStep, SystemInvariance, PTL DEF SystemSpec

\* At rest, a server whose connection is open has answered every call it was
\* sent, and nothing of the answers is left with it.
LEMMA RestingServer ==
    ASSUME SystemInv, RestInv, AtRest, conn \in sock_open
    PROVE  conn \notin Going /\ queued = <<>> /\ \A q \in Reqs : ~Owes(q)
<1>1. conn \in Conns /\ Conns = {conn} /\ conn # None
    BY ServerTypes, SystemAssumption DEF SystemInv
<1>2. \A q \in Reqs : fsr_state[q] # "RUNNING"
  <2> SUFFICES ASSUME NEW q \in Reqs, fsr_state[q] = "RUNNING" PROVE FALSE
      OBVIOUS
  <2>1. fsr_conn[q] \notin sock_open
      BY RestMeans DEF SystemInv, RestInv
  <2>2. fsr_conn[q] \in Conns
      BY DEF SystemInv, IInv, Accounts, RequestsOK, Agree
  <2> QED
      BY <1>1, <2>1, <2>2
<1>3. conn \in fs_conns /\ conn \notin Broken
    BY <1>1
       DEF SystemInv, IInv, Accounts, ConnsAccounted, RestInv, Leaving,
           LeavingConns
<1>4. PendingOf(fc_pending, conn) = {}
  <2>1. PendingOf(fc_pending, conn)
            = {r \in Reqs : fsr_state[r] = "RUNNING" /\ fsr_conn[r] = conn}
      BY <1>1, NowPending DEF SystemInv, IInv, Accounts
  <2> QED
      BY <1>2, <2>1
<1>5. conn \notin Going
  <2>1. conn \notin fc_draining
      BY <1>1, <1>3, <1>4 DEF SystemInv, IInv, Accounts, ConnsAccounted
  <2> QED
      BY <1>3, <2>1 DEF RestInv, Leaving, LeavingConns
<1>6. queued = <<>>
  <2>1. Inbound = <<>> /\ Len(queued) = Len(Inbound) /\ queued \in Seq(Requests)
      BY <1>1 DEF AtRest, Inbound, SystemInv, Linked, CallsOK
  <2> QED
      BY <2>1
<1>7. ASSUME NEW q \in Reqs, Owes(q) PROVE FALSE
  <2>1. EncoderOf(q) = <<>>
    <3>1. fsr_conn[q] \in Conns \cup {None}
        BY DEF SystemInv, IInv, TypeOK, TableTypeOK
    <3>2. fc_msgencoder[conn] = <<>>
        BY <1>1 DEF AtRest
    <3> QED
        BY <1>1, <3>1, <3>2 DEF EncoderOf
  <2>2. Places(q) = {}
      BY <2>1 DEF Places
  <2>3. wire[q] \in Seq(Status) /\ \A i \in 1 .. Len(wire[q]) : wire[q][i] = "data"
      BY <1>7, ServerTypes DEF SystemInv, Owes
  <2>4. ~ClosedBy(q, "end") /\ ~ClosedBy(q, "error")
    <3>1. ASSUME NEW status, status # "data", ClosedBy(q, status) PROVE FALSE
      <4>1. /\ wire[q] # <<>>
            /\ \A i \in 1 .. Len(wire[q]) :
                  wire[q][i] = IF i = Len(wire[q]) THEN status ELSE "data"
          BY <2>2, <3>1 DEF ClosedBy
      <4>2. Len(wire[q]) \in 1 .. Len(wire[q])
          BY <2>3, <4>1
      <4> QED
          BY <2>3, <3>1, <4>1, <4>2
    <3> QED
        BY <3>1
  <2>5. CutOff(q)
      BY <1>2, <1>7, <2>4
         DEF Owes, SystemInv, RInv, PipelinesOK, Stages, NotMade, Open, Ending,
             Ended, Failed
  <2>6. fsr_conn[q] \in Broken /\ Broken \subseteq Conns
      BY <2>5
         DEF CutOff, RestInv, Leaving, LeavingRequests, Broken, SystemInv, IInv,
             TypeOK, ConnTypeOK
  <2> QED
      BY <1>1, <1>3, <2>6
<1> QED
    BY <1>5, <1>6, <1>7

\* Where nothing is left to be done, no request is pending at the client.
LEMMA NothingPends ==
    ASSUME SystemInv, RestInv, Settled
    PROVE  Client!Pending = {}
<1> SUFFICES ASSUME NEW id \in CallIds, c_pending[id] # None PROVE FALSE
    BY SystemAssumption DEF Client!Pending, Client!MsgIds
<1>1. Client!AtRest
    BY Zenon DEF Settled, C!AtRest, Client!AtRest, C!InHandler, Client!InHandler,
           C!EndDue, Client!EndDue
<1>2. id \in Client!MsgIds /\ Client!Pending # {}
    BY SystemAssumption DEF Client!Pending, Client!MsgIds
<1>3. running.kind = "idle" /\ fc_msgdecoder = <<>>
    BY <1>1 DEF Client!AtRest, Client!InHandler
<1>4. ~Client!Disconnected
    BY <1>2, <1>3 DEF RestInv, Client!GoneClear
<1>5. decoder_open
  <2>1. ~Client!Stopped
      BY <1>3 DEF Client!Stopped
  <2> QED
      BY <1>4, <2>1 DEF RestInv, Client!StreamOpen
<1>6. transport # "destroyed"
    BY <1>2, <1>4 DEF RestInv, OwnerOK
<1>7. conn \in sock_open /\ ServerSettled
    BY <1>5, <1>6 DEF Settled
<1>8. conn \notin Going /\ queued = <<>> /\ \A q \in Reqs : ~Owes(q)
    BY <1>7, RestingServer DEF ServerSettled
<1>9. c_msgencoder = <<>>
    BY <1>4, <1>6, <1>7, <1>8 DEF ServerSettled, Going, Client!Disconnected
<1>10. Client!Outstanding(id)
    BY <1>2, <1>3, <1>4 DEF RestInv, Client!Awaited, Client!EmitsEnd
<1>11. peer[id] # None
    BY <1>3, <1>9, <1>10 DEF Client!Outstanding
<1>12. PICK r \in Requests : peer[id] = r
    BY <1>11, ClientTypes DEF SystemInv
<1>13. Queues(r) \/ OwesFor(r)
    BY <1>5, <1>6, <1>8, <1>12 DEF RestInv, Serves, Heard
<1> QED
    BY <1>8, <1>13 DEF Queues, OwesFor

\* And every request that was made has had its event, so its callback is made.
LEMMA EveryCallReports ==
    ASSUME SystemInv, RestInv, CallersInv, Settled,
           NEW r \in Requests, frq_msgid[r] # 0
    PROVE  callback[r] # <<>>
<1>1. Client!AtRest
    BY Zenon DEF Settled, C!AtRest, Client!AtRest, C!InHandler, Client!InHandler,
           C!EndDue, Client!EndDue
<1>2. ~Client!IsPending(r)
  <2>1. r \in Asked /\ r # None
      BY SystemAssumption DEF Asked
  <2>2. r \in Asked /\ C!IsPending(r) => r \in C!Pending
      BY PendingMeans DEF SystemInv
  <2>3. C!Pending = Client!Pending /\ (C!IsPending(r) <=> Client!IsPending(r))
      BY DEF C!Pending, Client!Pending, C!MsgIds, Client!MsgIds, C!IsPending,
             Client!IsPending
  <2> QED
      BY <2>1, <2>2, <2>3, NothingPends
<1>3. frq_buffer[r] = <<>>
    BY DEF CallersInv, Client!StreamOK
<1>4. Client!Finished(r)
    BY <1>1, <1>2, <1>3, ClientAssumed, Client!RestMeans DEF RestInv, SystemInv
<1>5. terminal[r] = <<"end">> \/ terminal[r] = <<"error">>
    BY <1>4 DEF Client!Finished, CallersInv, Client!StreamOK
<1>6. C!StreamPhase(r) \in {"ended", "failed"}
  <2>1. Client!StreamPhase(r) = Client!PhaseByFlags(r)
      BY ClientAssumed, Client!PhaseMeans DEF CallersInv
  <2>2. Client!PhaseByFlags(r) \in {"ended", "failed"}
      BY <1>5 DEF Client!PhaseByFlags
  <2>3. C!StreamPhase(r) = Client!StreamPhase(r)
      BY DEF C!StreamPhase, Client!StreamPhase
  <2> QED
      BY <2>1, <2>2, <2>3
<1>7. [x \in Requests |-> C!StreamPhase(x)][r] \in {"ended", "failed"}
    BY <1>6
<1> QED
    BY <1>7, Callers!OverIsReported DEF CallersInv, Callers!IInv

\* Whatever calls are made and whatever becomes of the two ends and of the
\* connection: when nothing is left to be done, every caller's callback was made,
\* and a server whose client is gone has forgotten the connection, unless its
\* process ended or a request was started after the connection was terminated.
THEOREM NobodyWaits == SystemSpec => []NobodyIsLeftWaiting
<1>1. ASSUME SystemInv, RestInv, ServerSettled, transport = "destroyed",
             conn \in fs_conns
      PROVE  \E q \in Reqs : StartedAfterTermination(q)
  <2>1. conn \in Conns /\ AtRest
      BY <1>1, SystemAssumption DEF ServerSettled
  <2>2. conn \in Broken
      BY <1>1 DEF ServerSettled, RestInv, Leaving, LeavingConns, Broken
  <2>3. conn \in fc_draining
      BY <1>1, <2>2 DEF RestInv, Leaving, LeavingConns, Broken, Going
  <2>4. PICK q \in Reqs : fsr_state[q] = "RUNNING"
    <3>1. PendingOf(fc_pending, conn)
            = {r \in Reqs : fsr_state[r] = "RUNNING" /\ fsr_conn[r] = conn}
        BY <1>1, <2>1, NowPending DEF SystemInv, IInv, Accounts
    <3>2. PendingOf(fc_pending, conn) # {}
        BY <1>1, <2>1, <2>3 DEF SystemInv, IInv, Accounts, ConnsAccounted
    <3> QED
        BY <3>1, <3>2
  <2> QED
      BY <1>1, <2>1, <2>4, RestMeans DEF SystemInv, RestInv
<1>2. SystemInv /\ RestInv /\ CallersInv => NobodyIsLeftWaiting
    BY <1>1, EveryCallReports DEF NobodyIsLeftWaiting, Settled
<1> QED
    BY <1>2, SystemInvariance, RestInvariance, CallersInvariance, PTL
=============================================================================
