----------------------------- MODULE FastSystem -----------------------------
(***************************************************************************)
(* A FastClient and a FastServer at the two ends of a TCP connection, with *)
(* callers that use rpcBufferAndCallback() or a benchmark's workload.      *)
(*                                                                         *)
(* The server and the client are the modules of these names: the server's  *)
(* variables keep their names, the client's operators are C!...  Here are  *)
(* only the steps in which the two meet: a call or an answer arrives, one  *)
(* end sees that the other is gone.  The owner of the client's transport   *)
(* keeps to fastcall and the tests: it may end its side at any time (and   *)
(* makes no calls then), and destroys the socket once the client has no    *)
(* use for it.  Bytes on the way in the network are taken for not sent.    *)
(*                                                                         *)
(* A behaviour plays in one of the Worlds, which bound the instance: a     *)
(* world has calls that may be made and what may happen besides.           *)
(***************************************************************************)
EXTENDS FastServer

CONSTANTS
    conn,               \* the connection
    Requests, MaxMsgId, NoMsgId, Null,      \* see FastClient
    Workload, maxObjectsToBuffer, Expected, \* see RpcCalls
    Worlds              \* records of `calls` and of what else `happens`

ASSUME SystemAssumption ==
    /\ Conns = {conn}
    /\ CallIds = 1 .. MaxMsgId /\ MaxMsgId \in Nat /\ MaxMsgId > 1
    /\ IsFiniteSet(Requests) /\ Cardinality(Requests) <= MaxMsgs
    /\ None \notin Requests /\ NoMsgId \notin Nat /\ Null \notin Nat
    /\ Workload \subseteq Requests
    /\ maxObjectsToBuffer \in Nat /\ Expected \in Nat
    /\ Worlds \subseteq [calls : SUBSET Requests,
                         happens : SUBSET {"abandon", "detach", "halfclose",
                                           "failure", "close", "badcall",
                                           "data"}]

VARIABLES
    \* FastClient
    c_pending, fc_abandoned, fc_nrpc_started, fc_nrpc_done, fc_error,
    fc_detached, fc_transport_ended, ida_nextid,
    frq_msgid, frq_done_graceful, frq_abandoned, frq_timeout, frq_error,
    frq_buffer, delivered, terminal,
    c_immediates, running, client_errors, c_crashed,
    c_msgencoder, fc_msgdecoder, decoder_open, peer, npeer,
    \* RpcCalls
    data, ndata, done, callback, throws,
    \* the client's socket as its owner left it
    transport,
    \* the world, which never changes
    world,
    \* history: the calls queued in `inbound`, the call each request answers
    queued, call

C == INSTANCE FastClient
        WITH fc_pending <- c_pending, immediates <- c_immediates,
             crashed <- c_crashed, fc_msgencoder <- c_msgencoder,
             Object <- Reqs, Payloads <- {}, Flowing <- Requests,
             IgnoreNull <- {}, Timed <- {}, Reentrant <- FALSE,
             HonestPeer <- TRUE, MaxPeerMsgs <- MaxMsgs * MaxWrites

Calls == INSTANCE RpcCalls
            WITH Object <- Reqs, emitted <- delivered,
                 phase <- [r \in Requests |-> C!StreamPhase(r)]

requestVars == <<c_pending, fc_abandoned, fc_nrpc_started, fc_nrpc_done,
                 frq_msgid, frq_done_graceful, frq_abandoned, frq_timeout,
                 frq_error, c_immediates>>
stateVars  == <<fc_error, fc_detached, fc_transport_ended, ida_nextid,
                client_errors>>
streamVars == <<frq_buffer, delivered, terminal>>
loopVars   == <<running, c_crashed>>
peerVars   == <<peer, npeer>>
pipeEnds   == <<c_msgencoder, decoder_open>>
callVars   == <<data, ndata, done, callback, throws>>
ghosts     == <<world, queued, call>>
serverVars == vars
clientVars == <<requestVars, stateVars, streamVars, loopVars, pipeEnds,
                fc_msgdecoder, peerVars, callVars>>
sysvars    == <<serverVars, clientVars, transport, ghosts>>

SystemTypeOK ==
    /\ C!TypeOK /\ Calls!TypeOK
    /\ transport \in {"open", "halfclosed", "destroyed"}
    /\ world \in Worlds
    /\ queued \in Seq(Requests) /\ call \in [Reqs -> Requests \cup {None}]

SystemInit ==
    /\ Init /\ C!Init /\ Calls!CallsInit
    /\ transport = "open"
    /\ world \in Worlds
    /\ queued = <<>> /\ call = [r \in Reqs |-> None]
-----------------------------------------------------------------------------
(* The client's end *)

CallerStep ==
    /\ \/ "detach" \in world.happens /\ C!Detach
       \/ \E r \in world.calls :
            \/ "abandon" \in world.happens /\ C!Abandon(r)
            \/ C!Rpc(r) /\ (transport = "open" \/ C!Disconnected)
    /\ Calls!Listen
    /\ UNCHANGED <<serverVars, transport, ghosts>>

ClientStep ==
    /\ C!HandlerStep \/ \E r \in Requests : C!RequestStep(r)
    /\ Calls!Listen
    /\ UNCHANGED <<serverVars, transport, ghosts>>

\* The transport's owner ends its side (the tests do, right after a call).
EndTransport ==
    /\ "halfclose" \in world.happens
    /\ transport = "open"
    /\ transport' = "halfclosed"
    /\ UNCHANGED <<serverVars, clientVars, ghosts>>

\* The owner destroys the socket, when nothing is pending or the client is
\* done with it.
DestroyTransport ==
    /\ transport # "destroyed"
    /\ C!Disconnected \/ (fc_nrpc_started > 0 /\ C!Pending = {})
    /\ transport' = "destroyed"
    /\ UNCHANGED <<serverVars, clientVars, ghosts>>

\* A failure of the network, or a reset by a server that is gone.
TransportFails ==
    /\ \/ "failure" \in world.happens \/ conn \in accepted \ sock_open
       \/ crashed # "no"
    /\ transport # "destroyed"
    /\ C!OnTransportError
    /\ transport' = "destroyed"
    /\ Calls!Listen
    /\ UNCHANGED <<serverVars, ghosts>>
-----------------------------------------------------------------------------
(* Between the two *)

\* A call arrives at the server's decoder; the server may know its method and
\* find its arguments well-formed, or not.
CallArrives ==
    LET m == Head(c_msgencoder) IN
    /\ crashed = "no" /\ ~c_crashed
    /\ c_msgencoder # <<>> /\ ~fc_detached
    /\ transport # "destroyed"
    /\ conn \in sock_open \ fc_ended
    /\ \E kind \in {"call"} \cup ({"badcall"} \cap world.happens) :
          inbound' = [inbound EXCEPT ![conn] =
                        Append(@, [kind |-> kind, msgid |-> m.msgid])]
    /\ nmsgs' = nmsgs + 1
    /\ queued' = Append(queued, m.req)
    /\ c_msgencoder' = Tail(c_msgencoder)
    /\ peer' = [peer EXCEPT ![m.msgid] = m.req]
    /\ UNCHANGED <<connVars, drainVars, tableVars, pipeVars, outVars,
                   handlerVars, accepted, apiVars, crashed,
                   requestVars, stateVars, streamVars, loopVars,
                   fc_msgdecoder, decoder_open, npeer, callVars,
                   transport, world, call>>

\* What a message of request r is to the client's decoder.  Objects are named
\* by the request whose handler wrote them.
Answer(r, status) ==
    [status |-> status, msgid |-> fsr_msgid[r],
     d |-> IF status = "data" THEN <<r>> ELSE <<>>, req |-> call[r]]

\* The server's next message arrives at the client's decoder, if that is still
\* fed.
AnswerArrives ==
    LET m == Head(fc_msgencoder[conn])
        answer == Answer(m.req, m.status)
    IN  /\ SocketWrite(conn)
        /\ IF decoder_open /\ transport # "destroyed"
           THEN /\ C!Sends(answer)
                /\ IF answer.status = "data"
                   THEN npeer' = npeer + 1 /\ UNCHANGED peer
                   ELSE peer' = [peer EXCEPT ![answer.msgid] = None]
                        /\ UNCHANGED npeer
           ELSE UNCHANGED <<fc_msgdecoder, peerVars>>
        /\ UNCHANGED <<requestVars, stateVars, streamVars, loopVars,
                       pipeEnds, callVars, transport, ghosts>>

\* The server has destroyed its socket, or its process has ended: end-of-stream
\* at the client, perhaps in the middle of a message.
ServerGone ==
    /\ transport # "destroyed"
    /\ conn \notin sock_open \/ crashed # "no"
    /\ conn \in accepted \/ fs_closed
    /\ C!PeerStops
    /\ UNCHANGED <<serverVars, callVars, transport, ghosts>>

\* The client's side is ended or destroyed: end-of-stream at the server, after
\* the calls that were sent.
ClientGone ==
    /\ \/ transport = "halfclosed" /\ (c_msgencoder = <<>> \/ fc_detached)
       \/ transport = "destroyed"
    /\ OnConnectionEnd(conn)
    /\ UNCHANGED <<clientVars, transport, ghosts>>

\* A failure of the network, a reset by a client that is gone, or a write to the
\* socket that the server itself has destroyed.
ConnectionFails ==
    /\ \/ "failure" \in world.happens \/ transport = "destroyed"
       \/ conn \notin sock_open
    /\ OnConnectionError(conn)
    /\ UNCHANGED <<clientVars, transport, ghosts>>

\* The client's socket was destroyed in the middle of a call.
CallCut ==
    /\ transport = "destroyed" /\ c_msgencoder # <<>>
    /\ InputFails(conn)
    /\ UNCHANGED <<clientVars, transport, ghosts>>
-----------------------------------------------------------------------------
(* The server's end *)

ServerMessage ==
    /\ OnMessage(conn)
    /\ queued' = Tail(queued)
    /\ call' = IF fs_nrequests_started' = fs_nrequests_started THEN call
               ELSE [call EXCEPT ![fs_nrequests_started'] = Head(queued)]
    /\ UNCHANGED <<clientVars, transport, world>>

ServerStep ==
    /\ \/ ConnCreate(conn) \/ SocketClosed(conn) \/ RunImmediate
       \/ \E r \in Reqs : HandlerEnd(r) \/ HandlerFail(r) \/ PipelineStep(r)
    /\ UNCHANGED <<clientVars, transport, ghosts>>

\* What the server's owner and its handlers may do.
ServerUserStep ==
    /\ \/ "close" \in world.happens /\ Close
       \/ \E k \in Callbacks : OnConnsDestroyed(k)
       \/ "data" \in world.happens /\ \E r \in Reqs : HandlerWrite(r)
    /\ UNCHANGED <<clientVars, transport, ghosts>>

SystemNext ==
    \/ CallerStep \/ ClientStep
    \/ EndTransport \/ DestroyTransport \/ TransportFails
    \/ CallArrives \/ AnswerArrives \/ ServerGone \/ ClientGone
    \/ ConnectionFails \/ CallCut
    \/ ServerMessage \/ ServerStep \/ ServerUserStep

SystemSpec == SystemInit /\ [][SystemNext]_sysvars

\* What is done without being asked: event loops run, handlers finish,
\* connections are accepted, what was sent arrives and an end that is gone is
\* found to be gone.
Progress ==
    \/ ClientStep \/ ServerMessage \/ ServerStep
    \/ CallArrives \/ AnswerArrives \/ ServerGone
    \/ conn \in sock_open /\ ClientGone
    \/ conn \in sock_open /\ transport = "destroyed" /\ ConnectionFails
-----------------------------------------------------------------------------
(* Safety *)

\* The server request that answers call r, if one was made.
Served(r) == {q \in Reqs : call[q] = r}

\* No sequence of calls, answers and failures makes either end throw, unless it
\* is one of the surprises.
NoCrash == crashed \in {"no"} \cup Surprises /\ ~c_crashed /\ ~throws

\* The two ends agree on the protocol: an answer in flight meets the call it was
\* made for, neither end takes the other's messages for a violation of the
\* protocol, and no call is served twice.
EndsAgree ==
    /\ C!AnswersFindTheirRequest
    /\ fc_error # "unknown_msgid"
    /\ conn \in fc_server_error => fs_closed
    /\ \A r \in Requests : Cardinality(Served(r)) <= 1

\* What the caller is given comes from the handler that served its call, and
\* 'end' means all that it wrote, 'error' from the server that it failed.
AnswersAreTheHandlers ==
    \A r \in Requests :
        /\ \A i \in 1 .. Len(delivered[r]) : call[delivered[r][i]] = r
        /\ r \in frq_done_graceful =>
            \E q \in Served(r) :
                IF frq_error[r] = "server" THEN handler[q] \in {"none", "failed"}
                ELSE /\ handler[q] \in {"ended", "finished"}
                     /\ Len(delivered[r]) = nwritten[q]

\* The callbacks are right, whatever the server and the network do.
CallbacksCorrect == Calls!CallbackCorrect

\* The server is the honest peer that the properties of the client's own runs
\* rest on: what it does to the client is what FastClient lets such a peer do.
ServerIsHonestPeer == C!Init /\ [][C!Next]_(C!vars)

\* The server completed r without cutting it off, and the client has given up
\* waiting for the answer.
AnswerLost(r) ==
    frq_error[r] = "fatal" /\
    \E q \in Served(r) : fsr_state[q] = "COMPLETE" /\ q \notin fsr_blackhole

\* The answer to a completed request reaches the client, unless the network or
\* the server's process fails or one of the two ends has ended the connection.
OnlyTeardownLosesAnswers ==
    (\E r \in Requests : AnswerLost(r)) =>
        \/ fc_error = "transport" \/ fs_closed
        \/ conn \in fc_ended \cup fc_socket_error \/ crashed # "no"

\* "The client will continue to maintain state about this request until whenever
\* the request would have otherwise terminated" (README, abandon()): an abandoned
\* call keeps its message id no longer than the server owes it END or ERROR,
\* unless its handler failed, or never ran: it keeps the id at ERROR for good.
AbandonedUntilAnswered ==
    \A id \in CallIds :
        fc_abandoned[id] # None /\ ~C!Disconnected =>
            \/ C!Outstanding(id)
            \/ \E q \in Served(fc_abandoned[id]) : handler[q] \in {"none", "failed"}
-----------------------------------------------------------------------------
(* What comes in the end.  Every step consumes something that is bounded, so *)
(* behaviours are finite, and what must come at last is what holds where    *)
(* nothing is left to be done.                                              *)

\* The server's event loop has nothing to do, the connection was accepted or never
\* will be, no call can arrive, and it knows if the client is gone.
ServerSettled ==
    /\ AtRest
    /\ conn \in accepted \/ fs_closed
    /\ \/ c_msgencoder = <<>> \/ fc_detached \/ transport = "destroyed"
       \/ conn \notin sock_open \ fc_ended
    /\ transport = "halfclosed" => conn \notin sock_open \ fc_ended
    /\ transport = "destroyed" => conn \notin sock_open

\* Nothing is left to do at either end, or at the client's when the server's
\* process has ended, and the client knows if the server is gone.
Settled ==
    /\ C!AtRest
    /\ crashed # "no" \/ ServerSettled
    /\ \/ conn \in sock_open /\ crashed = "no"
       \/ ~decoder_open \/ transport = "destroyed"

\* Something goes on by itself exactly where there is something to do.
StuckIsSettled == ~ENABLED Progress <=> Settled

\* Nobody is left waiting: when nothing is left to do, every call has reported
\* its outcome, whatever became of the two ends and the connection; and if the
\* client is gone the server, if it runs, has forgotten the connection, save for
\* a request started after the connection was terminated.
NobodyIsLeftWaiting ==
    Settled =>
        /\ \A r \in Requests : frq_msgid[r] # 0 => callback[r] # <<>>
        /\ crashed = "no" /\ transport = "destroyed" /\ conn \in fs_conns =>
                \E q \in Reqs : StartedAfterTermination(q)
=============================================================================
