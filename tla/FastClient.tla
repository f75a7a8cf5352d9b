----------------------------- MODULE FastClient -----------------------------
(***************************************************************************)
(* The Fast client: lib/fast_client.js with lib/fast_client_request.js.    *)
(*                                                                         *)
(* A FastClient multiplexes the caller's requests over a transport that it *)
(* does not own.  Its methods run to completion on one thread, so an action*)
(* is what one event (a decoded message, a timer, an event of the transport*)
(* or a call of the API) does.  Only two handlers call out to the caller   *)
(* half-way: requestEmitData between two objects of a message, fatalError  *)
(* between recording the error and abandoning the requests.  `running`     *)
(* holds what is left of them, and the caller may use the API meanwhile.   *)
(*                                                                         *)
(* The other end of the transport is the environment: an honest peer keeps *)
(* to the README's protocol, any other sends whatever the decoder accepts. *)
(* A failed assertion throws out of an event handler and ends the process: *)
(* `crashed`, after which nothing happens.                                 *)
(***************************************************************************)
EXTENDS Integers, Sequences, FiniteSets

CONSTANTS
    Requests,       \* the rpc() calls, one FastClientRequest each
    None,           \* no request
    MaxMsgId,       \* FP_MSGID_MAX
    NoMsgId,        \* what the allocator has when every id is in use
    Object, Null,   \* data objects, and the JSON null a message may hold
    Payloads,       \* the data arrays an arbitrary peer may send
    Flowing,        \* requests whose caller reads with a 'data' listener; the
                    \* others are read with read() when their caller likes
    IgnoreNull,     \* requests with ignoreNullValues
    Timed,          \* requests with a timeout
    Reentrant,      \* callers use the API from inside a 'data' listener
    HonestPeer,     \* the peer keeps to the protocol
    MaxPeerMsgs     \* bound: data messages of an honest peer, all messages of
                    \* an arbitrary one

ASSUME ClientAssumption ==
    /\ IsFiniteSet(Requests) /\ None \notin Requests
    /\ MaxMsgId \in Nat /\ MaxMsgId > 1
    /\ NoMsgId \notin Nat
    /\ Null \notin Object
    /\ Payloads \subseteq Seq(Object \cup {Null})
    /\ Flowing \subseteq Requests /\ IgnoreNull \subseteq Requests
    /\ Timed \subseteq Requests
    /\ Reentrant \in BOOLEAN /\ HonestPeer \in BOOLEAN
    /\ MaxPeerMsgs \in Nat

VARIABLES
    \* FastClient
    fc_pending,         \* msgid -> pending request
    fc_abandoned,       \* msgid -> abandoned request the server may answer
    fc_nrpc_started, fc_nrpc_done,
    fc_error,           \* first fatal error
    fc_detached, fc_transport_ended,
    ida_nextid,         \* cursor of fc_rqidalloc
    \* FastClientRequest
    frq_msgid,          \* 0 until rpc() is called
    frq_done_graceful, frq_abandoned,
    frq_timeout,        \* requests with a timer armed
    frq_error,
    \* the request as the caller's stream
    frq_buffer,         \* pushed, not yet read (not Flowing)
    delivered,          \* data objects the caller has been given
    terminal,           \* 'end' and 'error' events emitted
    \* event loop
    immediates,         \* requests with an 'error' event in setImmediate()
    running,            \* the rest of a handler that has called out
    client_errors,      \* 'error' events of the client emitted
    crashed,            \* an assertion failed
    \* transport and environment
    fc_msgencoder,      \* requests on their way to the peer
    fc_msgdecoder,      \* decoder events on their way to the client
    decoder_open,       \* the transport is piped to the decoder
    peer,               \* msgid -> request an honest peer is serving
    npeer

requestVars == <<fc_pending, fc_abandoned, fc_nrpc_started, fc_nrpc_done,
                 frq_msgid, frq_done_graceful, frq_abandoned, frq_timeout,
                 frq_error, immediates>>
clientVars  == <<fc_error, fc_detached, fc_transport_ended, ida_nextid,
                 client_errors>>
streamVars  == <<frq_buffer, delivered, terminal>>
loopVars    == <<running, crashed>>
peerVars    == <<fc_msgencoder, decoder_open, peer, npeer>>
transportVars == <<peerVars, fc_msgdecoder>>
vars == <<requestVars, clientVars, streamVars, loopVars, transportVars>>

Allocator == INSTANCE IdAllocator
                WITH ida_min <- 1, ida_max <- MaxMsgId, NoId <- NoMsgId

MsgIds  == 1 .. MaxMsgId
Value   == Object \cup {Null}
Causes  == {"none", "skipped", "user", "timeout", "detached", "null", "fatal",
            "server"}
Fatal   == {"none", "transport", "protocol", "unknown_msgid", "ended"}
Status  == {"data", "end", "error"}

\* What the decoder has for the client: a message, its 'error' or its 'end'.
\* `req` is history: the request an honest peer is answering.
Event ==
    [status : Status, msgid : MsgIds, d : Seq(Value), req : Requests \cup {None}]
    \cup
    [status : {"invalid", "eof"}, msgid : {0}, d : {<<>>}, req : {None}]

Frame == [kind : {"idle", "emit", "fatal"}, req : Requests \cup {None},
          rest : Seq(Value), status : Status, listener : BOOLEAN]

Idle == [kind |-> "idle", req |-> None, rest |-> <<>>, status |-> "data",
         listener |-> FALSE]

\* The parts of TypeOK follow the groups of variables.
RequestTypeOK ==
    /\ fc_pending \in [MsgIds -> Requests \cup {None}]
    /\ fc_abandoned \in [MsgIds -> Requests \cup {None}]
    /\ fc_nrpc_started \in Nat /\ fc_nrpc_done \in Nat
    /\ frq_msgid \in [Requests -> 0 .. MaxMsgId]
    /\ frq_done_graceful \subseteq Requests
    /\ frq_abandoned \subseteq Requests
    /\ frq_timeout \subseteq Requests
    /\ frq_error \in [Requests -> Causes]
    /\ immediates \subseteq Requests

ClientTypeOK ==
    /\ fc_error \in Fatal
    /\ fc_detached \in BOOLEAN /\ fc_transport_ended \in BOOLEAN
    /\ ida_nextid \in MsgIds
    /\ client_errors \in Nat

StreamTypeOK ==
    /\ frq_buffer \in [Requests -> Seq(Object)]
    /\ delivered \in [Requests -> Seq(Object)]
    /\ terminal \in [Requests -> Seq({"end", "error"})]

LoopTypeOK == running \in Frame /\ crashed \in BOOLEAN

PeerTypeOK ==
    /\ fc_msgencoder \in Seq([msgid : MsgIds, req : Requests])
    /\ decoder_open \in BOOLEAN
    /\ peer \in [MsgIds -> Requests \cup {None}]
    /\ npeer \in Nat

DecoderTypeOK == fc_msgdecoder \in Seq(Event)

TypeOK ==
    /\ RequestTypeOK /\ ClientTypeOK /\ StreamTypeOK
    /\ LoopTypeOK /\ PeerTypeOK /\ DecoderTypeOK

Init ==
    /\ fc_pending = [id \in MsgIds |-> None]
    /\ fc_abandoned = [id \in MsgIds |-> None]
    /\ fc_nrpc_started = 0 /\ fc_nrpc_done = 0
    /\ fc_error = "none"
    /\ fc_detached = FALSE /\ fc_transport_ended = FALSE
    /\ ida_nextid = 1
    /\ frq_msgid = [r \in Requests |-> 0]
    /\ frq_done_graceful = {} /\ frq_abandoned = {} /\ frq_timeout = {}
    /\ frq_error = [r \in Requests |-> "none"]
    /\ frq_buffer = [r \in Requests |-> <<>>]
    /\ delivered = [r \in Requests |-> <<>>]
    /\ terminal = [r \in Requests |-> <<>>]
    /\ immediates = {}
    /\ running = Idle
    /\ client_errors = 0
    /\ crashed = FALSE
    /\ fc_msgencoder = <<>> /\ fc_msgdecoder = <<>>
    /\ decoder_open = TRUE
    /\ peer = [id \in MsgIds |-> None]
    /\ npeer = 0
-----------------------------------------------------------------------------
\* Faulty variant: a failed request still counts as pending.
IsPendingUnlessGraceful(r) == r \notin frq_done_graceful

\* requestIsPending(), for a request that rpc() has made.
IsPending(r) == r \notin frq_done_graceful /\ frq_error[r] = "none"

Pending == {fc_pending[id] : id \in MsgIds} \ {None}

\* Faulty variant: the id of an abandoned request is free at once.
AllocatedIdsPendingOnly == {id \in MsgIds : fc_pending[id] # None}

\* isReqIdAllocated()
AllocatedIds ==
    {id \in MsgIds : fc_pending[id] # None \/ fc_abandoned[id] # None}

\* Asserted wherever a request leaves fc_pending.
Registered(r) == fc_pending[frq_msgid[r]] = r

\* The caller's code runs between events, in the client's 'error' listener, and
\* in a request's 'data' listener.
CallerRuns ==
    /\ ~crashed
    /\ \/ running.kind \in {"idle", "fatal"}
       \/ running.kind = "emit" /\ running.listener /\ Reentrant

\* The event loop is between two events, or in the rest of a handler.
InHandler(kind) == ~crashed /\ running.kind = kind

\* An assertion threw: the process is gone.
Crash ==
    /\ crashed' = TRUE
    /\ UNCHANGED <<requestVars, clientVars, streamVars, running,
                   transportVars>>

\* Faulty variants: the timer stays armed, or somebody else's is disarmed too.
RequestCompleteTimerArmed(R) ==
    /\ UNCHANGED frq_timeout
    /\ fc_pending' = [id \in MsgIds |->
                        IF fc_pending[id] \in R THEN None ELSE fc_pending[id]]
    /\ fc_nrpc_done' = fc_nrpc_done + Cardinality(R)
RequestCompleteAllTimers(R) ==
    /\ frq_timeout' = {}
    /\ fc_pending' = [id \in MsgIds |->
                        IF fc_pending[id] \in R THEN None ELSE fc_pending[id]]
    /\ fc_nrpc_done' = fc_nrpc_done + Cardinality(R)

\* requestComplete() for every request of R: disarm its timer, take it out of
\* fc_pending and count it.
RequestComplete(R) ==
    /\ frq_timeout' = frq_timeout \ R
    /\ fc_pending' = [id \in MsgIds |->
                        IF fc_pending[id] \in R THEN None ELSE fc_pending[id]]
    /\ fc_nrpc_done' = fc_nrpc_done + Cardinality(R)

\* Faulty variant: the 'error' event is never scheduled.
RequestFailSilently(R, cause) ==
    /\ frq_error' = [r \in Requests |->
                        IF r \in R THEN cause ELSE frq_error[r]]
    /\ UNCHANGED immediates
    /\ RequestComplete(R)

\* requestFail(): record the error, complete, and defer the 'error' event.
RequestFail(R, cause) ==
    /\ frq_error' = [r \in Requests |->
                        IF r \in R THEN cause ELSE frq_error[r]]
    /\ immediates' = immediates \cup R
    /\ RequestComplete(R)

\* requestAbandon(): the message id stays taken until the server is done.
RequestAbandon(R, cause) ==
    /\ frq_abandoned' = frq_abandoned \cup R
    /\ fc_abandoned' = [id \in MsgIds |->
                          IF fc_pending[id] \in R THEN fc_pending[id]
                          ELSE fc_abandoned[id]]
    /\ RequestFail(R, cause)
    /\ UNCHANGED <<fc_nrpc_started, frq_msgid, frq_done_graceful>>

\* What requestAbandonAll() asserts before and after each request.
AbandonAllAsserts == \A r \in Pending : IsPending(r) /\ Registered(r)

\* fatalError() up to the emit: only the first error is reported and acted on.
FatalError(error) ==
    IF fc_error # "none"
    THEN UNCHANGED <<fc_error, client_errors, running>>
    ELSE /\ fc_error' = error
         /\ client_errors' = client_errors + 1
         /\ running' = [Idle EXCEPT !.kind = "fatal"]
-----------------------------------------------------------------------------
(* The caller's API.  rpc() throws, changing nothing, if no id is free. *)

\* Faulty variants: rpc() does not see that the client has failed, or that the
\* transport has ended.
DisconnectedDespiteError == fc_detached \/ fc_transport_ended
DisconnectedDespiteEnd   == fc_error # "none" \/ fc_detached

Disconnected == fc_error # "none" \/ fc_detached \/ fc_transport_ended

\* rpc() without a transport: the request fails before it is ever pending.
RpcSkipped(r) ==
    /\ Disconnected
    /\ frq_error' = [frq_error EXCEPT ![r] = "skipped"]
    /\ immediates' = immediates \cup {r}
    /\ fc_nrpc_done' = fc_nrpc_done + 1
    /\ UNCHANGED <<fc_pending, frq_timeout, fc_msgencoder>>

RpcSent(r, id) ==
    /\ ~Disconnected
    /\ fc_pending' = [fc_pending EXCEPT ![id] = r]
    /\ fc_msgencoder' = Append(fc_msgencoder, [msgid |-> id, req |-> r])
    /\ frq_timeout' = frq_timeout \cup ({r} \cap Timed)
    /\ UNCHANGED <<frq_error, immediates, fc_nrpc_done>>

Rpc(r) ==
    LET id == Allocator!Alloc(ida_nextid, AllocatedIds)
    IN  /\ CallerRuns
        /\ frq_msgid[r] = 0
        /\ id # NoMsgId
        /\ ida_nextid' = Allocator!Successor(id)
        /\ frq_msgid' = [frq_msgid EXCEPT ![r] = id]
        /\ fc_nrpc_started' = fc_nrpc_started + 1
        /\ RpcSkipped(r) \/ RpcSent(r, id)
        /\ UNCHANGED <<streamVars, loopVars, fc_abandoned, fc_error,
                       fc_detached, fc_transport_ended, frq_done_graceful,
                       frq_abandoned, client_errors, decoder_open, peer,
                       npeer, fc_msgdecoder>>

\* request.abandon(); nothing happens if the request is no longer pending.
Abandon(r) ==
    /\ CallerRuns
    /\ frq_msgid[r] # 0 /\ IsPending(r)
    /\ IF Registered(r)
       THEN /\ RequestAbandon({r}, "user")
            /\ UNCHANGED <<clientVars, streamVars, loopVars, transportVars>>
       ELSE Crash

\* detach(): unpipe the transport both ways and abandon everything.  What the
\* decoder had already taken in (a prefix of the queue) is still emitted.
Detach ==
    /\ CallerRuns
    /\ ~fc_detached
    /\ IF AbandonAllAsserts
       THEN /\ fc_detached' = TRUE
            /\ decoder_open' = FALSE
            /\ \E k \in 0 .. Len(fc_msgdecoder) :
                  fc_msgdecoder' = SubSeq(fc_msgdecoder, 1, k)
            /\ RequestAbandon(Pending, "detached")
            /\ UNCHANGED <<streamVars, loopVars, fc_error, fc_transport_ended,
                           ida_nextid, client_errors, fc_msgencoder, peer,
                           npeer>>
       ELSE Crash

\* read() by a caller that does not use a 'data' listener.
ReadRequest(r) ==
    /\ CallerRuns
    /\ frq_buffer[r] # <<>>
    /\ delivered' = [delivered EXCEPT ![r] = Append(@, Head(frq_buffer[r]))]
    /\ frq_buffer' = [frq_buffer EXCEPT ![r] = Tail(@)]
    /\ UNCHANGED <<requestVars, clientVars, loopVars, terminal,
                   transportVars>>
-----------------------------------------------------------------------------
(* Events of the decoder, the transport, timers and setImmediate(). *)

Message == Head(fc_msgdecoder)

\* The handler takes the decoder's next message, for a pending request.
Receives(r) ==
    /\ InHandler("idle")
    /\ fc_msgdecoder # <<>>
    /\ Message.status \in Status
    /\ fc_pending[Message.msgid] = r

\* onMessage() asserts that a pending request is neither abandoned nor done.
ReceiveAsserts(r) ==
    /\ r \notin frq_abandoned /\ r \notin frq_done_graceful
    /\ Message.status # "end" => frq_error[r] = "none"

\* DATA and END: requestEmitData() starts on the message's objects.
OnData(r) ==
    /\ Receives(r)
    /\ Message.status \in {"data", "end"}
    /\ IF ReceiveAsserts(r) /\ IsPending(r)
       THEN /\ running' = [kind |-> "emit", req |-> r, rest |-> Message.d,
                           status |-> Message.status, listener |-> FALSE]
            /\ fc_msgdecoder' = Tail(fc_msgdecoder)
            /\ UNCHANGED <<requestVars, clientVars, streamVars, peerVars,
                           crashed>>
       ELSE Crash

\* ERROR: the request fails with what the server reported.
OnServerError(r) ==
    /\ Receives(r)
    /\ Message.status = "error"
    /\ IF ReceiveAsserts(r) /\ Registered(r)
       THEN /\ frq_done_graceful' = frq_done_graceful \cup {r}
            /\ RequestFail({r}, "server")
            /\ fc_msgdecoder' = Tail(fc_msgdecoder)
            /\ UNCHANGED <<clientVars, streamVars, loopVars, peerVars,
                           fc_abandoned, fc_nrpc_started, frq_msgid,
                           frq_abandoned>>
       ELSE Crash

\* Faulty variant: the first answer of any kind gives the id back.
GivesIdBackAny(status) == status \in Status

\* Faulty variant: no answer gives it back.
GivesIdBackNever(status) == status \notin Status

\* Which message for an abandoned request is its last.
GivesIdBack(status) == status = "end"

\* A message for an abandoned request: END gives its id back, the rest is
\* ignored.
OnAbandonedMessage(r) ==
    /\ InHandler("idle")
    /\ fc_msgdecoder # <<>>
    /\ Message.status \in Status
    /\ fc_pending[Message.msgid] = None
    /\ fc_abandoned[Message.msgid] = r
    /\ IF r \in frq_abandoned /\ r \notin frq_done_graceful
       THEN /\ fc_abandoned' = IF GivesIdBack(Message.status)
                               THEN [fc_abandoned EXCEPT ![frq_msgid[r]] = None]
                               ELSE fc_abandoned
            /\ fc_msgdecoder' = Tail(fc_msgdecoder)
            /\ UNCHANGED <<clientVars, streamVars, loopVars, peerVars,
                           fc_pending, fc_nrpc_started, fc_nrpc_done,
                           frq_msgid, frq_done_graceful, frq_abandoned,
                           frq_timeout, frq_error, immediates>>
       ELSE Crash

\* A message for neither is a protocol error, fatal to the client.
OnUnknownMsgid ==
    /\ InHandler("idle")
    /\ fc_msgdecoder # <<>>
    /\ Message.status \in Status
    /\ Message.msgid \in MsgIds \ AllocatedIds
    /\ FatalError("unknown_msgid")
    /\ fc_msgdecoder' = Tail(fc_msgdecoder)
    /\ UNCHANGED <<requestVars, streamVars, peerVars, fc_detached,
                   fc_transport_ended, ida_nextid, crashed>>

\* The decoder's 'error': bad version, checksum, ..., or a partial message at
\* end-of-stream.  The pipe comes apart and nothing more is decoded.
OnDecoderError ==
    /\ InHandler("idle")
    /\ fc_msgdecoder # <<>>
    /\ Message.status = "invalid"
    /\ FatalError("protocol")
    /\ fc_msgdecoder' = Tail(fc_msgdecoder)
    /\ UNCHANGED <<requestVars, streamVars, peerVars, fc_detached,
                   fc_transport_ended, ida_nextid, crashed>>

\* The decoder's 'end': fatal only if the client still waits for something.
OnTransportEnd ==
    /\ InHandler("idle")
    /\ fc_msgdecoder # <<>>
    /\ Message.status = "eof"
    /\ fc_transport_ended' = TRUE
    /\ IF fc_nrpc_started > fc_nrpc_done THEN FatalError("ended")
       ELSE UNCHANGED <<fc_error, client_errors, running>>
    /\ fc_msgdecoder' = Tail(fc_msgdecoder)
    /\ UNCHANGED <<requestVars, streamVars, peerVars, fc_detached, ida_nextid,
                   crashed>>

\* The transport's 'error'; detach() removes this listener.
OnTransportError ==
    /\ InHandler("idle")
    /\ ~fc_detached
    /\ fc_error = "none"        \* later ones only count in fc_nerrors
    /\ FatalError("transport")
    /\ UNCHANGED <<requestVars, streamVars, fc_detached, fc_transport_ended,
                   ida_nextid, crashed, transportVars>>

\* The rest of fatalError(): requestAbandonAll().
AbandonAll ==
    /\ InHandler("fatal")
    /\ IF AbandonAllAsserts
       THEN /\ RequestAbandon(Pending, "fatal")
            /\ running' = Idle
            /\ UNCHANGED <<clientVars, streamVars, crashed, transportVars>>
       ELSE Crash

\* requestEmitData(), one object: a flowing request emits it at once.
EmitObject ==
    LET r == running.req  object == Head(running.rest) IN
    /\ InHandler("emit")
    /\ running.rest # <<>>
    /\ object # Null
    /\ IF r \in Flowing
       THEN /\ delivered' = [delivered EXCEPT ![r] = Append(@, object)]
            /\ UNCHANGED frq_buffer
       ELSE /\ frq_buffer' = [frq_buffer EXCEPT ![r] = Append(@, object)]
            /\ UNCHANGED delivered
    /\ running' = [running EXCEPT !.rest = Tail(@),
                                  !.listener = r \in Flowing]
    /\ UNCHANGED <<requestVars, clientVars, terminal, crashed, transportVars>>

\* A null the caller asked to be ignored.
SkipNull ==
    /\ InHandler("emit")
    /\ running.rest # <<>>
    /\ Head(running.rest) = Null
    /\ running.req \in IgnoreNull
    /\ running' = [running EXCEPT !.rest = Tail(@), !.listener = FALSE]
    /\ UNCHANGED <<requestVars, clientVars, streamVars, crashed,
                   transportVars>>

\* Any other null abandons the request and ends the handler.
RejectNull ==
    /\ InHandler("emit")
    /\ running.rest # <<>>
    /\ Head(running.rest) = Null
    /\ running.req \notin IgnoreNull
    /\ IF IsPending(running.req) => Registered(running.req)
       THEN /\ RequestAbandon({running.req} \cap Pending, "null")
            /\ running' = Idle
            /\ UNCHANGED <<clientVars, streamVars, crashed, transportVars>>
       ELSE Crash

\* Every object of a DATA message is out.
DataDone ==
    /\ InHandler("emit")
    /\ running.rest = <<>>
    /\ running.status = "data"
    /\ running' = Idle
    /\ UNCHANGED <<requestVars, clientVars, streamVars, crashed,
                   transportVars>>

\* Every object of an END message is out: the request completes.
EndDone ==
    LET r == running.req IN
    /\ InHandler("emit")
    /\ running.rest = <<>>
    /\ running.status = "end"
    /\ IF Registered(r)
       THEN /\ frq_done_graceful' = frq_done_graceful \cup {r}
            /\ RequestComplete({r})
            /\ running' = Idle
            /\ UNCHANGED <<clientVars, streamVars, fc_abandoned,
                           fc_nrpc_started, frq_msgid, frq_abandoned,
                           frq_error, immediates, crashed, transportVars>>
       ELSE Crash

\* The request's timer: requestAbandon(), if the request is still pending.
OnRpcTimeout(r) ==
    /\ InHandler("idle")
    /\ r \in frq_timeout
    /\ IF ~IsPending(r)
       THEN /\ frq_timeout' = frq_timeout \ {r}
            /\ UNCHANGED <<clientVars, streamVars, loopVars, fc_pending,
                           fc_abandoned, fc_nrpc_started, fc_nrpc_done,
                           frq_msgid, frq_done_graceful, frq_abandoned,
                           frq_error, immediates, transportVars>>
       ELSE IF Registered(r)
       THEN /\ RequestAbandon({r}, "timeout")
            /\ UNCHANGED <<clientVars, streamVars, loopVars, transportVars>>
       ELSE Crash

\* The 'error' event that requestFail() deferred.
EmitRequestError(r) ==
    /\ InHandler("idle")
    /\ r \in immediates
    /\ immediates' = immediates \ {r}
    /\ terminal' = [terminal EXCEPT ![r] = Append(@, "error")]
    /\ UNCHANGED <<clientVars, loopVars, fc_pending, fc_abandoned,
                   fc_nrpc_started, fc_nrpc_done, frq_msgid,
                   frq_done_graceful, frq_abandoned, frq_timeout, frq_error,
                   frq_buffer, delivered, transportVars>>

\* Faulty variant: a request that failed is ended too.
EndDueAlways(r) ==
    /\ frq_msgid[r] # 0 /\ ~IsPending(r)
    /\ frq_buffer[r] = <<>>
    /\ \A i \in 1 .. Len(terminal[r]) : terminal[r][i] # "end"

\* onMessage() called request.end() on END, and the stream has been read.
EndDue(r) ==
    /\ r \in frq_done_graceful /\ frq_error[r] = "none"
    /\ frq_buffer[r] = <<>>
    /\ \A i \in 1 .. Len(terminal[r]) : terminal[r][i] # "end"

EmitRequestEnd(r) ==
    /\ InHandler("idle")
    /\ EndDue(r)
    /\ terminal' = [terminal EXCEPT ![r] = Append(@, "end")]
    /\ UNCHANGED <<requestVars, clientVars, loopVars, frq_buffer, delivered,
                   transportVars>>
-----------------------------------------------------------------------------
(* The environment: the server's end of the transport. *)

Sends(m) ==
    /\ ~crashed /\ decoder_open
    /\ fc_msgdecoder' = Append(fc_msgdecoder, m)

\* fc_msgencoder is piped to the transport until detach().
PeerAccepts ==
    /\ ~crashed
    /\ fc_msgencoder # <<>>
    /\ ~fc_detached
    /\ fc_msgencoder' = Tail(fc_msgencoder)
    /\ peer' = [peer EXCEPT ![Head(fc_msgencoder).msgid] =
                                    Head(fc_msgencoder).req]
    /\ UNCHANGED <<requestVars, clientVars, streamVars, loopVars,
                   decoder_open, npeer, fc_msgdecoder>>

\* DATA for a request being served.
PeerSendsData(id) ==
    /\ HonestPeer
    /\ peer[id] # None /\ npeer < MaxPeerMsgs
    /\ \E object \in Object :
          Sends([status |-> "data", msgid |-> id, d |-> <<object>>,
                 req |-> peer[id]])
    /\ npeer' = npeer + 1
    /\ UNCHANGED <<requestVars, clientVars, streamVars, loopVars,
                   fc_msgencoder, decoder_open, peer>>

\* Exactly one END or ERROR, after which the request is over for the peer.
PeerFinishes(id) ==
    /\ HonestPeer
    /\ peer[id] # None
    /\ \E status \in {"end", "error"} :
          Sends([status |-> status, msgid |-> id, d |-> <<>>,
                 req |-> peer[id]])
    /\ peer' = [peer EXCEPT ![id] = None]
    /\ UNCHANGED <<requestVars, clientVars, streamVars, loopVars,
                   fc_msgencoder, decoder_open, npeer>>

\* Anything the decoder lets through, from a peer that is not honest.
PeerSendsAnything ==
    /\ ~HonestPeer /\ npeer < MaxPeerMsgs
    /\ \E status \in Status, id \in MsgIds, d \in Payloads \cup {<<>>} :
          /\ status = "error" => d = <<>>    \* an error's details are left out
          /\ Sends([status |-> status, msgid |-> id, d |-> d, req |-> None])
    /\ npeer' = npeer + 1
    /\ UNCHANGED <<requestVars, clientVars, streamVars, loopVars,
                   fc_msgencoder, decoder_open, peer>>

\* The stream ends, or (from a peer that is not honest, or cut short by a
\* failure of the network) with bytes that are no message.
PeerStops ==
    /\ \E status \in {"eof", "invalid"} :
          Sends([status |-> status, msgid |-> 0, d |-> <<>>, req |-> None])
    /\ decoder_open' = FALSE
    /\ UNCHANGED <<requestVars, clientVars, streamVars, loopVars,
                   fc_msgencoder, peer, npeer>>
-----------------------------------------------------------------------------
CallerStep ==
    \/ Detach
    \/ \E r \in Requests : Rpc(r) \/ Abandon(r) \/ ReadRequest(r)

\* What the event loop does next with input that is already there.
HandlerStep ==
    \/ OnUnknownMsgid \/ OnDecoderError \/ OnTransportEnd
    \/ AbandonAll \/ EmitObject \/ SkipNull \/ RejectNull
    \/ DataDone \/ EndDone
    \/ \E r \in Requests : OnData(r) \/ OnServerError(r) \/ OnAbandonedMessage(r)

RequestStep(r) == OnRpcTimeout(r) \/ EmitRequestError(r) \/ EmitRequestEnd(r)

PeerStep ==
    \/ PeerAccepts \/ PeerSendsAnything \/ PeerStops
    \/ \E id \in MsgIds : PeerSendsData(id) \/ PeerFinishes(id)

Next ==
    \/ CallerStep \/ HandlerStep \/ OnTransportError \/ PeerStep
    \/ \E r \in Requests : RequestStep(r)

Spec == Init /\ [][Next]_vars

\* The event loop runs every handler, expired timer and immediate in the end.
\* Nothing is assumed of the caller or of the peer.
Fairness ==
    /\ WF_vars(HandlerStep)
    /\ \A r \in Requests :
        /\ WF_vars(OnRpcTimeout(r))
        /\ WF_vars(EmitRequestError(r))
        /\ WF_vars(EmitRequestEnd(r))

FairSpec == Spec /\ Fairness

\* The event loop has nothing to do: no message, timer or event waits.
AtRest ==
    /\ InHandler("idle")
    /\ fc_msgdecoder = <<>> /\ frq_timeout = {} /\ immediates = {}
    /\ \A r \in Requests : ~EndDue(r)
-----------------------------------------------------------------------------
(* Safety *)

\* The assertions of fast_client.js hold: no sequence of messages, API calls
\* and transport events makes a handler throw.
NoAssertionFailure == ~crashed

\* frq_done_graceful/frq_error, fc_pending and the timers tell one story: a
\* request that rpc() made is pending exactly while its own message id leads to
\* it, only a pending request has a timer armed, and the two counters, which
\* decide whether end-of-stream is an error, differ by the pending requests.
PendingAgrees ==
    /\ \A r \in Requests :
        /\ (frq_msgid[r] # 0 /\ IsPending(r)) <=>
                (frq_msgid[r] # 0 /\ Registered(r))
        /\ r \in frq_timeout => frq_msgid[r] # 0 /\ IsPending(r)
    /\ fc_nrpc_started - fc_nrpc_done = Cardinality(Pending)

\* A message id is not used for a second request before an honest server is
\* done with the first: it would be taken for a duplicate (a protocol error
\* that costs the client its connection).
MsgIdFreshAtPeer ==
    \A i \in 1 .. Len(fc_msgencoder) :
        /\ peer[fc_msgencoder[i].msgid] = None
        /\ \A j \in 1 .. Len(fc_msgencoder) :
              fc_msgencoder[j].msgid = fc_msgencoder[i].msgid => i = j

\* Every answer on its way still finds the request it answers, abandoned or
\* not: none is given to another request or mistaken for a protocol error.
AnswersFindTheirRequest ==
    \A i \in 1 .. Len(fc_msgdecoder) :
        LET m == fc_msgdecoder[i]
        IN  m.req # None =>
                m.req = IF fc_pending[m.msgid] # None THEN fc_pending[m.msgid]
                        ELSE fc_abandoned[m.msgid]

\* The client reports at most one error, and only with every request it still
\* had then about to be failed: once it has, nothing is pending.
ErrorFailsEverything ==
    /\ client_errors <= 1
    /\ (fc_error # "none" /\ running.kind # "fatal") => Pending = {}
-----------------------------------------------------------------------------
(* What the caller of rpc() is promised: RpcStream. *)

StreamPhase(r) ==
    CASE terminal[r] = <<"end">> -> "ended"
      [] terminal[r] = <<"error">> -> "failed"
      [] Len(terminal[r]) > 1 -> "broken"
      [] terminal[r] = <<>> /\ frq_error[r] # "none" -> "failing"
      [] terminal[r] = <<>> /\ frq_error[r] = "none" ->
            IF r \in frq_done_graceful THEN "ending"
            ELSE IF frq_msgid[r] # 0 THEN "open" ELSE "idle"

Finished(r) == terminal[r] # <<>>

Stream == INSTANCE RpcStream
             WITH phase <- [r \in Requests |-> StreamPhase(r)],
                  emitted <- delivered

\* Each request is a stream of objects that ends with exactly one 'end' or
\* 'error', with nothing after its outcome is decided: abandoning, timing out,
\* detaching or losing the transport takes effect at once.
StreamSafety == Stream!Init /\ [][Stream!Next]_(Stream!vars)

\* And the one event that reports the outcome does come.
ImplementsStream == Stream!Spec
-----------------------------------------------------------------------------
(* Liveness *)

\* However the client loses its transport, every request it was given, before
\* or after, reports its outcome; nobody waits for an answer that cannot come.
DisconnectedRequestsFinish ==
    \A r \in Requests :
        (/\ frq_msgid[r] # 0
         /\ fc_detached \/ fc_transport_ended \/ fc_error # "none") ~> Finished(r)

\* A request with a timeout is over some day, whatever the server does.
TimedRequestsFinish == \A r \in Requests : r \in frq_timeout ~> Finished(r)
-----------------------------------------------------------------------------
\* The server still owes the client the END or ERROR of this message id.
Outstanding(id) ==
    \/ peer[id] # None
    \/ \E i \in 1 .. Len(fc_msgencoder) : fc_msgencoder[i].msgid = id
    \/ \E i \in 1 .. Len(fc_msgdecoder) :
            fc_msgdecoder[i].msgid = id /\ fc_msgdecoder[i].status # "data"
=============================================================================
