----------------------------- MODULE FastServer -----------------------------
(***************************************************************************)
(* The Fast server: lib/fast_server.js.                                    *)
(*                                                                         *)
(* A FastServer serves the connections that a net server hands it.  Each   *)
(* connection has a table of pending requests and one message encoder that *)
(* all responses go through.  A request is a pipeline of streams           *)
(*                                                                         *)
(*   handler -> context -> encoder (of the request) -> fc_msgencoder       *)
(*                                                  (of the connection)    *)
(*           -> socket                                                     *)
(*                                                                         *)
(* whose stages run one object per turn of the event loop, so handlers,    *)
(* sockets, close() and messages interleave with every stage.  When a      *)
(* connection fails the pipelines of its requests are cut and redirected   *)
(* to a NullSink, and the connection stays until every handler is done.    *)
(*                                                                         *)
(* An assertion that fails, or an 'error' event nobody listens for, ends   *)
(* the process: `crashed` says what of.  Four events end it that the code  *)
(* or its comments expect and mean to handle; `Surprises` are those of     *)
(* them that may happen.  Connections are never reused, as FS_MAX_CONNID   *)
(* connections come and go before an id is.                                *)
(***************************************************************************)
EXTENDS Integers, FiniteSets, Sequences

CONSTANTS
    Conns,          \* connections
    CallIds,         \* message ids clients use
    None,           \* no request, no connection
    Callbacks,      \* callbacks given to onConnsDestroyed()
    EncoderRoom,    \* messages fc_msgencoder buffers before pipes into it wait
    MaxMsgs,        \* bound: messages sent by the clients
    MaxWrites,      \* bound: objects written by a handler
    Surprises       \* events the code does not survive that may happen

\* A 'connection' after close(); an 'end' after 'error' (Node issue 6083); an
\* 'error' of a socket that was destroyed, when it is written to (Node before
\* version 14); and input that the decoder rejects.
AllSurprises == {"late connection", "late end", "late error", "invalid input"}

ASSUME ServerAssumption ==
    /\ IsFiniteSet(Conns) /\ IsFiniteSet(CallIds)
    /\ EncoderRoom \in Nat \ {0} /\ MaxMsgs \in Nat /\ MaxWrites \in Nat
    /\ None \notin Conns \cup CallIds \cup Nat
    /\ Surprises \subseteq AllSurprises

\* FastRpcServerRequest objects, in the order they are made.
Reqs == 1 .. MaxMsgs

VARIABLES
    \* FastServer
    fs_conns, fs_closed, fs_nrequests_started,
    fs_conns_destroyed_callbacks,
    \* FastRpcConnection
    fc_pending, fc_nstarted, fc_ncompleted,
    fc_ended, fc_socket_error, fc_server_error, fc_draining,
    fc_msgencoder,
    fc_piped,           \* connections whose fc_msgencoder is piped to the socket
    \* FastRpcServerRequest and its pipeline
    fsr_state, fsr_conn, fsr_msgid,
    fsr_blackhole,      \* requests redirected to a NullSink
    fsr_context,        \* objects written, not yet transformed
    fsr_encoder,        \* messages made, not yet in fc_msgencoder
    flushed,            \* requests whose encoder has seen the end
    \* what RPC handlers, clients and sockets do
    handler, nwritten,
    accepted, sock_open,
    inbound, nmsgs,
    wire,               \* per request: its messages written to the socket
    \* event loop
    immediates, asked, called, crashed

connVars    == <<fc_ended, fc_socket_error, fc_server_error, fc_piped>>
drainVars   == <<fs_conns, fc_draining, sock_open,
                 fs_conns_destroyed_callbacks, immediates>>
tableVars   == <<fs_nrequests_started, fc_pending, fc_nstarted, fc_ncompleted,
                 fsr_state, fsr_conn, fsr_msgid>>
pipeVars    == <<fsr_blackhole, fsr_context, fsr_encoder, flushed>>
outVars     == <<fc_msgencoder, wire>>
handlerVars == <<handler, nwritten>>
inVars      == <<accepted, inbound, nmsgs>>
apiVars     == <<fs_closed, asked, called>>
vars == <<connVars, drainVars, tableVars, pipeVars, outVars, handlerVars,
          inVars, apiVars, crashed>>

\* What a client's message is to onMessage(): an RPC call, a DATA message that
\* is no valid call (ill-formed, or of an unknown method), an END, or an ERROR
\* (old clients' way to cancel).
Kinds  == {"call", "badcall", "end", "error"}
States == {"none", "RUNNING", "COMPLETE"}
Status == {"data", "end", "error"}

\* The parts of TypeOK follow what the variables are about.
ConnTypeOK ==
    /\ {fs_conns, accepted, sock_open} \subseteq SUBSET Conns
    /\ {fc_ended, fc_socket_error, fc_server_error, fc_draining, fc_piped}
            \subseteq SUBSET Conns

TableTypeOK ==
    /\ fs_nrequests_started \in Nat
    /\ fc_pending \in [Conns -> [CallIds -> Reqs \cup {None}]]
    /\ fc_nstarted \in [Conns -> Nat] /\ fc_ncompleted \in [Conns -> Nat]
    /\ fsr_state \in [Reqs -> States]
    /\ fsr_conn \in [Reqs -> Conns \cup {None}]
    /\ fsr_msgid \in [Reqs -> CallIds \cup {None}]

PipeTypeOK ==
    /\ fsr_blackhole \subseteq Reqs /\ flushed \subseteq Reqs
    /\ fsr_context \in [Reqs -> Nat]
    /\ fsr_encoder \in [Reqs -> Seq({"data", "end"})]
    /\ handler \in [Reqs -> {"none", "running", "ended", "finished", "failed"}]
    /\ nwritten \in [Reqs -> Nat]

OutTypeOK ==
    /\ fc_msgencoder \in [Conns -> Seq([req : Reqs, status : Status])]
    /\ wire \in [Reqs -> Seq(Status)]

InputTypeOK ==
    /\ inbound \in [Conns -> Seq([kind : Kinds, msgid : CallIds \cup {None}])]
    /\ nmsgs \in Nat

ApiTypeOK ==
    /\ fs_closed \in BOOLEAN
    /\ crashed \in {"no", "assertion"} \cup Surprises
    /\ {fs_conns_destroyed_callbacks, immediates, asked, called}
            \subseteq Seq(Callbacks)

TypeOK ==
    /\ ConnTypeOK /\ TableTypeOK /\ PipeTypeOK /\ OutTypeOK /\ InputTypeOK
    /\ ApiTypeOK

Init ==
    /\ fs_conns = {} /\ fs_closed = FALSE /\ fs_nrequests_started = 0
    /\ fs_conns_destroyed_callbacks = <<>>
    /\ fc_pending = [c \in Conns |-> [id \in CallIds |-> None]]
    /\ fc_nstarted = [c \in Conns |-> 0] /\ fc_ncompleted = [c \in Conns |-> 0]
    /\ fc_ended = {} /\ fc_socket_error = {} /\ fc_server_error = {}
    /\ fc_draining = {} /\ fc_piped = {}
    /\ fc_msgencoder = [c \in Conns |-> <<>>]
    /\ fsr_state = [r \in Reqs |-> "none"]
    /\ fsr_conn = [r \in Reqs |-> None] /\ fsr_msgid = [r \in Reqs |-> None]
    /\ fsr_blackhole = {} /\ flushed = {}
    /\ fsr_context = [r \in Reqs |-> 0]
    /\ fsr_encoder = [r \in Reqs |-> <<>>]
    /\ handler = [r \in Reqs |-> "none"] /\ nwritten = [r \in Reqs |-> 0]
    /\ accepted = {} /\ sock_open = {}
    /\ inbound = [c \in Conns |-> <<>>] /\ nmsgs = 0
    /\ wire = [r \in Reqs |-> <<>>]
    /\ immediates = <<>> /\ asked = <<>> /\ called = <<>>
    /\ crashed = "no"
-----------------------------------------------------------------------------
PendingOf(pending, c) == {pending[c][id] : id \in CallIds} \ {None}

\* An assertion threw, or an 'error' event had no listener.
Crash(cause) ==
    /\ crashed' = cause
    /\ UNCHANGED <<connVars, drainVars, tableVars, pipeVars, outVars,
                   handlerVars, inVars, apiVars>>

\* Faulty variant: one callback per drain.
ReleaseFirstCallback ==
    LET n == IF fs_conns_destroyed_callbacks = <<>> THEN 0 ELSE 1
    IN  /\ immediates' = immediates \o SubSeq(fs_conns_destroyed_callbacks, 1, n)
        /\ fs_conns_destroyed_callbacks' =
                SubSeq(fs_conns_destroyed_callbacks, n + 1,
                       Len(fs_conns_destroyed_callbacks))

\* Faulty variant: the list of callbacks is scheduled as if it were one.
ReleaseCallbackList ==
    /\ immediates' = Append(immediates, fs_conns_destroyed_callbacks)
    /\ fs_conns_destroyed_callbacks' = <<>>

\* The last connection removed releases the callbacks that wait for it.
ReleaseCallbacks ==
    /\ immediates' = immediates \o fs_conns_destroyed_callbacks
    /\ fs_conns_destroyed_callbacks' = <<>>

\* Faulty variant: connections are removed with their requests still running.
ConnDrainAtOnce(C, pending, destroyed) ==
    /\ fs_conns' = fs_conns \ C
    /\ sock_open' = sock_open \ (C \cup destroyed)
    /\ UNCHANGED fc_draining
    /\ IF C # {} /\ fs_conns' = {} THEN ReleaseCallbacks
       ELSE UNCHANGED <<immediates, fs_conns_destroyed_callbacks>>

\* connDrain() of each connection of C, when `pending` is the table: those with
\* nothing pending are removed, the others wait.  destroyed are the sockets the
\* caller destroys anyway.
ConnDrain(C, pending, destroyed) ==
    LET drained == {c \in C : PendingOf(pending, c) = {}}
    IN  /\ fs_conns' = fs_conns \ drained
        /\ fc_draining' = fc_draining \cup (C \ drained)
        /\ sock_open' = sock_open \ (drained \cup destroyed)
        /\ IF drained # {} /\ fs_conns' = {} THEN ReleaseCallbacks
           ELSE UNCHANGED <<immediates, fs_conns_destroyed_callbacks>>

\* connDrain() asserts that the connection is known and its counts agree.
DrainAsserts(C, pending, nstarted, ncompleted) ==
    \A c \in C :
        /\ c \in fs_conns
        /\ IF PendingOf(pending, c) = {} THEN nstarted[c] = ncompleted[c]
           ELSE nstarted[c] > ncompleted[c]

\* requestDisconnect() of R: cut the pipeline at both ends of the request's
\* encoder, whose 'end' no longer counts, and pour the context into a NullSink.
RequestDisconnect(R) ==
    /\ fsr_blackhole' = fsr_blackhole \cup R
    /\ fsr_context' = [r \in Reqs |-> IF r \in R THEN 0 ELSE fsr_context[r]]
    /\ fsr_encoder' = [r \in Reqs |-> IF r \in R THEN <<>> ELSE fsr_encoder[r]]
    /\ UNCHANGED flushed

\* Faulty variant: connections that terminate destroy the socket and nothing else.
NoRequestOf(C) == {}

\* The requests connDisconnectRequests() finds.
RequestsOf(C) == UNION {PendingOf(fc_pending, c) : c \in C}

\* connDisconnectRequests() and connDrain() of every connection of C.
AbandonConns(C) ==
    /\ RequestDisconnect(RequestsOf(C))
    /\ ConnDrain(C, fc_pending, C)

AbandonAsserts(C) ==
    /\ DrainAsserts(C, fc_pending, fc_nstarted, fc_ncompleted)
    /\ \A r \in RequestsOf(C) : fsr_state[r] = "RUNNING" /\ r \notin fsr_blackhole

\* connTerminate(), unless the connection is already being torn down.
ConnTerminate(C) ==
    LET fresh == C \ (fc_server_error \cup fc_socket_error)
    IN  /\ fc_server_error' = fc_server_error \cup fresh
        /\ AbandonConns(fresh)
        /\ UNCHANGED <<fc_ended, fc_socket_error, fc_piped>>

TerminateAsserts(C) == AbandonAsserts(C \ (fc_server_error \cup fc_socket_error))

\* The table without r, and the counts of its connection with r completed.
Without(r)   == [fc_pending EXCEPT ![fsr_conn[r]][fsr_msgid[r]] = None]
Completed(c) == [fc_ncompleted EXCEPT ![c] = @ + 1]

\* Faulty variant: a connection goes when its last request completes.
AlwaysDraining(r) == {fsr_conn[r]}

\* Faulty variant: nobody looks whether the connection was waiting for r.
NeverDraining(r) == {}

\* The connection of r, when it waits for its requests.
Draining(r) == {fsr_conn[r]} \cap fc_draining

\* requestCleanup(): r leaves the table; a draining connection may be done.
RequestCleanup(r) ==
    /\ fsr_state' = [fsr_state EXCEPT ![r] = "COMPLETE"]
    /\ fc_pending' = Without(r)
    /\ fc_ncompleted' = Completed(fsr_conn[r])
    /\ ConnDrain(Draining(r), Without(r), {})
    /\ UNCHANGED <<fs_nrequests_started, fc_nstarted, fsr_conn, fsr_msgid>>

CleanupAsserts(r) ==
    /\ fc_pending[fsr_conn[r]][fsr_msgid[r]] = r
    /\ DrainAsserts(Draining(r), Without(r), fc_nstarted,
                    Completed(fsr_conn[r]))
-----------------------------------------------------------------------------
(* Connections *)

\* connCreate().  After close() it calls connTerminate() with the error in
\* place of the connection, which that asserts is one.
ConnCreate(c) ==
    /\ crashed = "no"
    /\ c \notin accepted /\ (fs_closed => "late connection" \in Surprises)
    /\ IF fs_closed THEN Crash("late connection")
       ELSE /\ fs_conns' = fs_conns \cup {c}
            /\ fc_piped' = fc_piped \cup {c}
            /\ accepted' = accepted \cup {c}
            /\ sock_open' = sock_open \cup {c}
            /\ UNCHANGED <<fc_ended, fc_socket_error, fc_server_error,
                           fc_draining, fs_conns_destroyed_callbacks,
                           immediates, tableVars, pipeVars, outVars,
                           handlerVars, inbound, nmsgs, apiVars, crashed>>

\* Why the listener of a socket event on c throws: c was removed before, or else
\* an assertion about the state it finds.
Cause(c, surprise) ==
    IF c \in fs_conns \cup sock_open THEN "assertion" ELSE surprise

\* onConnectionEnd(): let the pending requests finish.
OnConnectionEnd(c) ==
    /\ crashed = "no"
    /\ c \notin fc_ended
    /\ c \in sock_open \/ (c \in fc_socket_error /\ "late end" \in Surprises)
    /\ IF c \in fs_conns /\ (c \in fc_socket_error \/
            DrainAsserts({c}, fc_pending, fc_nstarted, fc_ncompleted))
       THEN /\ IF c \in fc_socket_error THEN UNCHANGED <<fc_ended, drainVars>>
               ELSE /\ fc_ended' = fc_ended \cup {c}
                    /\ ConnDrain({c}, fc_pending, {})
            /\ UNCHANGED <<fc_socket_error, fc_server_error, fc_piped, tableVars,
                           pipeVars, outVars, handlerVars, inVars, apiVars,
                           crashed>>
       ELSE Crash(Cause(c, "late end"))

\* fc_msgencoder writes to the destroyed socket of c, for pipe() tells it only
\* with 'close': a message behind the one in its hands, on its next turn; or the
\* ERROR of a request that was cut off, at once.
WritesToDestroyed(c) ==
    /\ c \in fc_piped \ sock_open
    /\ \/ Len(fc_msgencoder[c]) > 1
       \/ \E i \in 1 .. Len(fc_msgencoder[c]) :
             /\ fc_msgencoder[c][i].req \in fsr_blackhole
             /\ fc_msgencoder[c][i].status = "error"

\* onConnectionError(): cut the pending requests off, unless connTerminate() has.
\* pipe() takes a socket that emits 'error' off fc_msgencoder.
OnConnectionError(c) ==
    /\ crashed = "no"
    /\ \/ c \in sock_open
       \/ c \in fs_conns \cap fc_server_error \cap fc_piped
       \/ WritesToDestroyed(c) /\ "late error" \in Surprises
    /\ IF c \in fs_conns \ fc_socket_error
             /\ AbandonAsserts({c} \ fc_server_error)
       THEN /\ fc_socket_error' = fc_socket_error \cup {c}
            /\ fc_piped' = fc_piped \ {c}
            /\ AbandonConns({c} \ fc_server_error)
            /\ UNCHANGED <<fc_ended, fc_server_error, tableVars, outVars,
                           handlerVars, inVars, apiVars, crashed>>
       ELSE Crash(Cause(c, "late error"))

\* 'close' of a destroyed socket, at which pipe() takes it off fc_msgencoder.
SocketClosed(c) ==
    /\ crashed = "no"
    /\ c \in fc_piped \ sock_open
    /\ fc_piped' = fc_piped \ {c}
    /\ UNCHANGED <<fc_ended, fc_socket_error, fc_server_error, drainVars,
                   tableVars, pipeVars, outVars, handlerVars, inVars, apiVars,
                   crashed>>

\* close(): terminate every connection.
Close ==
    /\ crashed = "no"
    /\ ~fs_closed
    /\ IF TerminateAsserts(fs_conns)
       THEN /\ fs_closed' = TRUE
            /\ ConnTerminate(fs_conns)
            /\ UNCHANGED <<tableVars, outVars, handlerVars, inVars, asked,
                           called, crashed>>
       ELSE Crash("assertion")

\* onConnsDestroyed()
OnConnsDestroyed(callback) ==
    /\ crashed = "no"
    /\ \A i \in 1 .. Len(asked) : asked[i] # callback
    /\ asked' = Append(asked, callback)
    /\ IF fs_conns = {}
       THEN /\ immediates' = Append(immediates, callback)
            /\ UNCHANGED fs_conns_destroyed_callbacks
       ELSE /\ fs_conns_destroyed_callbacks' =
                    Append(fs_conns_destroyed_callbacks, callback)
            /\ UNCHANGED immediates
    /\ UNCHANGED <<connVars, fs_conns, fc_draining, sock_open, tableVars,
                   pipeVars, outVars, handlerVars, inVars, fs_closed, called,
                   crashed>>

RunImmediate ==
    /\ crashed = "no"
    /\ immediates # <<>>
    /\ called' = Append(called, Head(immediates))
    /\ immediates' = Tail(immediates)
    /\ UNCHANGED <<connVars, fs_conns, fc_draining, sock_open,
                   fs_conns_destroyed_callbacks, tableVars, pipeVars, outVars,
                   handlerVars, inVars, fs_closed, asked, crashed>>
-----------------------------------------------------------------------------
(* Messages: onMessage() *)

\* The next message queued for the handler from connection c.
Message(c) == Head(inbound[c])

TakesMessage(c) ==
    /\ crashed = "no"
    /\ inbound[c] # <<>>
    /\ inbound' = [inbound EXCEPT ![c] = Tail(@)]
    /\ UNCHANGED <<accepted, nmsgs, apiVars, handlerVars, wire>>

\* Messages of an unknown or abandoned connection are dropped.
Operational(c) == c \in fs_conns \ (fc_ended \cup fc_socket_error)

\* Faulty variant: a message id may be used again before its request completes.
NoDuplicate(c) == FALSE

Duplicate(c) ==
    Message(c).kind \in {"call", "badcall"} /\
    fc_pending[c][Message(c).msgid] # None

DropMessage(c) ==
    /\ TakesMessage(c)
    /\ ~Operational(c) \/ Message(c).kind = "error"
    /\ UNCHANGED <<connVars, drainVars, tableVars, pipeVars, fc_msgencoder,
                   crashed>>

\* An END, or a message id that is still in use, is a protocol error.
RejectMessage(c) ==
    /\ TakesMessage(c)
    /\ Operational(c)
    /\ Message(c).kind = "end" \/ Duplicate(c)
    /\ IF TerminateAsserts({c})
       THEN /\ ConnTerminate({c})
            /\ UNCHANGED <<tableVars, fc_msgencoder, crashed>>
       ELSE /\ crashed' = "assertion"
            /\ UNCHANGED <<connVars, drainVars, tableVars, pipeVars,
                           fc_msgencoder>>

\* A new FastRpcServerRequest, in `state`.
NewRequest(c, state) ==
    LET r == fs_nrequests_started + 1
    IN  /\ fs_nrequests_started' = r
        /\ fc_nstarted' = [fc_nstarted EXCEPT ![c] = @ + 1]
        /\ fsr_state' = [fsr_state EXCEPT ![r] = state]
        /\ fsr_conn' = [fsr_conn EXCEPT ![r] = c]
        /\ fsr_msgid' = [fsr_msgid EXCEPT ![r] = Message(c).msgid]

\* A call that is ill-formed or of an unknown method fails as soon as it is
\* made: requestFail(), and requestCleanup() with nothing else changed.
RejectCall(c) ==
    LET nstarted == [fc_nstarted EXCEPT ![c] = @ + 1]
        C == {c} \cap fc_draining
    IN  /\ TakesMessage(c)
        /\ Operational(c)
        /\ Message(c).kind = "badcall" /\ ~Duplicate(c)
        /\ IF DrainAsserts(C, fc_pending, nstarted, Completed(c))
           THEN /\ NewRequest(c, "COMPLETE")
                /\ fc_ncompleted' = Completed(c)
                /\ fc_msgencoder' = [fc_msgencoder EXCEPT ![c] =
                        Append(@, [req |-> fs_nrequests_started + 1,
                                   status |-> "error"])]
                /\ ConnDrain(C, fc_pending, {})
                /\ UNCHANGED <<connVars, fc_pending, pipeVars, crashed>>
           ELSE /\ crashed' = "assertion"
                /\ UNCHANGED <<connVars, drainVars, tableVars, pipeVars,
                               fc_msgencoder>>

\* Any other call: its handler starts running.
StartCall(c) ==
    /\ crashed = "no"
    /\ inbound[c] # <<>>
    /\ Operational(c)
    /\ Message(c).kind = "call" /\ ~Duplicate(c)
    /\ NewRequest(c, "RUNNING")
    /\ fc_pending' = [fc_pending EXCEPT ![c][Message(c).msgid] =
                                fs_nrequests_started + 1]
    /\ handler' = [handler EXCEPT ![fs_nrequests_started + 1] = "running"]
    /\ inbound' = [inbound EXCEPT ![c] = Tail(@)]
    /\ UNCHANGED <<connVars, drainVars, fc_ncompleted, pipeVars, outVars,
                   nwritten, accepted, nmsgs, apiVars, crashed>>
-----------------------------------------------------------------------------
(* RPC handlers: the functional interface of fsr_context.  After end() a    *)
(* handler uses it no more; after fail() what it is fed by may still write.  *)

HandlerWrite(r) ==
    /\ crashed = "no"
    /\ handler[r] \in {"running", "failed"} /\ nwritten[r] < MaxWrites
    /\ nwritten' = [nwritten EXCEPT ![r] = @ + 1]
    /\ fsr_context' = IF r \in fsr_blackhole THEN fsr_context
                      ELSE [fsr_context EXCEPT ![r] = @ + 1]
    /\ UNCHANGED <<connVars, drainVars, tableVars, fsr_blackhole, fsr_encoder,
                   flushed, outVars, handler, inVars, apiVars, crashed>>

HandlerEnd(r) ==
    /\ crashed = "no"
    /\ handler[r] = "running"
    /\ handler' = [handler EXCEPT ![r] = "ended"]
    /\ UNCHANGED <<connVars, drainVars, tableVars, pipeVars, outVars, nwritten,
                   inVars, apiVars, crashed>>

\* Faulty variant: requestFail() leaves the request's encoder piped.
StillPiped(r) == fsr_encoder

\* The encoders with r's unpiped: what it holds goes nowhere.
Unpiped(r) == [fsr_encoder EXCEPT ![r] = <<>>]

\* context.fail() is requestFail(): the ERROR overtakes what is still in the
\* pipeline.
HandlerFail(r) ==
    /\ crashed = "no"
    /\ handler[r] = "running"
    /\ IF CleanupAsserts(r)
       THEN /\ fc_msgencoder' = [fc_msgencoder EXCEPT ![fsr_conn[r]] =
                                   Append(@, [req |-> r, status |-> "error"])]
            /\ fsr_encoder' = Unpiped(r)
            /\ handler' = [handler EXCEPT ![r] = "failed"]
            /\ RequestCleanup(r)
            /\ UNCHANGED <<connVars, fsr_blackhole, fsr_context, flushed, wire,
                           nwritten, inVars, apiVars, crashed>>
       ELSE Crash("assertion")
-----------------------------------------------------------------------------
(* The response pipeline *)

\* FastRpcResponseEncoder._transform(): an object becomes a DATA message,
\* unless the request is over.
Transform(r) ==
    /\ crashed = "no"
    /\ fsr_context[r] > 0
    /\ fsr_context' = [fsr_context EXCEPT ![r] = @ - 1]
    /\ fsr_encoder' = IF fsr_state[r] # "RUNNING" THEN fsr_encoder
                      ELSE [fsr_encoder EXCEPT ![r] = Append(@, "data")]
    /\ UNCHANGED <<connVars, drainVars, tableVars, fsr_blackhole, flushed,
                   outVars, handlerVars, inVars, apiVars, crashed>>

\* Faulty variant: the end overtakes what was written.
DrainedAnyway(r) == TRUE

Drained(r) == fsr_context[r] = 0

\* _flush(), when the handler has ended the context and it is drained.
Flush(r) ==
    /\ crashed = "no"
    /\ handler[r] = "ended" /\ Drained(r)
    /\ r \notin fsr_blackhole \cup flushed
    /\ flushed' = flushed \cup {r}
    /\ fsr_encoder' = IF fsr_state[r] # "RUNNING" THEN fsr_encoder
                      ELSE [fsr_encoder EXCEPT ![r] = Append(@, "end")]
    /\ UNCHANGED <<connVars, drainVars, tableVars, fsr_blackhole, fsr_context,
                   outVars, handlerVars, inVars, apiVars, crashed>>

\* The pipe from the request's encoder to the connection's waits for room.
Pipe(r) ==
    LET c == fsr_conn[r] IN
    /\ crashed = "no"
    /\ fsr_encoder[r] # <<>>
    /\ Len(fc_msgencoder[c]) < EncoderRoom
    /\ fc_msgencoder' = [fc_msgencoder EXCEPT ![c] =
                            Append(@, [req |-> r,
                                       status |-> Head(fsr_encoder[r])])]
    /\ fsr_encoder' = [fsr_encoder EXCEPT ![r] = Tail(@)]
    /\ UNCHANGED <<connVars, drainVars, tableVars, fsr_blackhole, fsr_context,
                   flushed, wire, handlerVars, inVars, apiVars, crashed>>

\* Faulty variant: requestDisconnect() moves no listener to the NullSink.
EndOfEncoder(r) == r \in flushed /\ fsr_encoder[r] = <<>>

\* Where fsr_docomplete listens: 'end' of the encoder, once END is handed on,
\* or after a disconnect 'finish' of the NullSink.
EndReachesServer(r) ==
    IF r \in fsr_blackhole THEN TRUE
    ELSE r \in flushed /\ fsr_encoder[r] = <<>>

\* requestComplete(), which asserts that the request is still running.
RequestComplete(r) ==
    /\ crashed = "no"
    /\ handler[r] = "ended"
    /\ EndReachesServer(r)
    /\ IF fsr_state[r] = "RUNNING" /\ CleanupAsserts(r)
       THEN /\ handler' = [handler EXCEPT ![r] = "finished"]
            /\ RequestCleanup(r)
            /\ UNCHANGED <<connVars, pipeVars, outVars, nwritten, inVars,
                           apiVars, crashed>>
       ELSE Crash("assertion")

\* fc_msgencoder's next message is written to the socket.
SocketWrite(c) ==
    LET m == Head(fc_msgencoder[c]) IN
    /\ crashed = "no"
    /\ c \in sock_open
    /\ fc_msgencoder[c] # <<>>
    /\ wire' = [wire EXCEPT ![m.req] = Append(@, m.status)]
    /\ fc_msgencoder' = [fc_msgencoder EXCEPT ![c] = Tail(@)]
    /\ UNCHANGED <<connVars, drainVars, tableVars, pipeVars, handlerVars,
                   inVars, apiVars, crashed>>
-----------------------------------------------------------------------------
(* Clients: a message reaches the server's decoder.                        *)

ClientSends(c) ==
    /\ crashed = "no"
    /\ c \in sock_open \ fc_ended
    /\ nmsgs < MaxMsgs
    /\ \E kind \in Kinds :
       \E id \in IF kind \in {"call", "badcall"} THEN CallIds ELSE {None} :
          inbound' = [inbound EXCEPT ![c] =
                         Append(@, [kind |-> kind, msgid |-> id])]
    /\ nmsgs' = nmsgs + 1
    /\ UNCHANGED <<connVars, drainVars, tableVars, pipeVars, outVars,
                   handlerVars, accepted, apiVars, crashed>>

\* The decoder rejects what it was sent, or the end in the middle of a message:
\* fc_rawdecoder emits an 'error' that nobody listens for.
InputFails(c) ==
    /\ crashed = "no"
    /\ "invalid input" \in Surprises
    /\ c \in sock_open \cup fc_ended
    /\ Crash("invalid input")
-----------------------------------------------------------------------------
OnMessage(c) ==
    DropMessage(c) \/ RejectMessage(c) \/ RejectCall(c) \/ StartCall(c)

PipelineStep(r) ==
    Transform(r) \/ Flush(r) \/ Pipe(r) \/ RequestComplete(r)

Next ==
    \/ Close \/ RunImmediate
    \/ \E callback \in Callbacks : OnConnsDestroyed(callback)
    \/ \E c \in Conns :
        \/ ConnCreate(c) \/ OnConnectionEnd(c) \/ OnConnectionError(c)
        \/ SocketClosed(c) \/ OnMessage(c)
        \/ SocketWrite(c) \/ ClientSends(c) \/ InputFails(c)
    \/ \E r \in Reqs :
        \/ HandlerWrite(r) \/ HandlerEnd(r) \/ HandlerFail(r)
        \/ PipelineStep(r)

Spec == Init /\ [][Next]_vars

\* The event loop handles queued messages and runs the streams and immediates;
\* RPC handlers end or fail at last ("very bounded in size anyway",
\* requestDisconnect()); a client whose socket is open keeps reading.
Fairness ==
    /\ WF_vars(RunImmediate)
    /\ \A c \in Conns : WF_vars(OnMessage(c)) /\ WF_vars(SocketWrite(c))
    /\ \A r \in Reqs : WF_vars(PipelineStep(r))
                      /\ WF_vars(HandlerEnd(r) \/ HandlerFail(r))

FairSpec == Spec /\ Fairness

\* The event loop has nothing to do: no message waits, every handler is done,
\* every destroyed socket has said so, and of a response that is not over there
\* is only what its connection has no room for.
AtRest ==
    /\ crashed = "no"
    /\ immediates = <<>> /\ fc_piped \subseteq sock_open
    /\ \A c \in Conns :
          inbound[c] = <<>> /\ (c \in sock_open => fc_msgencoder[c] = <<>>)
    /\ \A r \in Reqs :
          /\ handler[r] # "running" /\ fsr_context[r] = 0
          /\ handler[r] = "ended" =>
                r \in flushed \ fsr_blackhole /\ fsr_encoder[r] # <<>>
          /\ fsr_encoder[r] # <<>> => Len(fc_msgencoder[fsr_conn[r]]) >= EncoderRoom
-----------------------------------------------------------------------------
(* Safety *)

\* No step trips one of the server's assertions, and nothing but the surprises
\* ends the process: where there are none, nothing does.
NoAssertionFailure == crashed \in {"no"} \cup Surprises

\* connCreate(): "If we wind up seeing a queued connection, terminate it
\* immediately."  The call has the error where the connection belongs (line 478).
LateConnectionsAreTerminated == crashed # "late connection"

\* onConnectionEnd(): "it's possible to see an 'end' event after having previously
\* seen an 'error' event.  Ignore such events."  The assertion at line 489 comes
\* before the check, and the connection may have been removed at the error.
LateEndsAreIgnored == crashed # "late end"

\* onConnectionError(): an error "can happen after the connection has already read
\* end-of-stream or experienced a protocol-level error".  connDrain() destroys
\* the socket of the connection it removes with messages queued for it, and the
\* error of writing the next meets the assertion at line 514.
LateErrorsAreHandled == crashed # "late error"

\* "We proactively terminate the connection because we've read an invalid Fast
\* protocol message": nobody listens for the decoder's 'error' (line 1063).
InvalidInputIsHandled == crashed # "invalid input"

\* A connection's counts and flags tell what is pending on it: as many requests
\* as were started and not completed; one that drains still waits for a request;
\* one that is removed has none, and its socket is destroyed; a request that was
\* cut off is one whose socket is gone.
ConnsAccounted ==
    \A c \in Conns :
        /\ fc_nstarted[c] - fc_ncompleted[c] = Cardinality(PendingOf(fc_pending, c))
        /\ c \in fc_draining \cap fs_conns => PendingOf(fc_pending, c) # {}
        /\ c \notin fs_conns => c \notin sock_open /\ PendingOf(fc_pending, c) = {}
        /\ \A r \in PendingOf(fc_pending, c) :
              fsr_state[r] = "RUNNING" /\ (r \in fsr_blackhole => c \notin sock_open)

\* The response of r so far is what was written to the socket and then what its
\* connection's encoder holds of it: the places of its messages there.
EncoderOf(r) == IF fsr_conn[r] = None THEN <<>> ELSE fc_msgencoder[fsr_conn[r]]

Places(r) == {i \in 1 .. Len(EncoderOf(r)) : EncoderOf(r)[i].req = r}

ResponseLen(r) == Len(wire[r]) + Cardinality(Places(r))

\* DATA messages only, or none.
AllData(r) ==
    /\ \A i \in 1 .. Len(wire[r]) : wire[r][i] = "data"
    /\ \A i \in Places(r) : EncoderOf(r)[i].status = "data"

\* DATA messages and then one of another status.
ClosedBy(r, status) ==
    \/ /\ Places(r) = {} /\ wire[r] # <<>>
       /\ \A i \in 1 .. Len(wire[r]) :
             wire[r][i] = IF i = Len(wire[r]) THEN status ELSE "data"
    \/ /\ \A i \in 1 .. Len(wire[r]) : wire[r][i] = "data"
       /\ \E last \in Places(r) :
             /\ EncoderOf(r)[last].status = status
             /\ \A i \in Places(r) \ {last} :
                    i < last /\ EncoderOf(r)[i].status = "data"

\* A response is DATA messages and then one END or ERROR and nothing more; a
\* request that was not cut off completes with one; and END comes after every
\* object that the handler wrote.
ResponsesWellFormed ==
    \A r \in Reqs :
        /\ AllData(r) \/ ClosedBy(r, "end") \/ ClosedBy(r, "error")
        /\ fsr_state[r] = "COMPLETE" /\ r \notin fsr_blackhole => ~AllData(r)
        /\ ClosedBy(r, "end") => ResponseLen(r) = nwritten[r] + 1
        /\ ClosedBy(r, "error") => fsr_state[r] = "COMPLETE"

\* The callbacks of onConnsDestroyed() are called in the order they were given,
\* and none waits once the connections are gone.
CallbacksInOrder ==
    /\ asked = called \o immediates \o fs_conns_destroyed_callbacks
    /\ fs_conns = {} => fs_conns_destroyed_callbacks = <<>>

\* A callback of onConnsDestroyed() is released only when all sockets are
\* destroyed and no handler is at work for a connection.
CallbacksAfterTeardown ==
    [][Len(immediates') > Len(immediates) =>
            /\ fs_conns' = {} /\ sock_open' = {}
            /\ \A r \in Reqs : fsr_state'[r] # "RUNNING"]_vars
-----------------------------------------------------------------------------
(* Liveness.  A request that starts on a connection already terminated, which  *)
(* onMessage() does not exclude, is not cut off.  When fc_msgencoder has no    *)
(* room for its response it never completes: the socket takes no more.         *)

StartedAfterTermination(r) ==
    /\ fsr_state[r] = "RUNNING" /\ r \notin fsr_blackhole
    /\ fsr_conn[r] \in fc_server_error

\* A connection that was ended, failed or terminated is removed at last.
ConnectionsAreRemoved ==
    \A c \in Conns :
        c \in fc_ended \cup fc_socket_error \cup fc_server_error ~>
            \/ c \notin fs_conns
            \/ \E r \in PendingOf(fc_pending, c) : StartedAfterTermination(r)

\* After close() every callback of onConnsDestroyed() is called.
CloseReleasesCallbacks ==
    fs_closed /\ asked # <<>> ~>
        \/ called = asked
        \/ \E r \in Reqs : StartedAfterTermination(r)
=============================================================================
