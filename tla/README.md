# A verification project for node-fast

node-fast is a messaging library: a client makes RPC calls over a transport, a
server runs handlers that answer with a stream of objects, and several calls
share one connection. The code is small, single-threaded and driven by events;
what is hard about it is order. A request can be answered, abandoned, timed out,
detached and cut off by a dead transport, all in any order, and two tables, a few
flags and a pair of counters have to agree whatever comes first. The modules here
model that control and leave bytes and wording out.

Contents: the inventory; the modules; how state and actions correspond to the
code; the runs and what they show; bounds; fairness; what is proved and how;
where code and documents disagree; what is not modelled; the plan.

## 1. Inventory

### Client: `lib/fast_client.js`, `lib/fast_client_request.js`

*State.* `fc_pending` and `fc_abandoned` map message ids to requests;
`fc_nrpc_started` and `fc_nrpc_done` count them; `fc_error`, `fc_detached` and
`fc_transport_ended` are three separate ways to have lost the transport. A
request has `frq_done_graceful`, `frq_abandoned`, `frq_error` and a timer.

*Operations.* `rpc`, `detach`, `request.abandon` and the request's stream for the
caller; `onMessage`, the decoder's `error` and `end`, the transport's `error`, the
timer and the deferred `error` for the event loop.

*Interactions.* The encoder and decoder are piped to a transport the client does
not own. Ids come from an `IdAllocator` that asks the client which are in use.
The caller is called from two places in the middle of a handler: `fatalError()`
emits `error` before it abandons the requests, and `requestEmitData()` pushes a
message's objects one after the other.

*Hard.* Late answers to abandoned requests; a timer racing an answer; callers
acting from inside those two callbacks; end-of-stream being an error or not by a
comparison of counters; the `error` event deferred by `setImmediate()`.

*Correct when* a request ends with exactly one `end` or `error` and nothing
follows; every answer is taken for the request it answers or ignored; losing the
transport fails everything, now and later; no assertion throws.

### Identifier allocator: `lib/subr.js`

*State.* A cursor. *Operation.* `alloc()` probes from the cursor for an id that
its owner does not hold. *Hard.* The wrap at the end of the range, and a range
that is full. *Correct when* it finds a free id whenever there is one, never one
that is held, and reuses an id as late as it can.

### Server: `lib/fast_server.js`

*State.* `fs_conns`, `fs_closed` and the callbacks of `onConnsDestroyed()`; per
connection `fc_pending`, its counters, three flags for how it is going
(`fc_ended`, `fc_socket_error`, `fc_server_error`) and `fc_draining`; per request
its state and a pipeline of streams, `handler -> context -> encoder ->
fc_msgencoder -> socket`, every stage of which takes a turn of the event loop. A
socket that is destroyed stays at the end of the pipe until it emits `close`.

*Operations.* `connCreate`, the socket's `end` and `error`, `onMessage`, `close`,
`onConnsDestroyed`; `write`, `end` and `fail` for handlers.

*Hard.* A connection that goes must wait for its handlers, which cannot be
cancelled: their pipelines are cut and poured into a `NullSink`. Cuts, completions
and teardown callbacks come in any order.

*Correct when* counts and tables agree; a response is data and then one `END` or
`ERROR`; teardown callbacks come once, in order, after everything is gone, and do
come; whatever clients and sockets do, the process goes on.

### Protocol: `lib/fast_protocol.js`

*State.* The decoder's unparsed bytes and their count, the fields of the header
being read, its error. *Operations.* Encode and decode messages, with two CRC
versions; `_transform`, `_flush`. *Hard.* Messages split over chunks, a header read
twice, a partial message at end-of-stream, errors after good messages. *Correct
when* a stream means the same however it is cut, and its end is always reported.

### Callers: `rpcBufferAndCallback`, `lib/bench.js`

*State.* Per call the objects kept and counted. *Operations.* Listeners for
`data`, `end` and `error`. *Hard.* The stream may fail before, between and after its
objects. *Correct when* there is one callback, when the stream is over, with the
first objects, the count of all and the error.

### Client and server together

They interact through the two byte streams of a connection only. *Hard.* Either end
may go while calls and answers are on their way, queued, running or half sent; ids
are reused by one end while the other still serves them. *Correct when* neither end
takes the other for a violator of the protocol, what a caller is told is what the
handler did, only a connection that goes loses answers, and nobody waits for ever.

### Commands and demo handlers

`fastserve` (with a shutdown that waits for the connections), `fastcall`,
`fastbench` and the handlers of `lib/demo_server.js` use the interfaces above and
keep little state. kang, metrics and DTrace probes only look.

## 2. Modules

| module | what it is |
| --- | --- |
| `IdAllocator` | `alloc()`: the code's loop, and a closed form of it for the other modules |
| `IdPool` | an owner that takes ids and gives them back; the two forms agree |
| `RpcStream` | abstract: what a caller of `rpc()` is promised |
| `RpcCalls` | `rpcBufferAndCallback` and a benchmark's request, over any `RpcStream` |
| `FastClient` | the client, its requests and the peer at the other end |
| `FastServer` | connections, requests, the response pipeline and teardown |
| `FastSystem` | a client and a server at the ends of a connection, and callers |
| `FastDecoder` | encoder and decoder: frames cut into chunks |
| `IdPoolProofs`, `FastClientProofs`, `FastServerProofs`, `RpcCallsProofs`, `FastDecoderProofs` | inductive invariants and theorems of each component |
| `FastClientPromises` | the client with an honest peer, and that it implements `RpcStream` |
| `FastServerResponses` | the response pipeline, stage by stage |
| `FastSystemProofs` | both ends together, on the invariants of either |
| `MCFastClient`, `MCFastServer`, `MCFastSystem`, `MCFastDecoder` | small instances for TLC |
| `MCParts` | the allocator and the decoder side by side: a behaviour is one of either |

`FastClient` instantiates `IdAllocator` with the range of message ids, and
`RpcStream` with a refinement mapping: `StreamPhase(r)` computes the abstract
phase of a request from its flags and the events its caller has seen, `delivered`
is the abstract `emitted`. `RpcCalls` instantiates `RpcStream` too, so what holds
of a caller over the abstract stream holds over every implementation of it.
`FastSystem` extends `FastServer` and instantiates `FastClient` (`C!...`) and
`RpcCalls` over that client's streams (`Calls!...`).

Operators marked "Faulty variant" are bugs that a version of the code could have.
No specification uses them; putting one in the place of the definition that
follows it must break a property, and `PROJECT.json` says which.

## 3. Correspondence with the code

**Steps.** A handler runs to completion on one thread, so an action is a whole
handler: `Detach` sets the flag, unpipes and abandons every request. There are
two exceptions, both in the client, where the code calls out half-way: `running`
then holds the rest (the objects still to be emitted, or `requestAbandonAll()`),
and the caller may act in between. From the client's `error` listener it always
may; from a `data` listener only if the constant `Reentrant` is TRUE.

**Assertions.** Each action evaluates what the code asserts on the state it
finds. If an assertion fails the process is gone: `crashed`, after which nothing
happens. `NoAssertionFailure` therefore says something about every action.

**Client.** `Rpc` (with `RpcSkipped`, `RpcSent`), `Abandon` and `Detach` are the
API; `OnData`, `OnServerError`, `OnAbandonedMessage` and `OnUnknownMsgid` are the
ways through `onMessage()`; `EmitObject`, `SkipNull`, `RejectNull`, `DataDone` and
`EndDone` go through `requestEmitData()` object by object; `OnDecoderError`,
`OnTransportEnd`, `OnTransportError` and `AbandonAll` are `fatalError()`;
`OnRpcTimeout`, `EmitRequestError` and `EmitRequestEnd` are what the event loop
owes each request. A request with a `data` listener (`Flowing`) gives every object
to its caller at once, any other buffers them until `ReadRequest`. `delivered` and
`terminal` record what the caller has seen. `RequestComplete`, `RequestFail` and
`RequestAbandon` take a set of requests: abandoning all is the loop of the code in
one step, for the requests of that loop do not influence one another.

**The peer.** With `HonestPeer` it keeps to the protocol section of the
repository's README: data for requests it has been sent and one `END` or `ERROR`
each. Otherwise it sends anything that the decoder lets through. Either may stop
with an end-of-stream or with bytes that are no message. The field `req` of a
message is history for the properties; no action reads it.

**Server.** `ConnCreate`, `OnConnectionEnd`, `OnConnectionError`, `Close` and
`OnConnsDestroyed` are the functions of these names. `DropMessage`,
`RejectMessage`, `RejectCall` and `StartCall` are the ways through `onMessage()`.
`HandlerWrite`, `HandlerEnd` and `HandlerFail` are the handler; `Transform`,
`Flush`, `Pipe`, `RequestComplete` and `SocketWrite` the stages of the pipeline.
`ConnDrain(C, pending, destroyed)` is `connDrain()` for a set of connections (one,
or all of them for `close()`): `pending` is the table at the time of the call,
`destroyed` are the sockets that the calling function destroys itself. What
JavaScript keeps in objects the model keeps in functions over connections or
requests; requests are numbered in the order they are made. A handler may still be
written to after `fail()`: the pipe of the demo server's `words` goes on.

**Surprises.** Four events end the server's process, although comments or documents
expect them and say how they are dealt with. `Surprises` is the set of those that may
happen in an instance, and `crashed` says which of them it was, or `assertion`:

- `late connection`: a `connection` event after `close()` (`ConnCreate`);
- `late end`: a socket's `end` after its `error` (the Node issue that the code names),
  when the connection has been removed (`OnConnectionEnd`);
- `late error`: an `error` of a socket that `connDrain()` has destroyed with the
  connection, when `fc_msgencoder` writes to it (`OnConnectionError`,
  `WritesToDestroyed`). `connDrain()` does not unpipe, and `pipe()` does so only when the
  socket emits `close` (`SocketClosed`) or `error`: hence one such error at most, and
  `fc_piped`. A message that is alone in an idle encoder is with the socket before the
  connection can be removed (its `setImmediate` was scheduled before that of the
  request's encoder), so what is written late is a message behind another one, or the
  `ERROR` of a request that was cut off. Versions of Node from 14 on do not report such
  writes as `error` any more; the package is of the time before;
- `invalid input`: bytes that `fc_rawdecoder` rejects, or an end of the stream inside a
  message (`InputFails`; in `FastSystem` `CallCut`).

An event that finds the connection still there is no surprise: an `error` after `end`,
after a protocol error or during either teardown must pass the assertions, with or
without the surprises, and if it did not `crashed` would be `assertion`. So
`NoAssertionFailure` says that nothing but a surprise ends the process, and each
surprise has a run of its own that shows how it does (section 7). The passing runs
`server` and `system` let them happen: what a process that ends leaves behind at the
clients is part of `system`.

**System.** The server's variables keep their names, the client's that would clash
have a `c_`. What only one end does (`CallerStep`, `ClientStep`, `ServerStep`,
`ServerMessage`, `ServerUserStep`) is the action of its module; the others are where
the ends meet. `CallArrives` moves a call from the client's encoder to the server's
queue, `AnswerArrives` a message from the server's encoder to the client's decoder:
each encoder stands for everything up to the other end, the socket's buffers included,
and what is in it when a socket is destroyed is lost. `ServerGone` and `ClientGone`
are the end-of-stream, `TransportFails` and `ConnectionFails` the error that an end
may see, and `CallCut` is the end in the middle of a call. When the server's process
has ended its sockets are closed, and the client sees an end or an error. The owner of
the client's transport behaves as `fastcall` and the tests do: it ends its side at any
time, and destroys the socket when the client is done with it. Listeners of `RpcCalls`
run in the step that emits. A behaviour plays in one of the `Worlds`, records of the
calls that may be made and of what else may happen, chosen in the initial state.

**Decoder.** A frame has one cell per header field, whatever the field's width in
bytes, and some cells of data; a chunk is any number of cells up to `MaxChunk`, so
that headers and data are cut everywhere. `DecodeStarts`, `NeedHeader`,
`RejectHeader`, `NeedData`, `Consume` and `Callback` are the stages of `decode()`.
`Json` says what `JSON.parse()` makes of each payload; a checksum is a value that
names the implementation and the data.

## 4. Runs

| run | instance | checks | shows |
| --- | --- | --- | --- |
| `parts`, allocator | 6 ids | `PoolTypeOK`, `LoopFindsFirstFree`, `NeverHandsOutHeldId`, `FullCycleBeforeReuse` | the loop is right from every cursor and for every set of ids in use |
| `parts`, decoder | streams of up to three frames, good and bad, chunks of 1 to 17 cells, fair | `TypeOK`, `NoAssertionFailure`, `DecodesWhatArrived`, `EncodedIsAccepted`, `EndIsReported` | chunking is invisible, errors are found where they are, the end is reported |
| `client_honest` | 3 requests, 2 ids, honest peer, 1 data message | `TypeOK`, `MsgIdFreshAtPeer`, `AnswersFindTheirRequest` | abandoned ids stay taken long enough, and late answers meet their request |
| `client_anypeer` | 2 requests, 2 ids, 2 arbitrary messages with nulls | `NoAssertionFailure`, `PendingAgrees`, `ErrorFailsEverything`, `StreamSafety` | no peer breaks the client's bookkeeping or a request's stream |
| `client_live` | 2 requests, one with a timeout, fair | `ImplementsStream`, `DisconnectedRequestsFinish`, `TimedRequestsFinish` | the client implements `RpcStream`; nobody waits for ever without a transport or past a timeout |
| `server` | 2 connections, 2 ids, 2 messages, 2 callbacks, no objects, all surprises | `TypeOK`, `NoAssertionFailure`, `ConnsAccounted`, `CallbacksInOrder`, `CallbacksAfterTeardown` | teardown in any order trips no assertion, the surprises aside, and keeps accounts and callbacks right |
| `server_live` | 1 connection, 2 ids, 2 messages, 1 callback, fair | `ConnsAccounted`, `ResponsesWellFormed`, `ConnectionsAreRemoved`, `CloseReleasesCallbacks` | requests that share a connection do not harm each other's responses; connections that go are removed, `close()` leads to the callbacks |
| `system` | 1 connection, 2 calls, 2 ids, five worlds, surprises | `SystemTypeOK`, `NoCrash`, `EndsAgree`, `AnswersAreTheHandlers`, `CallbacksCorrect`, `OnlyTeardownLosesAnswers`, `AbandonedUntilAnswered`, `StuckIsSettled`, `NobodyIsLeftWaiting`, `ServerIsHonestPeer` | the two ends and the callers fit together, whatever goes first |
| `client_reentrant`, `server_late_conn`, `server_late_end`, `server_invalid_input`, `system_late_error` | smallest that show it | one property each | section 7 |

**Properties, briefly.** `PendingAgrees`: a request is pending by its flags exactly
when its own id leads to it in `fc_pending`, a timer is armed only for pending
requests, and the counters differ by the number of pending requests.
`ErrorFailsEverything`: at most one client `error`, and once it has been dealt with
nothing is pending, nor ever will be. `MsgIdFreshAtPeer`: a call is never sent with an
id that an honest server still serves. `AnswersFindTheirRequest`: every answer in
flight still meets the request it was made for. `ConnsAccounted`: counts, tables,
flags and sockets of a connection agree. `ResponsesWellFormed`: data, then one `END`
or `ERROR`; an `END` follows all that was written. `CallbacksInOrder`: callbacks
given, scheduled and called form one sequence. `EndsAgree`: an answer in flight meets
the call it was made for, no end sees a violation of the protocol, no call is served
twice. `AnswersAreTheHandlers`: the objects a caller gets were written by the handler
of its call, `end` means all of them. `OnlyTeardownLosesAnswers`: the answer of a
completed request is lost only if the network or the server's process failed or one
end ended the connection. `AbandonedUntilAnswered`: an abandoned call holds its id
only while the server owes it an answer, unless its handler failed or never ran.
`ServerIsHonestPeer`: the server, as its client sees it, implements the honest peer
that `client_honest` and `client_live` assume. `Settled`: both event loops and the
connection have nothing to do. `NobodyIsLeftWaiting`: then every call has had its
callback, the server's process running or not, and a running server has removed a
connection whose client is gone. `StuckIsSettled`: nothing goes on by itself exactly
where the system is settled. `DecodesWhatArrived`: after every chunk the decoder has
pushed exactly the messages that are complete, up to the first wrong one, and has its
error. The comment above each definition gives the full statement.

## 5. Bounds

Ids, requests, connections and callbacks are sets given by the configurations.

- *Two message ids and three requests* is the smallest pool that can be exhausted,
  wrap and reuse an id while another is held by an abandoned request.
- `MaxPeerMsgs` bounds data messages of an honest peer (its `END`s and `ERROR`s are
  bounded by the requests) and all messages of an arbitrary one. Two suffice for an
  answer, a second for the same id, and anything the caller does in between. The
  payload `<<Null, obj>>` has an object after a null, so that going on after a null
  would be seen.
- `MaxMsgs` bounds the messages clients send to the server: two, for a duplicate id,
  two requests on a connection or one on each, or a request and the message that
  terminates its connection. `MaxWrites` is one object per handler, enough for an
  object that is overtaken by `fail()`, and `EncoderRoom` one message, so that the
  pipe into the connection's encoder has to wait.
- Two connections show that callbacks wait for the last one; two callbacks, that
  their order is kept. Two ids let two requests run on one connection at once, so that
  one may be cut off, or its `ERROR` be queued, while the other completes. `server` has
  no objects: they matter to what is in a response, which is what `server_live` is
  about, with one connection; both together would be millions of states.
- `system` has one connection, two ids and two calls: one `rpcBufferAndCallback` that
  keeps one object, and one workload that expects one. In two of its worlds one call
  is made while everything else happens, once without detach, once without `close()`.
  In the others two calls share the connection with data; with abandonment and
  rejection (ids come back in an order of their own); and with a half-close (one
  answer may be lost while the other has arrived). All of it at once would be beyond
  TLC's time. Every surprise may happen but the late connection, after which there
  would be no connection to speak of. Timers and callbacks of `onConnsDestroyed()` are
  left to the runs of each end.
- `parts`: every way a header or a payload can be wrong is a frame of `Bad`, put
  first, after one good frame, and before two more. Chunks of 17 cells hold two
  whole frames and the beginning of a third.

The server's connection ids are not reused in the model: `FS_MAX_CONNID`
connections come and go before one is, and `IdPool` covers the allocator.
Symmetry is used only in runs without liveness properties.

## 6. Fairness

*Client*: weak fairness of the handlers of what is already there (`HandlerStep`),
of an armed timer, of the deferred `error` and of the stream's `end`: node's event
loop runs every ready callback. No fairness is assumed of the caller or the peer,
so `TimedRequestsFinish` holds for servers that never answer.

*Server*: weak fairness of scheduled callbacks, queued messages and pipeline
stages, for the same reason; of each handler's `end()` or `fail()`, which the
comment at `requestDisconnect()` relies on ("Fast RPC requests are intended to be
very bounded in size anyway"); and of writing to an open socket, that is, clients
read. A client that stops reading holds its connection until the socket fails. The fair
run has no surprises: after one there is no event loop to be fair.

`ConnectionsAreRemoved` and `CloseReleasesCallbacks` make one exception,
`StartedAfterTermination`: `onMessage()` does not look at `fc_server_error`, so a
message queued when the connection was terminated starts a request that nobody
cuts off. Its response goes to an encoder whose socket is destroyed; when the
encoder is full the request never completes, and the connection is never removed.

*Decoder*: weak fairness of `decode()` once begun, that is, of the event loop.

*System*: none. Every step consumes something bounded, so all behaviours are finite,
and `NobodyIsLeftWaiting` looks at the states where nothing but a new deed of a user
or the network could follow. These are written out as `Settled`; that they are the
states where no step of `Progress` is enabled is `StuckIsSettled`. This assumes of an
end that is gone that it is found to be gone, as TCP does it, and nothing else of the
network.

## 7. Where code and documents disagree

`PROJECT.json` quotes the text. Five are runs that violate a property:

- `client_reentrant`: abandoning a request from its own `data` listener while an
  `END` with data is emitted to it makes `requestComplete()` throw.
- `server_late_conn` (`LateConnectionsAreTerminated`): for a connection that arrives
  after `close()`, `connCreate()` passes `connTerminate()` the error where the connection
  belongs, which throws.
- `server_late_end` (`LateEndsAreIgnored`): `onConnectionEnd()` means to ignore an `end`
  after an `error`, but asserts first that `fs_conns` has the connection. Unless it waits
  for a handler, the error has removed it.
- `server_invalid_input` (`InvalidInputIsHandled`): the server has no listener for the
  `error` of its decoder, so an invalid message, or a client that goes in the middle of
  one, ends the process instead of the connection.
- `system_late_error` (`LateErrorsAreHandled`): a client makes two calls and ends its
  side. Both handlers fail in one turn; the second `requestCleanup()` removes the
  connection and destroys the socket with the second `ERROR` still queued, and the write
  of it emits the `error` that `onConnectionError()` does not expect. The two callers
  lose their answers as well: after a half-close the server waits for its requests, but
  a request is complete when its answer has been handed to `fc_msgencoder`, and the
  connection goes with whatever is left in there. One call alone does not lose its `END`
  to an idle encoder: the socket has it by then.

One is the exception that a passing property has to make: `AbandonedUntilAnswered`
(`system`) holds of abandoned calls but for those answered with `ERROR`, which the
client ignores. It keeps such a call and its message id until it is disconnected,
although the documentation says "until whenever the request would have otherwise
terminated".

## 8. Proofs

### Client

`FastClientProofs` proves for any finite set of requests, any number of message
ids, any payloads and either kind of peer:

- `TypeCorrect`: `Spec => []TypeOK`;
- `PendingCorrect`: `Spec => []PendingAgrees`;
- `AssertionsNeverFail`: `Spec => []NoAssertionFailure`, if `~Reentrant`. The
  assumption is needed: `client_reentrant` shows what happens without it;
- `ErrorsFailEverything`: `Spec => []ErrorFailsEverything`, without any assumption on
  the caller, who may use the API from the `error` listener;
- `Invariance`: `Spec => []IInv`, from which the others but `ErrorsFailEverything`
  follow.

The assumptions are `ClientAssumption` of `FastClient` (requests are finite, ids
start at 1 and there are two at least, the marker values are outside the sets they
mark), which TLC evaluates in every client run.

*The argument.* `PendingAgrees` is not inductive: that an id leads back to its
request has to be known of every entry of the table, and that a request that was
never issued has no flags set. `IInv` adds

- `PendingById`, `Unasked` and `AbandonedFailed`, which say whose entries
  `fc_pending` and `fc_abandoned` hold and what the flags of those requests are;
- `FrameOK` and `EmitsPending`: the request that a message is being emitted to was
  issued and, unless its caller has interfered, is still pending. This is what the
  assertions of `requestEmitData()` and of `requestComplete()` on `END` rest on.

The operators come first: `alloc()` returns a free id in range (`LeastExists`,
`AllocReturnsFree`), completing a set of requests counts them (`CompleteCounts`).
Then what each group of changes preserves (`AbandonKeeps`, `SentKeeps`,
`SkippedKeeps`, `DoneKeeps`, `GiveBackKeeps`), then one lemma per action, and
`InitHolds` and `StepKeeps` put them together.

`ErrorsFailEverything` has an invariant of its own, `ErrorReported`: the first error
is counted once, and while there is one either `fatalError()` is still running or
nothing is pending. Nearly every step is `Quiet` (it reports nothing and only takes
entries out of `fc_pending`); what is left is `rpc()`, which sends only while there is
no error, `fatalError()` itself, and `requestAbandonAll()`, which empties the table.

`OutcomesReportedAtRest` is the part of `DisconnectedRequestsFinish` that needs no
fairness: a disconnected client that is at rest (`AtRest`: no handler runs, no message
is queued, no timer armed, no event due) has reported the outcome of every request.
`Waits` says why: once disconnected, nothing is pending unless `fatalError()` is about
to abandon it (`GoneClear`), and a request that failed has its `error` event emitted or
scheduled (`ErrorsDue`). `RestMeans` reads the rest off the flags of a request.

`FastClientPromises` proves what the client and its peer do to one another:

- `IdsAreFreshAtPeer` (`MsgIdFreshAtPeer`) and `AnswersArrive`
  (`AnswersFindTheirRequest`), if `HonestPeer`, which is who they are about;
- `StreamsKeepTheirPromise`: `Spec => StreamSafety`, that every step of the client is,
  under the refinement mapping, a step of `RpcStream` or leaves its streams alone.

*The argument for the first two* is `PeerInv` (`PeerInvariance`). For each message id
`Held(id)` is the request that has it, in one table or the other but never in both
(`HeldOnce`). A call still in the encoder (`SentOK`), an id the peer still serves
(`ServedOK`) and an answer on its way (`AnswersOK`) are all for the request that holds
their id; a call in the encoder is the only thing on its way with its id; nothing
follows an `END` or `ERROR` with the same id, in the queue or at the peer, nor while
that `END` is being emitted (`EndingOK`). That last part is why an id may be given
back: `Unused(id)` then holds, so whoever gets it next meets nothing old. An `ERROR`
for an abandoned request keeps its id, which the invariant allows (section 7). Steps
are sorted by what they do to queues and tables: `CalmKeeps` (messages are taken off,
ids stay), `AbandoningKeeps` (entries change tables), `FreeingKeeps` (an id becomes
free), `SentPromise` (a free id is taken), and the peer's own steps.

*The refinement* has the hypotheses `~Reentrant` and `Flowing = Requests`, and needs
both. A caller that abandons a request in its own `data` listener is given the rest of
the message's objects after the outcome is decided; one that reads with `read()` may
read what was buffered after `error`. Neither is in `RpcStream`, which says what the
comment over `rpc()` promises. `StreamOK` ties `terminal` to the flags of a request
and to the deferred `error`; `StreamStep` gives the abstract step for every action.
Callers that read with `read()` are in `client_honest`; that they get what was pushed
before a failure is no property of any document.

The last section is for the system: a client to which nothing more can come knows it,
or has the news in its queue (`StreamOpen`); and a pending request is in the encoder,
at the peer, answered but not taken in, or its `END` is being emitted (`Awaited`).

### Server

`FastServerProofs` proves for any connections, ids, callbacks and numbers of
messages and writes, from `ServerAssumption`:

- `TypeCorrect`, `ConnectionsAccounted`, `CallbacksOrdered`: the run's `TypeOK`,
  `ConnsAccounted` and `CallbacksInOrder`;
- `NoAssertionFails`: `Spec => []NoAssertionFailure`, for every set of `Surprises`:
  nothing else ends the process, and where there are none nothing does;
- `CallbacksWaitForTeardown`: `Spec => CallbacksAfterTeardown`, an action property.

*The argument.* `IInv` adds to them

- `Numbered`: requests started, and messages read but not handled, are no more than
  were sent, so that the number of the next request is within the type;
- `RequestsOK`: a request's state, its connection's `fc_pending` and the connection it
  was started on agree (`Agree`), which is what every assertion about a table
  lookup needs;
- `CutOK`, `KnownOK`: running requests are cut off only on connections that failed or
  were terminated, and only connections that were accepted are known or drain;
- `SocketsOK`: an open socket is piped to and not that of a terminated connection, a
  connection with a socket error is off the pipe, and both kinds were accepted. It
  decides between the two ways a socket's listener may throw: on a connection that is
  there the assertions hold (`ConnectionAsserts`), and on one that is not it is a
  surprise (`Cause`).

`connDrain()` is called from everywhere, so its effects are lemmas of their own
(`DrainTypes`, `DrainKeeps`, `DrainAccounts`, `DrainAssertsHold`, `DrainCallbacks`):
given what its caller has just changed, the tables agree again afterwards. Likewise
`requestCleanup()` (`CleanupPending`, `CleanupAccounts`, `CleanupAssertsHold`) and
`connDisconnectRequests()` (`AbandonAssertsHold`). The actions are then cases of
`StepKeeps`. For `CallbacksAfterTeardown`, `ReleaseSteps` finds the steps that can
release a callback, and `NothingLeft` says that no socket is open and no request
unfinished when `fs_conns` becomes empty.

`NothingIsLeftAtRest` is the part of `ConnectionsAreRemoved` and
`CloseReleasesCallbacks` that needs no fairness: a server at rest (`AtRest`: no queued
message, no running handler, no stage of a pipeline that could move) has removed every
connection that ended, failed or was terminated, and after `close()` called every
callback, but for `StartedAfterTermination`. The invariant `Leaving` says how far a
connection that is to go has come: its socket is destroyed just when it is broken, it
is removed or drains, and its requests are cut off (`LeavingConns`,
`LeavingRequests`). Every action either drains connections (`DrainLeaves`), completes a
request (`CleanupLeaves`), terminates (`TerminateLeaves`) or leaves all this alone.
`RestMeans` then finds what a request that still runs is waiting for: a full encoder
whose socket is destroyed, hence a terminated connection.

`FastServerResponses` adds `ResponsesAreWellFormed`: `Spec => []ResponsesWellFormed`,
for any number of requests that share an encoder, any objects, and ends, failures and
cuts at any moment. `ResponsesWellFormed` looks only at what left a request's own
pipeline, so it is not inductive: the pipeline behind it has to be known. `Stages(r)`
says for each request in which of six stages it is (`NotMade`, `Open`, `Ending`,
`Ended`, `Failed`, `CutOff`), what each of its streams holds there, and that objects
written, in the pipeline and in the response add up to `nwritten`. A connection's
encoder holds the messages of many requests. `In(q, r)` are the places of one
request's, `SameAs(w, q, v, p, r)` says that two pairs of wire and queue hold the same
response, and the lemmas of the section on queues (`AppendOwn`, `TailPlaces`,
`AppendOther`, `TailOwn`, ...) say how appending to a queue or taking its head changes
one request's response and leaves the others (`Untouched`, `OneRequest`). `RInv` is
the conjunction over all requests, and `ResponseInvariance` its theorem.

### Callers

`RpcCallsProofs` proves, for any number of calls of either kind and any
`maxObjectsToBuffer`, from `CallsAssumption`: `TypeCorrect`, and
`CallbacksAreCorrect`, that over every stream allowed by `RpcStream` the callback is
made once and is right and no assertion of a listener fails. `system` checks the
same of the client itself (`CallbacksCorrect`), which by `ImplementsStream` is such a
stream. The inductive invariant adds that no call, a workload either, keeps more
objects than it was given (`KeepsWhatItSaw`). `OverIsReported` says that a stream that
is over has made its callback.

### Client and server together

`FastSystemProofs` proves of any number of calls and message ids, any bounds and any
set of `Worlds`, from `SystemAssumption` and `ServerAssumption`:

- `ServerIsHonest`: `SystemSpec => ServerIsHonestPeer`, a refinement: the client with
  all that server, network and owners do to it is step by step a behaviour of
  `FastClient` with `HonestPeer`. The theorems about that peer are about this server;
- `AnswersComeFromHandlers` (`AnswersAreTheHandlers`), `CallbacksAreRight`
  (`CallbacksCorrect`) and `SystemTypeCorrect` (`SystemTypeOK`), without hypotheses;
- `NobodyWaits` (`NobodyIsLeftWaiting`), without hypotheses too: whatever is called and
  whatever fails, a settled system owes nobody an answer;
- `NothingThrows` (`NoCrash`), for every set of `Surprises`: the client and its callers
  throw never, and the server's process ends of nothing but a surprise;
- `EndsDoAgree` (`EndsAgree`) and `LossMeansTeardown` (`OnlyTeardownLosesAnswers`), if
  `Cardinality(Requests) <= MaxMsgId`.

*The last hypothesis* is about more than the model. The client gives an id back when an
`END` reaches it; the server takes the id out of `fc_pending` a turn of its event loop
after it sent that `END`. A call that got the same id in between would be a duplicate
to the server, which terminates the connection. What prevents it is that `alloc()` goes
through all other ids first (`ReuseIsLate`): with the 2^31 - 1 of the code, that many
calls would have to be made while one response is being completed. The hypothesis says
that ids are not used up. Without it both properties are false: with three calls and
two ids TLC finds a violation of each in about twenty steps.

*The argument.* `SystemInv` has the invariants of both modules (`IInv`, `RInv`, the
client's `IInv` and `PeerInv`) and `Linked`: a call is in the client's encoder, queued
at the server or made a request there, and only in one of these (`CallsOK`, `OnceOK`);
what the client sees as its `peer` is what the server still owes an answer to, as long
as answers are heard at all (`PeerOK`); and the peer's messages are no more than the
objects written (`CountsOK`). `ServerTakesStep` and `ClientTakesStep` show that a step
of the system is a step or a stutter of each module, so that both modules' invariants
are taken over from the lemmas of their proofs, by instance; `LinkKept` is what
remains. The callers are taken over too: under the refinement of `RpcStream` the
system's streams make the steps that `RpcCallsProofs` asks for (`CallersStep`).

On `SystemInv` rest three smaller invariants. `AgreeInv`: ids go up in the order of
the calls and only `close()` terminates a connection. `AnswerInv` follows one call's
answer from the handler to the caller: the objects on their way were written by its
handler (`SourceOK`); while the call is pending and answers are heard, what the client
has taken in and has queued is what was written to the socket (`TakenOK`); once the
call is answered, it is by the last message of that response, which `RInv` says comes
after all that the handler wrote (`AnsweredOK`).
`TeardownInv`: a connection drains or loses its socket only if its client ended it, it
failed or was terminated (`GoesForAReason`), the client sees its stream broken off only
then (`StreamBroken`), and fails requests only for an error (`FatalKnown`).

`NobodyWaits` puts the rest of the two ends together. `RestInv` takes `Leaving` from
the server and `ErrorsDue`, `GoneClear`, `StreamOpen` and `Awaited` from the client, and
adds that a call the server has received is queued there or owed an answer until the
connection goes (`Serves`), and that who destroys the transport leaves no request
pending (`OwnerOK`). Suppose a call is pending in a settled system. Then the client is
not disconnected (`GoneClear`), so its stream is open (`StreamOpen`) and the socket too;
and a server at rest with an open socket has nothing queued, owes nothing and is not
about to let the connection go (`RestingServer`). But the call is awaited: it has left
the encoder and is not answered, so the server has it (`Serves`), which cannot be
(`NothingPends`). A request that is not pending is over, its stream is, and so its
callback was made (`EveryCallReports`).

### Decoder

`FastDecoderProofs` proves, for any set of streams of frames, any payloads, any
meaning of JSON and chunks of any size, from `DecoderAssumption`: `TypeCorrect`,
`NoAssertionFails`, `ChunksAreInvisible` (the run's `DecodesWhatArrived`) and
`EncodedMessagesAreAccepted` (`EncodedIsAccepted`).

*The argument.* First the wire: `UptoEquations` derives the recursion equation of
`Upto`, whose function exists because there is no least number of frames for which
it does not (`UptoExists`); with it `FrameOnWire` says where the cells of a frame
are. The invariant `IInv` says that while there is no error `md_buffer` holds what
was sent from the end of the last frame decoded on (`BufferOK`), that what was
pushed are the messages of the first frames, all good (`OutOK`), and that outside the
loop no good frame is left in the buffer and the error is that of the next one
(`Settled`). So the header and the data that `decode()` reads are those of the next
frame (`HeaderFacts`, `DataFacts`), and each branch of the loop does what that frame
deserves. `DecodedAreGood` identifies the frames decoded with those of
`DecodesWhatArrived`.

### Allocator

`IdPoolProofs` proves for any range: `LoopIsRight` (`LoopFindsFirstFree`),
`HeldIdsStay` (`NeverHandsOutHeldId`), `ReuseIsLate` (`FullCycleBeforeReuse`) and
`TypeCorrect`, from `IdRange`. `Place(id, start)` counts the probes before an
identifier's; `Found` is a closed form in these terms, unfolds as the loop does
(`FoundUnfolds`), hence is the loop (`LoopIsFound`), and is `Alloc` (`LoopIsAlloc`),
the operator that the client's model uses. That reuse is late follows because what
the cursor has passed since an identifier was handed out, and what it sweeps to reach
it again, are together always the whole range (`PassedOK`).

### Model-checked only

The liveness properties (`ImplementsStream` beyond its safety, `DisconnectedRequestsFinish`,
`TimedRequestsFinish`, `ConnectionsAreRemoved`, `CloseReleasesCallbacks`, `EndIsReported`)
and `StuckIsSettled`, which is about ENABLED: both are out of the prover's reach. Of the
liveness of client and server what needs no fairness is proved (`OutcomesReportedAtRest`,
`NothingIsLeftAtRest`): at rest there is nothing left to wait for. The violations of
section 7 are single behaviours that TLC finds. Every other property of a passing run
is stated by a theorem.

## 9. Not modelled

- Bytes below the fields of a header; the contents of messages that decide nothing.
- Logging, kang, metrics, probes, counters that nothing reads, and
  `summarizeSocketAddrs()`: no state that the rest depends on.
- `fastbench`: its interleavings are those of a queue of the vasync library, which is
  not in the repository. Its requests are in `RpcCalls`.
- How each handler of the demo server checks its arguments, which leads to the same
  calls of `write()`, `end()` and `fail()` that `FastServer` lets any handler make.
- Options and output of the commands; the test and build tools.
- Memory that JavaScript keeps alive through references (streams left piped).
- `FastMessageHandler`'s own buffer of one message, merged into the queues of the
  connections: between the two nothing can happen to a message.
- Callers that use the API in a `data` listener, except in `client_reentrant`; callers
  that read late beyond what `client_honest` has of them; an honest server that
  sends nulls.

## 10. Plan

Done: the allocator, the client with its abstract specification, the server, both
together, the decoder, the callers, and proofs for each and for the composition. Next:

1. `StreamSafety` for callers that read late, which wants a `RpcStream` that says what
   they may still be given after `error`.
2. That nothing an honest peer does makes the client fail a request with `protocol` or
   `unknown_msgid` errors, as a theorem about `FastClient` alone.
3. Callers in a `data` listener (data after `abandon()`), nulls from an honest server.
