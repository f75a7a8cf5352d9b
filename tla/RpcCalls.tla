------------------------------ MODULE RpcCalls ------------------------------
(***************************************************************************)
(* Callers of rpc() that listen to a request's stream and make one callback*)
(* of it: rpcBufferAndCallback() of lib/fast_client.js, which hands over   *)
(* what the server sent, and fastWorkloadRequest() of lib/bench.js, which  *)
(* only says whether it was what the benchmark expects.                    *)
(*                                                                         *)
(* The stream is RpcStream.  A listener runs in the step that emits its    *)
(* event, so a caller has no steps of its own: Listen is what the listeners*)
(* do, if any of them is called.                                           *)
(***************************************************************************)
EXTENDS Integers, Sequences

CONSTANTS
    Requests, Object,
    Workload,           \* calls of fastWorkloadRequest(); the others are
                        \* calls of rpcBufferAndCallback()
    maxObjectsToBuffer,
    Expected            \* objects a workload expects in response

\* What an instance of this module assumes of its constants.
CallsAssumption ==
    /\ Workload \subseteq Requests
    /\ maxObjectsToBuffer \in Nat /\ Expected \in Nat

VARIABLES
    phase, emitted,     \* of RpcStream
    data, ndata,        \* per call: objects kept, objects counted
    done,               \* calls whose outcome was reported
    callback,           \* per call: the arguments of its callbacks
    throws              \* a listener's assertion failed

stream == <<phase, emitted>>
calls  == <<data, ndata, done, callback, throws>>
vars   == <<stream, calls>>

Stream == INSTANCE RpcStream

Outcome == [err : BOOLEAN, data : Seq(Object), ndata : Nat]

TypeOK ==
    /\ Stream!TypeOK
    /\ data \in [Requests -> Seq(Object)] /\ ndata \in [Requests -> Nat]
    /\ done \subseteq Requests
    /\ callback \in [Requests -> Seq(Outcome)]
    /\ throws \in BOOLEAN

CallsInit ==
    /\ data = [r \in Requests |-> <<>>] /\ ndata = [r \in Requests |-> 0]
    /\ done = {}
    /\ callback = [r \in Requests |-> <<>>]
    /\ throws = FALSE

Init == Stream!Init /\ CallsInit
-----------------------------------------------------------------------------
\* The events of a step, from what it does to the stream.
OnData(r)  == Len(emitted'[r]) > Len(emitted[r])
OnEnd(r)   == phase'[r] # phase[r] /\ phase'[r] = "ended"
OnError(r) == phase'[r] # phase[r] /\ phase'[r] = "failed"

\* Faulty variant: one object more than was asked for.
KeepsOneMore(r) == r \notin Workload /\ Len(data[r]) <= maxObjectsToBuffer

\* rpcBufferAndCallback() keeps what there is room for, a workload nothing.
Keeps(r) == r \notin Workload /\ Len(data[r]) < maxObjectsToBuffer

\* Faulty variant: a workload takes any answer for a good one.
AnyAnswer(r) == OnError(r)

\* Whether the callback gets an error: the stream failed, or did not hold what
\* the benchmark expects.
Fails(r) == OnError(r) \/ (r \in Workload /\ ndata[r] # Expected)

Outcomes(r) ==
    IF OnEnd(r) \/ OnError(r)
    THEN <<[err |-> Fails(r), data |-> data[r], ndata |-> ndata[r]]>>
    ELSE <<>>

\* rpcBufferAndCallback() asserts that nothing follows the outcome, and that
\* it kept no more than it counted or was allowed to.
ListenerAsserts(r) ==
    r \notin Workload =>
        /\ OnData(r) \/ OnEnd(r) \/ OnError(r) => r \notin done
        /\ OnEnd(r) \/ OnError(r) =>
                Len(data[r]) <= ndata[r] /\ Len(data[r]) <= maxObjectsToBuffer

Listen ==
    /\ ndata' = [r \in Requests |-> IF OnData(r) THEN ndata[r] + 1 ELSE ndata[r]]
    /\ data' = [r \in Requests |->
                    IF OnData(r) /\ Keeps(r)
                    THEN Append(data[r], emitted'[r][Len(emitted'[r])])
                    ELSE data[r]]
    /\ done' = done \cup {r \in Requests : OnEnd(r) \/ OnError(r)}
    /\ callback' = [r \in Requests |-> callback[r] \o Outcomes(r)]
    /\ throws' = (throws \/ \E r \in Requests : ~ListenerAsserts(r))

Next == Stream!Next /\ Listen

Spec == Init /\ [][Next]_vars
-----------------------------------------------------------------------------
\* No assertion of a listener fails, and the callback is made once, when the
\* stream is over.  rpcBufferAndCallback() hands over the first objects of the
\* stream, as many as it may, and counts them all; a workload succeeds only
\* when the stream ended and held what was expected.
CallbackCorrect ==
    /\ ~throws
    /\ \A r \in Requests :
        /\ ndata[r] = Len(emitted[r])
        /\ data[r] = SubSeq(emitted[r], 1, Len(data[r]))
        /\ r \notin Workload =>
            Len(data[r]) = IF ndata[r] < maxObjectsToBuffer THEN ndata[r]
                           ELSE maxObjectsToBuffer
        /\ r \in done <=> phase[r] \in {"ended", "failed"}
        /\ callback[r] =
            IF r \notin done THEN <<>>
            ELSE <<[err |-> phase[r] = "failed"
                            \/ (r \in Workload /\ ndata[r] # Expected),
                    data |-> data[r], ndata |-> ndata[r]]>>
=============================================================================
