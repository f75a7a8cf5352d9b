----------------------------- MODULE RpcStream -----------------------------
(***************************************************************************)
(* What FastClientRequest promises the caller of rpc() (the comment at the *)
(* head of lib/fast_client_request.js): each request is a stream that      *)
(* emits zero or more data objects and then exactly one of 'end' and       *)
(* 'error'; once the outcome is decided nothing more but that one event is *)
(* emitted, and the event does come.                                       *)
(***************************************************************************)
EXTENDS Integers, Sequences

CONSTANTS
    Requests,   \* the rpc() calls
    Object      \* the data objects a server may send

VARIABLES
    phase,      \* per request: where its stream is
    emitted     \* per request: the data objects its caller has been given
vars == <<phase, emitted>>

Phases == {"idle", "open", "ending", "failing", "ended", "failed"}

TypeOK ==
    /\ phase \in [Requests -> Phases]
    /\ emitted \in [Requests -> Seq(Object)]

Init ==
    /\ phase = [r \in Requests |-> "idle"]
    /\ emitted = [r \in Requests |-> <<>>]

Move(r, from, to) ==
    /\ phase[r] = from
    /\ phase' = [phase EXCEPT ![r] = to]
    /\ UNCHANGED emitted

\* rpc() starts the call, or fails it at once when there is no transport.
Issue(r) == Move(r, "idle", "open") \/ Move(r, "idle", "failing")

Emit(r, object) ==
    /\ phase[r] = "open"
    /\ emitted' = [emitted EXCEPT ![r] = Append(@, object)]
    /\ UNCHANGED phase

Finish(r) == Move(r, "open", "ending")

\* One event may fail any number of calls: losing the transport fails them all.
Fail(R) ==
    /\ R # {}
    /\ \A r \in R : phase[r] = "open"
    /\ phase' = [r \in Requests |-> IF r \in R THEN "failing" ELSE phase[r]]
    /\ UNCHANGED emitted

EmitEnd(r)   == Move(r, "ending", "ended")
EmitError(r) == Move(r, "failing", "failed")

Next ==
    \/ \E r \in Requests :
        \/ Issue(r) \/ Finish(r) \/ EmitEnd(r) \/ EmitError(r)
        \/ \E object \in Object : Emit(r, object)
    \/ \E R \in SUBSET Requests : Fail(R)

Spec ==
    /\ Init /\ [][Next]_vars
    /\ \A r \in Requests : WF_vars(EmitEnd(r)) /\ WF_vars(EmitError(r))
=============================================================================
