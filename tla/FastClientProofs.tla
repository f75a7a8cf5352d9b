-------------------------- MODULE FastClientProofs --------------------------
(***************************************************************************)
(* Theorems about the client, for any number of requests and message ids   *)
(* and any peer.  IInv is the inductive invariant.                         *)
(***************************************************************************)
EXTENDS FastClient, FiniteSetTheorems, WellFoundedInduction, TLAPS

\* An id of fc_pending leads to the request that has it.
PendingById ==
    \A id \in MsgIds :
        fc_pending[id] # None =>
            fc_pending[id] \in Requests /\ frq_msgid[fc_pending[id]] = id

\* A request that rpc() has not made is neither done nor failed.
Unasked ==
    \A r \in Requests :
        frq_msgid[r] = 0 => r \notin frq_done_graceful /\ frq_error[r] = "none"

\* Abandoned requests failed, and no answer completed them.
AbandonedFailed ==
    /\ \A r \in frq_abandoned : frq_error[r] # "none"
    /\ \A id \in MsgIds :
        fc_abandoned[id] # None =>
            fc_abandoned[id] \in frq_abandoned \ frq_done_graceful

Bookkeeping == PendingAgrees /\ PendingById /\ Unasked /\ AbandonedFailed

\* The rest of requestEmitData() is about a request that rpc() has made.
FrameOK ==
    running.kind = "emit" =>
        running.req \in Requests /\ frq_msgid[running.req] # 0

\* As long as listeners stay out of the API, a request whose message is being
\* emitted is pending, and no assertion has failed.
EmitsPending ==
    ~Reentrant => /\ ~crashed
                  /\ running.kind = "emit" => IsPending(running.req)

IInv == TypeOK /\ Bookkeeping /\ FrameOK /\ EmitsPending
-----------------------------------------------------------------------------
(* Operators *)

\* A set of naturals that is not empty has a least element: Min is well-defined.
LEMMA LeastExists ==
    ASSUME NEW S \in SUBSET Nat, S # {}
    PROVE  \E x \in S : \A y \in S : x <= y
<1>1. PICK x \in S : \A y \in S : <<y, x>> \notin OpToRel(<, Nat)
    BY NatLessThanWellFounded, WFMin
<1>2. \A y \in S : ~(y < x)
    BY <1>1, Zenon DEF OpToRel
<1> QED
    BY <1>2

\* An id that alloc() returns is in range and was not in use.
LEMMA AllocReturnsFree ==
    ASSUME NEW taken, NEW start \in MsgIds,
           Allocator!Alloc(start, taken) # NoMsgId
    PROVE  Allocator!Alloc(start, taken) \in MsgIds \ taken
<1> DEFINE free == MsgIds \ taken
           onward == {id \in free : id >= start}
<1>1. free # {} /\ free \in SUBSET Nat /\ onward \in SUBSET Nat
    BY DEF Allocator!Alloc, Allocator!Ids, MsgIds
<1>2. CASE onward # {}
  <2>1. \E x \in onward : \A y \in onward : x <= y
    BY <1>1, <1>2, LeastExists
  <2>2. Allocator!Min(onward) \in onward
    BY <2>1 DEF Allocator!Min
  <2> QED
    BY <1>1, <1>2, <2>2 DEF Allocator!Alloc, Allocator!Ids, MsgIds
<1>3. CASE onward = {}
  <2>1. \E x \in free : \A y \in free : x <= y
    BY <1>1, LeastExists
  <2>2. Allocator!Min(free) \in free
    BY <2>1 DEF Allocator!Min
  <2> QED
    BY <1>1, <1>3, <2>2 DEF Allocator!Alloc, Allocator!Ids, MsgIds
<1> QED
    BY <1>2, <1>3

\* The cursor stays in range.
LEMMA SuccessorInRange ==
    ASSUME NEW id \in MsgIds
    PROVE  Allocator!Successor(id) \in MsgIds
BY ClientAssumption DEF Allocator!Successor, MsgIds

\* Appending a member keeps the type of a sequence.
LEMMA AppendType ==
    ASSUME NEW S, NEW s \in Seq(S), NEW e \in S
    PROVE  Append(s, e) \in Seq(S)
OBVIOUS

\* The head and the tail of a sequence that is not empty have its type.
LEMMA HeadTailType ==
    ASSUME NEW S, NEW s \in Seq(S), s # <<>>
    PROVE  Head(s) \in S /\ Tail(s) \in Seq(S)
OBVIOUS

\* The pending requests are finitely many, as requests are.
LEMMA PendingFinite ==
    ASSUME RequestTypeOK
    PROVE  /\ Pending \subseteq Requests
           /\ IsFiniteSet(Pending)
           /\ \A R \in SUBSET Pending : IsFiniteSet(R) /\ Cardinality(R) \in Nat
<1>1. Pending \subseteq Requests
    BY DEF Pending, RequestTypeOK
<1>2. \A R \in SUBSET Pending : IsFiniteSet(R)
    BY <1>1, FS_Subset, ClientAssumption
<1> QED
    BY <1>1, <1>2, FS_CardinalityType
-----------------------------------------------------------------------------
(* Requests leave fc_pending *)

\* What fc_pending holds is pending and knows its id.
LEMMA PendingMeans ==
    ASSUME RequestTypeOK, Bookkeeping, NEW r \in Pending
    PROVE  /\ r \in Requests /\ frq_msgid[r] \in MsgIds /\ Registered(r)
           /\ frq_msgid[r] # 0 /\ IsPending(r)
<1>1. PICK id \in MsgIds : fc_pending[id] = r /\ r # None
    BY DEF Pending
<1>2. r \in Requests /\ frq_msgid[r] = id
    BY <1>1 DEF Bookkeeping, PendingById
<1> QED
    BY <1>1, <1>2 DEF Registered, MsgIds, Bookkeeping, PendingAgrees

\* A registered request is in the table.
LEMMA RegisteredMeans ==
    ASSUME RequestTypeOK, Bookkeeping, NEW r \in Requests,
           frq_msgid[r] # 0, Registered(r)
    PROVE  r \in Pending
<1>1. frq_msgid[r] \in MsgIds /\ r # None
    BY ClientAssumption DEF RequestTypeOK, MsgIds
<1> QED
    BY <1>1 DEF Registered, Pending

\* requestComplete() takes out and counts the requests it is given.
LEMMA CompleteCounts ==
    ASSUME RequestTypeOK, NEW R \in SUBSET Pending, RequestComplete(R)
    PROVE  /\ fc_pending' \in [MsgIds -> Requests \cup {None}]
           /\ fc_nrpc_done' \in Nat
           /\ frq_timeout' \subseteq Requests
           /\ Cardinality(Pending') = Cardinality(Pending) - Cardinality(R)
           /\ fc_nrpc_done' = fc_nrpc_done + Cardinality(R)
           /\ Cardinality(R) \in Nat /\ Cardinality(Pending) \in Nat
<1>1. /\ IsFiniteSet(Pending) /\ IsFiniteSet(R)
      /\ Cardinality(Pending) \in Nat /\ Cardinality(R) \in Nat
    BY PendingFinite
<1>2. Pending' = Pending \ R
    BY DEF Pending, RequestComplete, RequestTypeOK
<1>3. Cardinality(Pending \ R) = Cardinality(Pending) - Cardinality(Pending \cap R)
    BY <1>1, FS_Difference
<1>4. Pending \cap R = R
    OBVIOUS
<1>5. /\ fc_pending' \in [MsgIds -> Requests \cup {None}]
      /\ frq_timeout' \subseteq Requests
    BY DEF RequestTypeOK, RequestComplete
<1>6. fc_nrpc_done' = fc_nrpc_done + Cardinality(R) /\ fc_nrpc_done' \in Nat
    BY <1>1 DEF RequestTypeOK, RequestComplete
<1> QED
    BY <1>1, <1>2, <1>3, <1>4, <1>5, <1>6

\* requestAbandon() of pending requests.
LEMMA AbandonKeeps ==
    ASSUME RequestTypeOK, Bookkeeping, NEW R \in SUBSET Pending,
           NEW cause \in Causes \ {"none"}, RequestAbandon(R, cause)
    PROVE  RequestTypeOK' /\ Bookkeeping'
<1>1. \A r \in R : /\ r \in Requests /\ frq_msgid[r] \in MsgIds
                   /\ frq_msgid[r] # 0 /\ IsPending(r) /\ Registered(r)
    BY PendingMeans
<1>2. /\ RequestComplete(R) /\ frq_msgid' = frq_msgid
      /\ frq_done_graceful' = frq_done_graceful
      /\ frq_error' = [r \in Requests |->
                            IF r \in R THEN cause ELSE frq_error[r]]
      /\ fc_pending' = [id \in MsgIds |->
                            IF fc_pending[id] \in R THEN None ELSE fc_pending[id]]
      /\ frq_timeout' = frq_timeout \ R
      /\ frq_abandoned' = frq_abandoned \cup R
      /\ fc_nrpc_started' = fc_nrpc_started
    BY DEF RequestAbandon, RequestFail, RequestComplete
<1>3. RequestTypeOK'
    BY <1>1, <1>2, CompleteCounts
       DEF RequestTypeOK, RequestAbandon, RequestFail
<1>4. PendingAgrees'
  <2>1. \A r \in Requests :
            (frq_msgid[r] # 0 /\ IsPending(r))' <=> (frq_msgid[r] # 0 /\ Registered(r))'
    <3> TAKE r \in Requests
    <3>1. frq_msgid[r] # 0 => frq_msgid[r] \in MsgIds
        BY DEF RequestTypeOK, MsgIds
    <3>2. CASE r \in R
        BY <1>1, <1>2, <3>2, ClientAssumption DEF IsPending, Registered
    <3>3. CASE r \notin R
        BY <1>2, <3>1, <3>3, ClientAssumption
           DEF IsPending, Registered, Bookkeeping, PendingAgrees
    <3> QED
        BY <3>2, <3>3
  <2>2. \A r \in Requests :
            (r \in frq_timeout)' => (frq_msgid[r] # 0 /\ IsPending(r))'
    BY <1>2 DEF IsPending, Bookkeeping, PendingAgrees
  <2>3. fc_nrpc_started' - fc_nrpc_done' = Cardinality(Pending')
    BY <1>2, CompleteCounts DEF Bookkeeping, PendingAgrees, RequestTypeOK
  <2> QED
    BY <2>1, <2>2, <2>3 DEF PendingAgrees
<1>5. PendingById'
    BY <1>2 DEF PendingById, Bookkeeping
<1>6. Unasked'
    BY <1>1, <1>2 DEF Unasked, Bookkeeping
<1>7. AbandonedFailed'
  <2>1. \A r \in frq_abandoned' : frq_error'[r] # "none"
    BY <1>2, <1>1 DEF AbandonedFailed, Bookkeeping, RequestTypeOK
  <2>2. \A id \in MsgIds :
            fc_abandoned'[id] # None =>
                fc_abandoned'[id] \in frq_abandoned' \ frq_done_graceful'
    BY <1>1, <1>2 DEF RequestAbandon, IsPending, AbandonedFailed, Bookkeeping
  <2> QED
    BY <2>1, <2>2 DEF AbandonedFailed
<1> QED
    BY <1>3, <1>4, <1>5, <1>6, <1>7 DEF Bookkeeping
-----------------------------------------------------------------------------
(* Other changes to the requests *)

\* rpc() with a transport, for an id that is free.
LEMMA SentKeeps ==
    ASSUME RequestTypeOK, Bookkeeping, NEW r \in Requests,
           NEW id \in MsgIds \ AllocatedIds, frq_msgid[r] = 0,
           RpcSent(r, id), frq_msgid' = [frq_msgid EXCEPT ![r] = id],
           fc_nrpc_started' = fc_nrpc_started + 1,
           UNCHANGED <<fc_abandoned, frq_done_graceful, frq_abandoned>>
    PROVE  RequestTypeOK' /\ Bookkeeping'
<1>1. /\ fc_pending' = [fc_pending EXCEPT ![id] = r]
      /\ fc_pending[id] = None /\ id # 0 /\ r # None
      /\ frq_timeout' \subseteq frq_timeout \cup {r}
      /\ UNCHANGED <<frq_error, immediates, fc_nrpc_done>>
    BY ClientAssumption DEF RpcSent, AllocatedIds, MsgIds
<1>2. RequestTypeOK'
    BY <1>1 DEF RequestTypeOK, MsgIds
<1>3. r \notin Pending
    BY PendingMeans
<1>4. \A i \in MsgIds : fc_pending[i] # r
    BY <1>1, <1>3 DEF Pending
<1>5. PendingAgrees'
  <2>1. \A q \in Requests :
            (frq_msgid[q] # 0 /\ IsPending(q))' <=> (frq_msgid[q] # 0 /\ Registered(q))'
    <3> TAKE q \in Requests
    <3>1. CASE q = r
        BY <1>1, <3>1 DEF IsPending, Registered, Unasked, Bookkeeping, RequestTypeOK
    <3>2. CASE q # r
      <4>1. frq_msgid'[q] = frq_msgid[q] /\ (IsPending(q)' <=> IsPending(q))
        BY <1>1, <3>2 DEF IsPending, RequestTypeOK
      <4>2. CASE frq_msgid[q] = id
        BY <1>1, <3>2, <4>1, <4>2, ClientAssumption
           DEF Registered, Bookkeeping, PendingAgrees, RequestTypeOK
      <4>3. CASE frq_msgid[q] # id
        BY <1>1, <4>1, <4>3 DEF Registered, Bookkeeping, PendingAgrees, RequestTypeOK
      <4> QED
        BY <4>2, <4>3
    <3> QED
        BY <3>1, <3>2
  <2>2. \A q \in Requests :
            (q \in frq_timeout)' => (frq_msgid[q] # 0 /\ IsPending(q))'
    BY <1>1 DEF IsPending, Bookkeeping, PendingAgrees, Unasked, RequestTypeOK
  <2>3. Pending' = Pending \cup {r}
    BY <1>1, <1>2 DEF Pending, RequestTypeOK
  <2>4. Cardinality(Pending') = Cardinality(Pending) + 1
    BY <1>3, <2>3, PendingFinite, FS_AddElement
  <2>5. fc_nrpc_started' - fc_nrpc_done' = Cardinality(Pending')
    BY <1>1, <2>4, PendingFinite DEF Bookkeeping, PendingAgrees, RequestTypeOK
  <2> QED
    BY <2>1, <2>2, <2>5 DEF PendingAgrees
<1>6. PendingById'
    BY <1>1, <1>4 DEF PendingById, Bookkeeping, RequestTypeOK
<1>7. Unasked'
    BY <1>1 DEF Unasked, Bookkeeping, RequestTypeOK
<1>8. AbandonedFailed'
    BY <1>1 DEF AbandonedFailed, Bookkeeping
<1> QED
    BY <1>2, <1>5, <1>6, <1>7, <1>8 DEF Bookkeeping

\* rpc() without a transport: the request is made and done at once.
LEMMA SkippedKeeps ==
    ASSUME RequestTypeOK, Bookkeeping, NEW r \in Requests,
           NEW id \in MsgIds \ AllocatedIds, frq_msgid[r] = 0,
           RpcSkipped(r), frq_msgid' = [frq_msgid EXCEPT ![r] = id],
           fc_nrpc_started' = fc_nrpc_started + 1,
           UNCHANGED <<fc_abandoned, frq_done_graceful, frq_abandoned>>
    PROVE  RequestTypeOK' /\ Bookkeeping'
<1>1. /\ frq_error' = [frq_error EXCEPT ![r] = "skipped"]
      /\ fc_pending[id] = None /\ id # 0 /\ r # None
      /\ immediates' = immediates \cup {r} /\ fc_nrpc_done' = fc_nrpc_done + 1
      /\ UNCHANGED <<fc_pending, frq_timeout>>
    BY ClientAssumption DEF RpcSkipped, AllocatedIds, MsgIds
<1>2. RequestTypeOK'
    BY <1>1 DEF RequestTypeOK, MsgIds, Causes
<1>3. PendingAgrees'
  <2>1. \A q \in Requests :
            (frq_msgid[q] # 0 /\ IsPending(q))' <=> (frq_msgid[q] # 0 /\ Registered(q))'
    BY <1>1 DEF IsPending, Registered, Bookkeeping, PendingAgrees, RequestTypeOK
  <2>2. \A q \in Requests :
            (q \in frq_timeout)' => (frq_msgid[q] # 0 /\ IsPending(q))'
    BY <1>1 DEF IsPending, Bookkeeping, PendingAgrees, RequestTypeOK
  <2>3. Pending' = Pending
    BY <1>1 DEF Pending
  <2>4. fc_nrpc_started' - fc_nrpc_done' = Cardinality(Pending')
    BY <1>1, <2>3, PendingFinite DEF Bookkeeping, PendingAgrees, RequestTypeOK
  <2> QED
    BY <2>1, <2>2, <2>4 DEF PendingAgrees
<1>4. PendingById'
    <2>1. \A i \in MsgIds : fc_pending[i] # r
        BY PendingMeans, ClientAssumption DEF Pending
    <2> QED
        BY <1>1, <2>1 DEF PendingById, Bookkeeping, RequestTypeOK
<1>5. Unasked'
    BY <1>1 DEF Unasked, Bookkeeping, RequestTypeOK
<1>6. AbandonedFailed'
    BY <1>1 DEF AbandonedFailed, Bookkeeping, RequestTypeOK
<1> QED
    BY <1>2, <1>3, <1>4, <1>5, <1>6 DEF Bookkeeping

\* An END or ERROR of the server completes the pending request r: it is done,
\* and failed too if it was an ERROR.
LEMMA DoneKeeps ==
    ASSUME RequestTypeOK, Bookkeeping, NEW r \in Pending, RequestComplete({r}),
           frq_done_graceful' = frq_done_graceful \cup {r},
           immediates' \subseteq immediates \cup {r},
           \/ UNCHANGED frq_error
           \/ frq_error' = [q \in Requests |->
                                IF q \in {r} THEN "server" ELSE frq_error[q]],
           UNCHANGED <<fc_abandoned, fc_nrpc_started, frq_msgid, frq_abandoned>>
    PROVE  RequestTypeOK' /\ Bookkeeping'
<1>1. /\ r \in Requests /\ frq_msgid[r] \in MsgIds /\ frq_msgid[r] # 0
      /\ IsPending(r) /\ Registered(r) /\ r # None
    BY PendingMeans, ClientAssumption
<1>2. /\ fc_pending' = [id \in MsgIds |->
                            IF fc_pending[id] = r THEN None ELSE fc_pending[id]]
      /\ frq_timeout' = frq_timeout \ {r}
    BY DEF RequestComplete
<1>3. \A q \in Requests : q # r => frq_error'[q] = frq_error[q]
    OBVIOUS
<1>4. \A q \in Requests : frq_error[q] # "none" => frq_error'[q] # "none"
    OBVIOUS
<1>5. frq_error' \in [Requests -> Causes]
    BY DEF RequestTypeOK, Causes
<1>6. RequestTypeOK'
    BY <1>1, <1>5, CompleteCounts DEF RequestTypeOK
<1>7. PendingAgrees'
  <2>1. \A q \in Requests :
            (frq_msgid[q] # 0 /\ IsPending(q))' <=> (frq_msgid[q] # 0 /\ Registered(q))'
    <3> TAKE q \in Requests
    <3>1. frq_msgid[q] # 0 => frq_msgid[q] \in MsgIds
        BY DEF RequestTypeOK, MsgIds
    <3>2. CASE q = r
        BY <1>1, <1>2, <3>2 DEF IsPending, Registered
    <3>3. CASE q # r
        BY <1>2, <1>3, <3>1, <3>3, ClientAssumption
           DEF IsPending, Registered, Bookkeeping, PendingAgrees
    <3> QED
        BY <3>2, <3>3
  <2>2. \A q \in Requests :
            (q \in frq_timeout)' => (frq_msgid[q] # 0 /\ IsPending(q))'
    BY <1>2, <1>3 DEF IsPending, Bookkeeping, PendingAgrees
  <2>3. fc_nrpc_started' - fc_nrpc_done' = Cardinality(Pending')
    BY CompleteCounts DEF Bookkeeping, PendingAgrees, RequestTypeOK
  <2> QED
    BY <2>1, <2>2, <2>3 DEF PendingAgrees
<1>8. PendingById'
    BY <1>2 DEF PendingById, Bookkeeping
<1>9. Unasked'
    BY <1>1, <1>3 DEF Unasked, Bookkeeping
<1>10. AbandonedFailed'
    BY <1>1, <1>4 DEF AbandonedFailed, Bookkeeping, IsPending, RequestTypeOK
<1> QED
    BY <1>6, <1>7, <1>8, <1>9, <1>10 DEF Bookkeeping

\* An END for an abandoned request gives its id back.
LEMMA GiveBackKeeps ==
    ASSUME RequestTypeOK, Bookkeeping, NEW id \in 0 .. MaxMsgId,
           \/ UNCHANGED fc_abandoned
           \/ fc_abandoned' = [fc_abandoned EXCEPT ![id] = None],
           immediates' \subseteq immediates,
           UNCHANGED <<fc_pending, fc_nrpc_started, fc_nrpc_done, frq_msgid,
                       frq_done_graceful, frq_abandoned, frq_timeout, frq_error>>
    PROVE  RequestTypeOK' /\ Bookkeeping'
<1>1. RequestTypeOK'
    BY DEF RequestTypeOK
<1>2. PendingAgrees' /\ PendingById' /\ Unasked'
    BY DEF Bookkeeping, PendingAgrees, PendingById, Unasked, Pending,
           IsPending, Registered
<1>3. AbandonedFailed'
    BY DEF Bookkeeping, AbandonedFailed, RequestTypeOK
<1> QED
    BY <1>1, <1>2, <1>3 DEF Bookkeeping

\* Steps that leave the requests alone.
LEMMA SameRequestsKeep ==
    ASSUME RequestTypeOK, Bookkeeping, UNCHANGED requestVars
    PROVE  RequestTypeOK' /\ Bookkeeping'
<1>1. UNCHANGED <<fc_pending, fc_abandoned, fc_nrpc_started, fc_nrpc_done,
                  frq_msgid, frq_done_graceful, frq_abandoned, frq_timeout,
                  frq_error, immediates>>
    BY DEF requestVars
<1>2. RequestTypeOK'
    BY <1>1 DEF RequestTypeOK
<1> QED
    BY <1>1, <1>2 DEF Bookkeeping, PendingAgrees, PendingById, Unasked,
                      AbandonedFailed, Pending, IsPending, Registered
-----------------------------------------------------------------------------
(* Every step keeps the invariant. *)

\* A step keeps the types of the groups of variables it leaves alone.
LEMMA SameGroupsKeep ==
    ASSUME TypeOK
    PROVE  /\ UNCHANGED clientVars => ClientTypeOK'
           /\ UNCHANGED streamVars => StreamTypeOK'
           /\ UNCHANGED loopVars => LoopTypeOK'
           /\ UNCHANGED peerVars => PeerTypeOK'
           /\ UNCHANGED fc_msgdecoder => DecoderTypeOK'
<1>1. UNCHANGED clientVars => ClientTypeOK'
    BY DEF TypeOK, clientVars, ClientTypeOK
<1>2. UNCHANGED streamVars => StreamTypeOK'
    BY DEF TypeOK, streamVars, StreamTypeOK
<1>3. UNCHANGED loopVars => LoopTypeOK'
    BY DEF TypeOK, loopVars, LoopTypeOK
<1>4. UNCHANGED peerVars => PeerTypeOK'
    BY DEF TypeOK, peerVars, PeerTypeOK
<1>5. UNCHANGED fc_msgdecoder => DecoderTypeOK'
    BY DEF TypeOK, DecoderTypeOK
<1> QED
    BY <1>1, <1>2, <1>3, <1>4, <1>5

\* The caller's steps do not disturb a message being emitted.
LEMMA CallerKeepsFrame ==
    ASSUME IInv, CallerRuns, UNCHANGED loopVars,
           \A r \in Requests : frq_msgid[r] # 0 => frq_msgid'[r] # 0
    PROVE  FrameOK' /\ EmitsPending'
BY DEF IInv, TypeOK, LoopTypeOK, CallerRuns, loopVars, FrameOK, EmitsPending

\* Nor do the steps after which none is being emitted.
LEMMA NoFrame ==
    ASSUME IInv, running'.kind # "emit", UNCHANGED crashed
    PROVE  FrameOK' /\ EmitsPending'
BY DEF IInv, FrameOK, EmitsPending

\* The assertions on requests that are to leave fc_pending hold.
LEMMA AssertionsHold ==
    ASSUME IInv
    PROVE  /\ AbandonAllAsserts
           /\ \A r \in Requests : frq_msgid[r] # 0 /\ IsPending(r) =>
                    Registered(r) /\ r \in Pending
<1>1. RequestTypeOK /\ Bookkeeping
    BY DEF IInv, TypeOK
<1>2. AbandonAllAsserts
    BY <1>1, PendingMeans DEF AbandonAllAsserts
<1>3. ASSUME NEW r \in Requests, frq_msgid[r] # 0, IsPending(r)
      PROVE  Registered(r) /\ r \in Pending
    BY <1>1, <1>3, RegisteredMeans DEF Bookkeeping, PendingAgrees
<1> QED
    BY <1>2, <1>3

\* rpc() keeps the inductive invariant, with a transport or without one.
LEMMA RpcKeeps ==
    ASSUME IInv, NEW r \in Requests, Rpc(r)
    PROVE  IInv'
<1> DEFINE id == Allocator!Alloc(ida_nextid, AllocatedIds)
<1>1. id \in MsgIds \ AllocatedIds
    BY AllocReturnsFree DEF Rpc, IInv, TypeOK, ClientTypeOK
<1> HIDE DEF id
<1>2. /\ CallerRuns /\ frq_msgid[r] = 0
      /\ ida_nextid' = Allocator!Successor(id)
      /\ frq_msgid' = [frq_msgid EXCEPT ![r] = id]
      /\ fc_nrpc_started' = fc_nrpc_started + 1
      /\ RpcSkipped(r) \/ RpcSent(r, id)
      /\ UNCHANGED <<streamVars, loopVars, fc_abandoned, fc_error, fc_detached,
                     fc_transport_ended, frq_done_graceful, frq_abandoned,
                     client_errors, decoder_open, peer, npeer, fc_msgdecoder>>
    BY DEF Rpc, id
<1>3. RequestTypeOK' /\ Bookkeeping'
    BY <1>1, <1>2, SentKeeps, SkippedKeeps DEF IInv, TypeOK
<1>4. ClientTypeOK'
    BY <1>1, <1>2, SuccessorInRange DEF IInv, TypeOK, ClientTypeOK
<1>5. PeerTypeOK'
  <2>1. fc_msgencoder' \in Seq([msgid : MsgIds, req : Requests])
    <3>1. [msgid |-> id, req |-> r] \in [msgid : MsgIds, req : Requests]
        BY <1>1
    <3>2. fc_msgencoder \in Seq([msgid : MsgIds, req : Requests])
        BY DEF IInv, TypeOK, PeerTypeOK
    <3>3. fc_msgencoder' \in {fc_msgencoder,
                              Append(fc_msgencoder, [msgid |-> id, req |-> r])}
        BY <1>2 DEF RpcSkipped, RpcSent
    <3> QED
        BY <3>1, <3>2, <3>3, AppendType
  <2> QED
    BY <1>2, <2>1 DEF IInv, TypeOK, PeerTypeOK
<1>6. StreamTypeOK' /\ LoopTypeOK' /\ DecoderTypeOK'
    BY <1>2, SameGroupsKeep DEF IInv
<1>7. FrameOK' /\ EmitsPending'
  <2>1. \A q \in Requests : frq_msgid[q] # 0 => frq_msgid'[q] # 0
    BY <1>1, <1>2 DEF IInv, TypeOK, RequestTypeOK, MsgIds
  <2> QED
    BY <1>2, <2>1, CallerKeepsFrame
<1> QED
    BY <1>3, <1>4, <1>5, <1>6, <1>7 DEF IInv, TypeOK

\* abandon() keeps it: the request's id goes from fc_pending to fc_abandoned.
LEMMA AbandonStepKeeps ==
    ASSUME IInv, NEW r \in Requests, Abandon(r)
    PROVE  IInv'
<1>1. Registered(r) /\ r \in Pending
    BY AssertionsHold DEF Abandon
<1>2. /\ CallerRuns /\ RequestAbandon({r}, "user")
      /\ UNCHANGED <<clientVars, streamVars, loopVars, transportVars>>
    BY <1>1 DEF Abandon
<1>3. RequestTypeOK' /\ Bookkeeping'
    BY <1>1, <1>2, AbandonKeeps DEF IInv, TypeOK, Causes
<1>4. ClientTypeOK' /\ StreamTypeOK' /\ LoopTypeOK' /\ PeerTypeOK' /\ DecoderTypeOK'
    BY <1>2, SameGroupsKeep DEF IInv, transportVars
<1>5. FrameOK' /\ EmitsPending'
    BY <1>2, CallerKeepsFrame DEF RequestAbandon
<1> QED
    BY <1>3, <1>4, <1>5 DEF IInv, TypeOK

\* detach() keeps it, abandoning every pending request.
LEMMA DetachKeeps ==
    ASSUME IInv, Detach
    PROVE  IInv'
<1>1. /\ CallerRuns /\ fc_detached' = TRUE /\ decoder_open' = FALSE
      /\ \E k \in 0 .. Len(fc_msgdecoder) :
              fc_msgdecoder' = SubSeq(fc_msgdecoder, 1, k)
      /\ RequestAbandon(Pending, "detached")
      /\ UNCHANGED <<streamVars, loopVars, fc_error, fc_transport_ended,
                     ida_nextid, client_errors, fc_msgencoder, peer, npeer>>
    BY AssertionsHold DEF Detach
<1>2. RequestTypeOK' /\ Bookkeeping'
    BY <1>1, AbandonKeeps DEF IInv, TypeOK, Causes
<1>3. ClientTypeOK' /\ PeerTypeOK'
    BY <1>1 DEF IInv, TypeOK, ClientTypeOK, PeerTypeOK
<1>4. DecoderTypeOK'
    BY <1>1 DEF IInv, TypeOK, DecoderTypeOK
<1>5. StreamTypeOK' /\ LoopTypeOK'
    BY <1>1, SameGroupsKeep DEF IInv
<1>6. FrameOK' /\ EmitsPending'
    BY <1>1, CallerKeepsFrame DEF RequestAbandon
<1> QED
    BY <1>2, <1>3, <1>4, <1>5, <1>6 DEF IInv, TypeOK

\* read() moves an object from the request's buffer to its caller.
LEMMA ReadRequestKeeps ==
    ASSUME IInv, NEW r \in Requests, ReadRequest(r)
    PROVE  IInv'
<1>1. /\ CallerRuns
      /\ UNCHANGED <<requestVars, clientVars, loopVars, transportVars>>
    BY DEF ReadRequest
<1>2. RequestTypeOK' /\ Bookkeeping'
    BY <1>1, SameRequestsKeep DEF IInv, TypeOK
<1>3. StreamTypeOK'
    BY DEF IInv, TypeOK, StreamTypeOK, ReadRequest
<1>4. ClientTypeOK' /\ LoopTypeOK' /\ PeerTypeOK' /\ DecoderTypeOK'
    BY <1>1, SameGroupsKeep DEF IInv, transportVars
<1>5. FrameOK' /\ EmitsPending'
    BY <1>1, CallerKeepsFrame DEF requestVars
<1> QED
    BY <1>2, <1>3, <1>4, <1>5 DEF IInv, TypeOK

\* What the decoder has next, when it is a message.
LEMMA MessageMeans ==
    ASSUME TypeOK, fc_msgdecoder # <<>>
    PROVE  /\ Message \in Event
           /\ Tail(fc_msgdecoder) \in Seq(Event)
           /\ Message.status \in Status =>
                    Message.msgid \in MsgIds /\ Message.d \in Seq(Value)
<1>1. fc_msgdecoder \in Seq(Event)
    BY DEF TypeOK, DecoderTypeOK
<1>2. Message \in Event /\ Tail(fc_msgdecoder) \in Seq(Event)
    BY <1>1 DEF Message
<1> QED
    BY <1>2 DEF Event, Status

\* A message that is taken for r finds it pending.
LEMMA ReceivesMeans ==
    ASSUME IInv, NEW r \in Requests, Receives(r)
    PROVE  /\ r \in Pending /\ frq_msgid[r] # 0 /\ Registered(r)
           /\ IsPending(r) /\ ReceiveAsserts(r)
<1>1. r \in Pending
    BY MessageMeans, ClientAssumption DEF Receives, Pending, IInv
<1>2. frq_msgid[r] # 0 /\ Registered(r) /\ IsPending(r)
    BY <1>1, PendingMeans DEF IInv, TypeOK
<1>3. ReceiveAsserts(r)
    BY <1>2 DEF ReceiveAsserts, IsPending, IInv, Bookkeeping, AbandonedFailed
<1> QED
    BY <1>1, <1>2, <1>3

\* A DATA or END message for a pending request starts a frame that satisfies FrameOK.
LEMMA OnDataKeeps ==
    ASSUME IInv, NEW r \in Requests, OnData(r)
    PROVE  IInv'
<1>1. /\ fc_msgdecoder # <<>> /\ Message.status \in Status
      /\ IsPending(r) /\ ReceiveAsserts(r) /\ frq_msgid[r] # 0
    BY ReceivesMeans DEF OnData, Receives
<1>2. /\ running' = [kind |-> "emit", req |-> r, rest |-> Message.d,
                     status |-> Message.status, listener |-> FALSE]
      /\ fc_msgdecoder' = Tail(fc_msgdecoder)
      /\ UNCHANGED <<requestVars, clientVars, streamVars, peerVars, crashed>>
    BY <1>1 DEF OnData
<1>3. RequestTypeOK' /\ Bookkeeping'
    BY <1>2, SameRequestsKeep DEF IInv, TypeOK
<1>4. LoopTypeOK'
    BY <1>1, <1>2, MessageMeans DEF IInv, TypeOK, LoopTypeOK, Frame
<1>5. DecoderTypeOK'
    BY <1>1, <1>2, MessageMeans DEF IInv, DecoderTypeOK
<1>6. ClientTypeOK' /\ StreamTypeOK' /\ PeerTypeOK'
    BY <1>2, SameGroupsKeep DEF IInv
<1>7. FrameOK' /\ EmitsPending'
    BY <1>1, <1>2
       DEF IInv, FrameOK, EmitsPending, requestVars, IsPending
<1> QED
    BY <1>3, <1>4, <1>5, <1>6, <1>7 DEF IInv, TypeOK

\* An ERROR takes its request out of fc_pending and defers one 'error' event.
LEMMA OnServerErrorKeeps ==
    ASSUME IInv, NEW r \in Requests, OnServerError(r)
    PROVE  IInv'
<1>1. /\ running.kind = "idle" /\ fc_msgdecoder # <<>>
      /\ r \in Pending /\ ReceiveAsserts(r) /\ Registered(r)
    BY ReceivesMeans DEF OnServerError, Receives, InHandler
<1>2. /\ frq_done_graceful' = frq_done_graceful \cup {r}
      /\ RequestFail({r}, "server")
      /\ fc_msgdecoder' = Tail(fc_msgdecoder)
      /\ UNCHANGED <<clientVars, streamVars, loopVars, peerVars, fc_abandoned,
                     fc_nrpc_started, frq_msgid, frq_abandoned>>
    BY <1>1 DEF OnServerError
<1>3. RequestTypeOK' /\ Bookkeeping'
    BY <1>1, <1>2, DoneKeeps DEF RequestFail, IInv, TypeOK
<1>4. DecoderTypeOK'
    BY <1>1, <1>2, MessageMeans DEF IInv, DecoderTypeOK
<1>5. ClientTypeOK' /\ StreamTypeOK' /\ LoopTypeOK' /\ PeerTypeOK'
    BY <1>2, SameGroupsKeep DEF IInv
<1>6. FrameOK' /\ EmitsPending'
    BY <1>1, <1>2, NoFrame DEF loopVars
<1> QED
    BY <1>3, <1>4, <1>5, <1>6 DEF IInv, TypeOK

\* A message for an abandoned request changes fc_abandoned at most.
LEMMA OnAbandonedMessageKeeps ==
    ASSUME IInv, NEW r \in Requests, OnAbandonedMessage(r)
    PROVE  IInv'
<1>1. /\ running.kind = "idle" /\ fc_msgdecoder # <<>>
      /\ Message.msgid \in MsgIds /\ fc_abandoned[Message.msgid] = r
      /\ r # None
    BY MessageMeans, ClientAssumption DEF OnAbandonedMessage, InHandler, IInv
<1>2. r \in frq_abandoned /\ r \notin frq_done_graceful
    BY <1>1 DEF IInv, Bookkeeping, AbandonedFailed
<1>3. /\ fc_abandoned' = IF GivesIdBack(Message.status)
                         THEN [fc_abandoned EXCEPT ![frq_msgid[r]] = None]
                         ELSE fc_abandoned
      /\ fc_msgdecoder' = Tail(fc_msgdecoder)
      /\ UNCHANGED <<clientVars, streamVars, loopVars, peerVars, fc_pending,
                     fc_nrpc_started, fc_nrpc_done, frq_msgid,
                     frq_done_graceful, frq_abandoned, frq_timeout, frq_error,
                     immediates>>
    BY <1>2 DEF OnAbandonedMessage
<1>4. RequestTypeOK' /\ Bookkeeping'
  <2>1. frq_msgid[r] \in 0 .. MaxMsgId
    BY DEF IInv, TypeOK, RequestTypeOK
  <2> QED
    BY <1>3, <2>1, GiveBackKeeps DEF IInv, TypeOK
<1>5. DecoderTypeOK'
    BY <1>1, <1>3, MessageMeans DEF IInv, DecoderTypeOK
<1>6. ClientTypeOK' /\ StreamTypeOK' /\ LoopTypeOK' /\ PeerTypeOK'
    BY <1>3, SameGroupsKeep DEF IInv
<1>7. FrameOK' /\ EmitsPending'
    BY <1>1, <1>3, NoFrame DEF loopVars
<1> QED
    BY <1>4, <1>5, <1>6, <1>7 DEF IInv, TypeOK

\* fatalError() records the first error and calls out.
LEMMA FatalErrorTypes ==
    ASSUME TypeOK, NEW error \in Fatal,
           FatalError(error) \/ UNCHANGED <<fc_error, client_errors, running>>,
           UNCHANGED <<fc_detached, ida_nextid, crashed>>,
           fc_transport_ended' \in BOOLEAN
    PROVE  ClientTypeOK' /\ LoopTypeOK' /\ running'.kind \in {running.kind, "fatal"}
<1>1. [Idle EXCEPT !.kind = "fatal"] \in Frame
  <2>1. Idle \in Frame
    BY DEF Idle, Frame, Status, Value
  <2> QED
    BY <2>1 DEF Frame
<1>2. ClientTypeOK'
    BY DEF TypeOK, ClientTypeOK, FatalError
<1>3. LoopTypeOK'
    BY <1>1 DEF TypeOK, LoopTypeOK, FatalError
<1> QED
    BY <1>2, <1>3 DEF FatalError, Idle

\* The handlers that call fatalError() keep it up to the emit.
LEMMA FatalStepsKeep ==
    ASSUME IInv, OnUnknownMsgid \/ OnDecoderError \/ OnTransportEnd \/ OnTransportError
    PROVE  IInv'
<1>1. /\ running.kind = "idle"
      /\ \E error \in Fatal :
            FatalError(error) \/ UNCHANGED <<fc_error, client_errors, running>>
      /\ UNCHANGED <<requestVars, streamVars, peerVars, fc_detached,
                     ida_nextid, crashed>>
      /\ fc_transport_ended' \in BOOLEAN
      /\ \/ UNCHANGED fc_msgdecoder
         \/ fc_msgdecoder # <<>> /\ fc_msgdecoder' = Tail(fc_msgdecoder)
    BY DEF OnUnknownMsgid, OnDecoderError, OnTransportEnd, OnTransportError,
           InHandler, Fatal, IInv, TypeOK, ClientTypeOK, transportVars
<1>2. RequestTypeOK' /\ Bookkeeping'
    BY <1>1, SameRequestsKeep DEF IInv, TypeOK
<1>3. ClientTypeOK' /\ LoopTypeOK' /\ running'.kind # "emit"
    BY <1>1, FatalErrorTypes DEF IInv
<1>4. DecoderTypeOK'
    BY <1>1, MessageMeans, SameGroupsKeep DEF IInv, DecoderTypeOK
<1>5. StreamTypeOK' /\ PeerTypeOK'
    BY <1>1, SameGroupsKeep DEF IInv
<1>6. FrameOK' /\ EmitsPending'
    BY <1>1, <1>3, NoFrame
<1> QED
    BY <1>2, <1>3, <1>4, <1>5, <1>6 DEF IInv, TypeOK

\* A step that ends a handler, having abandoned some pending requests or none.
LEMMA HandlerEndKeeps ==
    ASSUME IInv, running' = Idle, RequestTypeOK', Bookkeeping',
           UNCHANGED <<clientVars, streamVars, crashed, transportVars>>
    PROVE  IInv'
<1>1. LoopTypeOK'
    BY DEF IInv, TypeOK, LoopTypeOK, Idle, Frame, Status, Value
<1>2. ClientTypeOK' /\ StreamTypeOK' /\ PeerTypeOK' /\ DecoderTypeOK'
    BY SameGroupsKeep DEF IInv, transportVars
<1>3. FrameOK' /\ EmitsPending'
    BY NoFrame DEF Idle
<1> QED
    BY <1>1, <1>2, <1>3 DEF IInv, TypeOK

\* The rest of fatalError() keeps it, abandoning every pending request.
LEMMA AbandonAllKeeps ==
    ASSUME IInv, AbandonAll
    PROVE  IInv'
<1>1. /\ RequestAbandon(Pending, "fatal") /\ running' = Idle
      /\ UNCHANGED <<clientVars, streamVars, crashed, transportVars>>
    BY AssertionsHold DEF AbandonAll
<1>2. RequestTypeOK' /\ Bookkeeping'
    BY <1>1, AbandonKeeps DEF IInv, TypeOK, Causes
<1> QED
    BY <1>1, <1>2, HandlerEndKeeps

\* A null that is not ignored abandons the request and ends the frame.
LEMMA RejectNullKeeps ==
    ASSUME IInv, RejectNull
    PROVE  IInv'
<1>1. running.req \in Requests /\ frq_msgid[running.req] # 0
    BY DEF RejectNull, InHandler, IInv, FrameOK
<1>2. /\ RequestAbandon({running.req} \cap Pending, "null") /\ running' = Idle
      /\ UNCHANGED <<clientVars, streamVars, crashed, transportVars>>
    BY <1>1, AssertionsHold DEF RejectNull
<1>3. RequestTypeOK' /\ Bookkeeping'
  <2>1. {running.req} \cap Pending \in SUBSET Pending
    OBVIOUS
  <2> QED
    BY <1>2, <2>1, AbandonKeeps DEF IInv, TypeOK, Causes
<1> QED
    BY <1>2, <1>3, HandlerEndKeeps

\* The end of a DATA message ends the frame.
LEMMA DataDoneKeeps ==
    ASSUME IInv, DataDone
    PROVE  IInv'
<1>1. /\ running' = Idle
      /\ UNCHANGED <<requestVars, clientVars, streamVars, crashed, transportVars>>
    BY DEF DataDone
<1>2. RequestTypeOK' /\ Bookkeeping'
    BY <1>1, SameRequestsKeep DEF IInv, TypeOK
<1> QED
    BY <1>1, <1>2, HandlerEndKeeps

\* EndDone asserts what a listener that uses the API can make false.
LEMMA EndDoneKeeps ==
    ASSUME IInv, EndDone
    PROVE  IInv'
<1> DEFINE r == running.req
<1>1. /\ r \in Requests /\ frq_msgid[r] # 0
      /\ ~Reentrant => IsPending(r)
    BY DEF EndDone, InHandler, IInv, FrameOK, EmitsPending
<1>2. CASE Registered(r)
  <2>1. r \in Pending
    BY <1>1, <1>2, RegisteredMeans DEF IInv, TypeOK
  <2>2. /\ frq_done_graceful' = frq_done_graceful \cup {r}
        /\ RequestComplete({r}) /\ running' = Idle
        /\ UNCHANGED <<clientVars, streamVars, fc_abandoned, fc_nrpc_started,
                       frq_msgid, frq_abandoned, frq_error, immediates,
                       crashed, transportVars>>
    BY <1>2 DEF EndDone
  <2>3. RequestTypeOK' /\ Bookkeeping'
    BY <2>1, <2>2, DoneKeeps DEF IInv, TypeOK
  <2> QED
    BY <2>2, <2>3, HandlerEndKeeps
<1>3. CASE ~Registered(r)
  <2>1. Reentrant /\ Crash
    BY <1>1, <1>3, AssertionsHold DEF EndDone
  <2>2. RequestTypeOK' /\ Bookkeeping'
    BY <2>1, SameRequestsKeep DEF Crash, IInv, TypeOK
  <2>3. ClientTypeOK' /\ StreamTypeOK' /\ PeerTypeOK' /\ DecoderTypeOK'
    BY <2>1, SameGroupsKeep DEF Crash, IInv, transportVars
  <2>4. LoopTypeOK' /\ FrameOK' /\ EmitsPending'
    BY <2>1 DEF Crash, IInv, TypeOK, LoopTypeOK, FrameOK, EmitsPending, requestVars
  <2> QED
    BY <2>2, <2>3, <2>4 DEF IInv, TypeOK
<1> QED
    BY <1>2, <1>3

\* Going on with the objects of a message keeps to the message.
LEMMA EmissionGoesOn ==
    ASSUME IInv, EmitObject \/ SkipNull
    PROVE  /\ running.kind = "emit" /\ running.rest # <<>>
           /\ running \in Frame /\ running.req \in Requests
           /\ \E b \in BOOLEAN :
                running' = [running EXCEPT !.rest = Tail(@), !.listener = b]
<1>1. /\ running.kind = "emit" /\ running.rest # <<>>
      /\ running \in Frame /\ running.req \in Requests
    BY DEF EmitObject, SkipNull, InHandler, IInv, TypeOK, LoopTypeOK, FrameOK
<1>2. CASE SkipNull
  <2>1. running' = [running EXCEPT !.rest = Tail(@), !.listener = FALSE]
      BY <1>2 DEF SkipNull
  <2> QED
      BY <1>1, <2>1
<1>3. CASE EmitObject
  <2>1. running' = [running EXCEPT !.rest = Tail(@),
                                   !.listener = running.req \in Flowing]
      BY <1>3 DEF EmitObject
  <2>2. (running.req \in Flowing) \in BOOLEAN
      OBVIOUS
  <2> QED
      BY <1>1, <2>1, <2>2
<1> QED
    BY <1>2, <1>3

\* Going on with the objects of a message keeps the inductive invariant.
LEMMA EmitStepsKeep ==
    ASSUME IInv, EmitObject \/ SkipNull
    PROVE  IInv'
<1>1. /\ running.kind = "emit" /\ running.rest # <<>>
      /\ running \in Frame /\ running.req \in Requests
    BY EmissionGoesOn
<1>2. UNCHANGED <<requestVars, clientVars, crashed, transportVars, terminal>>
    BY DEF EmitObject, SkipNull, streamVars
<1>3. \E b \in BOOLEAN : running' = [running EXCEPT !.rest = Tail(@), !.listener = b]
    BY EmissionGoesOn
<1>4. RequestTypeOK' /\ Bookkeeping'
    BY <1>2, SameRequestsKeep DEF IInv, TypeOK
<1>5. ClientTypeOK' /\ PeerTypeOK' /\ DecoderTypeOK'
    BY <1>2, SameGroupsKeep DEF IInv, transportVars
<1>6. running.rest \in Seq(Value)
    BY <1>1 DEF Frame
<1>7. Tail(running.rest) \in Seq(Value) /\ Head(running.rest) \in Value
    BY <1>1, <1>6
<1>8. LoopTypeOK'
    BY <1>1, <1>2, <1>3, <1>7 DEF Frame, IInv, TypeOK, LoopTypeOK
<1>9. StreamTypeOK'
  <2>1. CASE SkipNull
    BY <2>1, SameGroupsKeep DEF SkipNull, IInv
  <2>2. CASE EmitObject
    <3> DEFINE object == Head(running.rest)
    <3>1. object \in Object
        BY <1>7, <2>2 DEF EmitObject, Value
    <3>2. /\ Append(delivered[running.req], object) \in Seq(Object)
          /\ Append(frq_buffer[running.req], object) \in Seq(Object)
        BY <1>1, <3>1, AppendType DEF IInv, TypeOK, StreamTypeOK
    <3> QED
        BY <2>2, <3>2 DEF EmitObject, IInv, TypeOK, StreamTypeOK
  <2> QED
    BY <2>1, <2>2
<1>10. FrameOK' /\ EmitsPending'
    BY <1>1, <1>2, <1>3
       DEF Frame, IInv, FrameOK, EmitsPending, requestVars, IsPending
<1> QED
    BY <1>4, <1>5, <1>8, <1>9, <1>10 DEF IInv, TypeOK

\* An expired timer abandons its request, which is pending.
LEMMA OnRpcTimeoutKeeps ==
    ASSUME IInv, NEW r \in Requests, OnRpcTimeout(r)
    PROVE  IInv'
<1>1. running.kind = "idle" /\ frq_msgid[r] # 0 /\ IsPending(r)
    BY DEF OnRpcTimeout, InHandler, IInv, Bookkeeping, PendingAgrees
<1>2. Registered(r) /\ r \in Pending
    BY <1>1, AssertionsHold
<1>3. /\ RequestAbandon({r}, "timeout")
      /\ UNCHANGED <<clientVars, streamVars, loopVars, transportVars>>
    BY <1>1, <1>2 DEF OnRpcTimeout
<1>4. RequestTypeOK' /\ Bookkeeping'
    BY <1>2, <1>3, AbandonKeeps DEF IInv, TypeOK, Causes
<1>5. ClientTypeOK' /\ StreamTypeOK' /\ LoopTypeOK' /\ PeerTypeOK' /\ DecoderTypeOK'
    BY <1>3, SameGroupsKeep DEF IInv, transportVars
<1>6. FrameOK' /\ EmitsPending'
    BY <1>1, <1>3, NoFrame DEF loopVars
<1> QED
    BY <1>4, <1>5, <1>6 DEF IInv, TypeOK

\* The events that report a request's outcome.
LEMMA OutcomeKeeps ==
    ASSUME IInv, NEW r \in Requests, EmitRequestError(r) \/ EmitRequestEnd(r)
    PROVE  IInv'
<1>1. /\ running.kind = "idle"
      /\ immediates' \subseteq immediates
      /\ \E event \in {"end", "error"} :
            terminal' = [terminal EXCEPT ![r] = Append(@, event)]
      /\ UNCHANGED <<clientVars, loopVars, fc_pending, fc_abandoned,
                     fc_nrpc_started, fc_nrpc_done, frq_msgid,
                     frq_done_graceful, frq_abandoned, frq_timeout, frq_error,
                     frq_buffer, delivered, transportVars>>
    BY DEF EmitRequestError, EmitRequestEnd, InHandler, requestVars
<1>2. RequestTypeOK' /\ Bookkeeping'
  <2>1. 0 \in 0 .. MaxMsgId
    BY ClientAssumption
  <2> QED
    BY <1>1, <2>1, GiveBackKeeps DEF IInv, TypeOK
<1>3. StreamTypeOK'
  <2>1. PICK event \in {"end", "error"} :
            terminal' = [terminal EXCEPT ![r] = Append(@, event)]
    BY <1>1
  <2>2. Append(terminal[r], event) \in Seq({"end", "error"})
    BY AppendType DEF IInv, TypeOK, StreamTypeOK
  <2> QED
    BY <1>1, <2>1, <2>2 DEF IInv, TypeOK, StreamTypeOK
<1>4. ClientTypeOK' /\ LoopTypeOK' /\ PeerTypeOK' /\ DecoderTypeOK'
    BY <1>1, SameGroupsKeep DEF IInv, transportVars
<1>5. FrameOK' /\ EmitsPending'
    BY <1>1, NoFrame DEF loopVars
<1> QED
    BY <1>2, <1>3, <1>4, <1>5 DEF IInv, TypeOK

\* What the peer sends is what a decoder may have.
LEMMA SendsTypes ==
    ASSUME TypeOK, NEW m \in Event, Sends(m)
    PROVE  DecoderTypeOK'
BY AppendType DEF TypeOK, DecoderTypeOK, Sends

\* The peer's steps change its own state and the queues only.
LEMMA PeerOnly ==
    ASSUME IInv, PeerTypeOK', DecoderTypeOK',
           UNCHANGED <<requestVars, clientVars, streamVars, loopVars>>
    PROVE  IInv'
<1>1. RequestTypeOK' /\ Bookkeeping'
    BY SameRequestsKeep DEF IInv, TypeOK
<1>2. ClientTypeOK' /\ StreamTypeOK' /\ LoopTypeOK'
    BY SameGroupsKeep DEF IInv
<1>3. FrameOK' /\ EmitsPending'
    BY DEF IInv, FrameOK, EmitsPending, loopVars, requestVars, IsPending
<1> QED
    BY <1>1, <1>2, <1>3 DEF IInv, TypeOK

\* The peer takes a request off the queue.
LEMMA PeerAcceptsKeeps ==
    ASSUME IInv, PeerAccepts
    PROVE  IInv'
<1>1. /\ fc_msgencoder \in Seq([msgid : MsgIds, req : Requests])
      /\ fc_msgencoder # <<>>
    BY DEF IInv, TypeOK, PeerTypeOK, PeerAccepts
<1>2. /\ Head(fc_msgencoder) \in [msgid : MsgIds, req : Requests]
      /\ Tail(fc_msgencoder) \in Seq([msgid : MsgIds, req : Requests])
    BY <1>1, HeadTailType
<1>3. PeerTypeOK'
    BY <1>2 DEF IInv, TypeOK, PeerTypeOK, PeerAccepts
<1>4. DecoderTypeOK'
    BY SameGroupsKeep DEF IInv, PeerAccepts
<1> QED
    BY <1>3, <1>4, PeerOnly DEF PeerAccepts

\* What a peer sends, honest or not, is what a decoder may have.
LEMMA PeerSendsKeep ==
    ASSUME IInv,
           \/ \E id \in MsgIds : PeerSendsData(id) \/ PeerFinishes(id)
           \/ PeerSendsAnything \/ PeerStops
    PROVE  IInv'
<1>1. PeerTypeOK'
  <2>1. /\ fc_msgencoder' = fc_msgencoder
        /\ decoder_open' \in {decoder_open, FALSE}
        /\ npeer' \in {npeer, npeer + 1}
        /\ \/ peer' = peer
           \/ \E id \in MsgIds : peer' = [peer EXCEPT ![id] = None]
    BY DEF PeerSendsData, PeerFinishes, PeerSendsAnything, PeerStops
  <2>2. /\ fc_msgencoder \in Seq([msgid : MsgIds, req : Requests])
        /\ decoder_open \in BOOLEAN /\ npeer \in Nat
        /\ peer \in [MsgIds -> Requests \cup {None}]
    BY DEF IInv, TypeOK, PeerTypeOK
  <2>3. peer' \in [MsgIds -> Requests \cup {None}]
    BY <2>1, <2>2
  <2>4. npeer' \in Nat
    BY <2>1, <2>2
  <2>5. decoder_open' \in BOOLEAN
    BY <2>1, <2>2, Zenon
  <2> QED
    BY <2>1, <2>2, <2>3, <2>4, <2>5 DEF PeerTypeOK
<1>2. \E m \in Event : Sends(m)
  <2>1. ASSUME NEW id \in MsgIds, PeerSendsData(id)
        PROVE  \E m \in Event : Sends(m)
    <3>1. PICK object \in Object :
            Sends([status |-> "data", msgid |-> id, d |-> <<object>>,
                   req |-> peer[id]])
        BY <2>1 DEF PeerSendsData
    <3>2. <<object>> \in Seq(Value) /\ peer[id] \in Requests \cup {None}
        BY DEF Value, IInv, TypeOK, PeerTypeOK
    <3> QED
        BY <3>1, <3>2 DEF Event, Status
  <2>2. ASSUME NEW id \in MsgIds, PeerFinishes(id)
        PROVE  \E m \in Event : Sends(m)
    <3>1. PICK status \in {"end", "error"} :
            Sends([status |-> status, msgid |-> id, d |-> <<>>, req |-> peer[id]])
        BY <2>2 DEF PeerFinishes
    <3>2. <<>> \in Seq(Value) /\ peer[id] \in Requests \cup {None}
        BY DEF IInv, TypeOK, PeerTypeOK
    <3> QED
        BY <3>1, <3>2 DEF Event, Status
  <2>3. CASE PeerSendsAnything
    <3>1. PICK status \in Status, id \in MsgIds, d \in Payloads \cup {<<>>} :
            Sends([status |-> status, msgid |-> id, d |-> d, req |-> None])
        BY <2>3 DEF PeerSendsAnything
    <3>2. Payloads \subseteq Seq(Value)
        BY ClientAssumption DEF Value
    <3>3. <<>> \in Seq(Value)
        OBVIOUS
    <3> QED
        BY <3>1, <3>2, <3>3 DEF Event
  <2>4. CASE PeerStops
    BY <2>4 DEF PeerStops, Event
  <2> QED
    BY <2>1, <2>2, <2>3, <2>4
<1>3. DecoderTypeOK'
    BY <1>2, SendsTypes DEF IInv
<1> QED
    BY <1>1, <1>3, PeerOnly
       DEF PeerSendsData, PeerFinishes, PeerSendsAnything, PeerStops
-----------------------------------------------------------------------------
\* The inductive invariant holds of a new FastClient.
LEMMA InitHolds == Init => IInv
<1> SUFFICES ASSUME Init PROVE IInv
    OBVIOUS
<1>1. TypeOK
  <2>1. RequestTypeOK
    <3>1. fc_pending \in [MsgIds -> Requests \cup {None}]
        BY DEF Init
    <3>2. fc_abandoned \in [MsgIds -> Requests \cup {None}]
        BY DEF Init
    <3>3. frq_msgid \in [Requests -> 0 .. MaxMsgId]
        BY ClientAssumption DEF Init
    <3>4. frq_error \in [Requests -> Causes]
        BY DEF Init, Causes
    <3> QED
        BY <3>1, <3>2, <3>3, <3>4 DEF Init, RequestTypeOK
  <2>4. ClientTypeOK
    <3>1. 1 \in MsgIds
        BY ClientAssumption DEF MsgIds
    <3> QED
        BY <3>1 DEF Init, ClientTypeOK, Fatal
  <2>2. StreamTypeOK /\ PeerTypeOK /\ DecoderTypeOK
    BY DEF Init, StreamTypeOK, PeerTypeOK, DecoderTypeOK
  <2>3. LoopTypeOK
    <3>1. Idle \in Frame
        BY DEF Idle, Frame, Status, Value
    <3> QED
        BY <3>1 DEF Init, LoopTypeOK
  <2> QED
    BY <2>1, <2>2, <2>3, <2>4 DEF TypeOK
<1>2. Pending = {} /\ Cardinality(Pending) = 0
    BY FS_EmptySet DEF Init, Pending
<1>3. Bookkeeping
    BY <1>2 DEF Init, Bookkeeping, PendingAgrees, PendingById, Unasked,
                AbandonedFailed
<1>4. FrameOK /\ EmitsPending
    BY DEF Init, Idle, FrameOK, EmitsPending
<1> QED
    BY <1>1, <1>3, <1>4 DEF IInv

\* Every step of the client and its environment keeps the inductive invariant.
LEMMA StepKeeps == IInv /\ [Next]_vars => IInv'
<1> SUFFICES ASSUME IInv, [Next]_vars PROVE IInv'
    OBVIOUS
<1>1. CASE Next
  <2>1. CASE CallerStep
    BY <2>1, DetachKeeps, RpcKeeps, AbandonStepKeeps, ReadRequestKeeps
       DEF CallerStep
  <2>2. CASE HandlerStep
    BY <2>2, FatalStepsKeep, AbandonAllKeeps, EmitStepsKeep, RejectNullKeeps,
       DataDoneKeeps, EndDoneKeeps, OnDataKeeps, OnServerErrorKeeps,
       OnAbandonedMessageKeeps
       DEF HandlerStep
  <2>3. CASE OnTransportError
    BY <2>3, FatalStepsKeep
  <2>4. CASE PeerStep
    BY <2>4, PeerAcceptsKeeps, PeerSendsKeep DEF PeerStep
  <2>5. CASE \E r \in Requests : RequestStep(r)
    BY <2>5, OnRpcTimeoutKeeps, OutcomeKeeps DEF RequestStep
  <2> QED
    BY <1>1, <2>1, <2>2, <2>3, <2>4, <2>5 DEF Next
<1>2. CASE UNCHANGED vars
    BY <1>2, PeerOnly, SameGroupsKeep DEF vars, transportVars, IInv
<1> QED
    BY <1>1, <1>2

\* The inductive invariant, of every behaviour.
THEOREM Invariance == Spec => []IInv
<1> QED
    BY InitHolds, StepKeeps, PTL DEF Spec

\* Every variable of the client and its environment keeps its type, whatever
\* the peer sends and the caller does.
THEOREM TypeCorrect == Spec => []TypeOK
<1>1. IInv => TypeOK
    BY DEF IInv
<1> QED
    BY <1>1, Invariance, PTL

\* For any number of requests and of message ids, against any peer: a request is
\* pending exactly while its message id leads to it in fc_pending, timers are
\* armed only for pending requests, and the counters agree with the table.
THEOREM PendingCorrect == Spec => []PendingAgrees
<1>1. IInv => PendingAgrees
    BY DEF IInv, Bookkeeping
<1> QED
    BY <1>1, Invariance, PTL

\* No assertion of fast_client.js fails against any peer, if callers leave the
\* API alone inside a 'data' listener.  (The run client_reentrant shows what
\* happens if one does not.)
THEOREM AssertionsNeverFail ==
    ASSUME ~Reentrant
    PROVE  Spec => []NoAssertionFailure
<1>1. IInv => NoAssertionFailure
    BY DEF IInv, EmitsPending, NoAssertionFailure
<1> QED
    BY <1>1, Invariance, PTL
-----------------------------------------------------------------------------
(* What an error of the client leaves *)

\* The first error is counted once, and between recording it and abandoning the
\* requests fatalError() is still running.
ErrorReported ==
    /\ client_errors = IF fc_error = "none" THEN 0 ELSE 1
    /\ (fc_error # "none" /\ running.kind # "fatal") => Pending = {}

\* A step that reports no error, makes no request pending and does not end
\* fatalError().
Quiet ==
    /\ UNCHANGED <<fc_error, client_errors>>
    /\ \A id \in MsgIds : fc_pending'[id] \in {fc_pending[id], None}
    /\ running.kind = "fatal" => running'.kind = "fatal"

\* Requests only ever leave fc_pending in such a step.
LEMMA QuietKeeps == ErrorReported /\ Quiet => ErrorReported'
BY DEF ErrorReported, Quiet, Pending

\* A failed assertion and a step that leaves the client alone are quiet.
LEMMA NothingIsQuiet ==
    ASSUME UNCHANGED <<requestVars, clientVars, running>>
    PROVE  Quiet
BY DEF Quiet, requestVars, clientVars

\* Completing requests, in any way, takes entries out of fc_pending only.
LEMMA CompletingRemoves ==
    ASSUME NEW R, RequestComplete(R)
    PROVE  \A id \in MsgIds : fc_pending'[id] \in {fc_pending[id], None}
BY DEF RequestComplete

\* The caller makes a request pending only while there is no error.
LEMMA CallerReports == ErrorReported /\ CallerStep => ErrorReported'
<1> SUFFICES ASSUME ErrorReported, CallerStep PROVE ErrorReported'
    OBVIOUS
<1>1. CASE Detach
  <2>1. CASE RequestAbandon(Pending, "detached") /\ running' = running
             /\ UNCHANGED <<fc_error, client_errors>>
    BY <2>1, CompletingRemoves, QuietKeeps
       DEF RequestAbandon, RequestFail, Quiet
  <2>2. CASE Crash
    BY <2>2, NothingIsQuiet, QuietKeeps DEF Crash
  <2> QED
    BY <1>1, <2>1, <2>2 DEF Detach, loopVars
<1>2. ASSUME NEW r \in Requests, Rpc(r) PROVE ErrorReported'
  <2>1. UNCHANGED <<fc_error, client_errors, running>>
    BY <1>2 DEF Rpc, loopVars
  <2>2. CASE RpcSkipped(r)
    BY <2>1, <2>2, QuietKeeps DEF RpcSkipped, Quiet
  <2>3. CASE RpcSent(r, Allocator!Alloc(ida_nextid, AllocatedIds))
    BY <2>1, <2>3 DEF RpcSent, Disconnected, ErrorReported
  <2> QED
    BY <1>2, <2>2, <2>3 DEF Rpc
<1>3. ASSUME NEW r \in Requests, Abandon(r) PROVE ErrorReported'
  <2>1. CASE RequestAbandon({r}, "user") /\ UNCHANGED <<clientVars, loopVars>>
    BY <2>1, CompletingRemoves, QuietKeeps
       DEF RequestAbandon, RequestFail, Quiet, clientVars, loopVars
  <2>2. CASE Crash
    BY <2>2, NothingIsQuiet, QuietKeeps DEF Crash
  <2> QED
    BY <1>3, <2>1, <2>2 DEF Abandon
<1>4. ASSUME NEW r \in Requests, ReadRequest(r) PROVE ErrorReported'
    BY <1>4, NothingIsQuiet, QuietKeeps DEF ReadRequest, loopVars
<1> QED
    BY <1>1, <1>2, <1>3, <1>4 DEF CallerStep

\* fatalError() counts the first error and stays in its handler, and ignores
\* any later one.
LEMMA FatalErrorReports ==
    ASSUME ErrorReported, NEW error, error # "none", FatalError(error),
           running.kind = "idle", fc_pending' = fc_pending
    PROVE  ErrorReported'
<1>1. CASE fc_error # "none"
    BY <1>1, QuietKeeps DEF FatalError, Quiet
<1>2. CASE fc_error = "none"
  <2>1. fc_error' = error /\ client_errors' = 1 /\ running'.kind = "fatal"
    BY <1>2 DEF FatalError, ErrorReported, Idle
  <2> QED
    BY <2>1 DEF ErrorReported
<1> QED
    BY <1>1, <1>2

\* The events that may be errors: only a first one counts.
LEMMA ErrorEventsReport ==
    ASSUME ErrorReported,
           OnUnknownMsgid \/ OnDecoderError \/ OnTransportEnd
           \/ OnTransportError
    PROVE  ErrorReported'
<1>1. running.kind = "idle" /\ fc_pending' = fc_pending
    BY DEF OnUnknownMsgid, OnDecoderError, OnTransportEnd, OnTransportError,
           InHandler, requestVars
<1>2. \/ \E error \in Fatal \ {"none"} : FatalError(error)
      \/ UNCHANGED <<fc_error, client_errors, running>>
    BY DEF OnUnknownMsgid, OnDecoderError, OnTransportEnd, OnTransportError,
           Fatal
<1>3. CASE UNCHANGED <<fc_error, client_errors, running>>
    BY <1>1, <1>3, QuietKeeps DEF Quiet
<1> QED
    BY <1>1, <1>2, <1>3, FatalErrorReports

\* requestAbandonAll() leaves nothing pending.
LEMMA AbandonAllReports == ErrorReported /\ AbandonAll => ErrorReported'
<1> SUFFICES ASSUME ErrorReported, AbandonAll PROVE ErrorReported'
    OBVIOUS
<1>1. CASE RequestAbandon(Pending, "fatal") /\ UNCHANGED clientVars
  <2>1. \A id \in MsgIds : fc_pending'[id] = None
    BY <1>1 DEF RequestAbandon, RequestFail, RequestComplete, Pending
  <2>2. Pending' = {}
    BY <2>1 DEF Pending
  <2> QED
    BY <1>1, <2>2 DEF ErrorReported, clientVars
<1>2. CASE Crash
    BY <1>2, NothingIsQuiet, QuietKeeps DEF Crash
<1> QED
    BY <1>1, <1>2 DEF AbandonAll

\* The steps of requestEmitData() are quiet.
LEMMA EmittingReports ==
    ASSUME ErrorReported,
           EmitObject \/ SkipNull \/ RejectNull \/ DataDone \/ EndDone
    PROVE  ErrorReported'
<1>1. running.kind # "fatal"
    BY DEF EmitObject, SkipNull, RejectNull, DataDone, EndDone, InHandler
<1>2. CASE Crash
    BY <1>2, NothingIsQuiet, QuietKeeps DEF Crash
<1>3. CASE UNCHANGED <<requestVars, clientVars>>
    BY <1>1, <1>3, QuietKeeps DEF Quiet, requestVars, clientVars
<1>4. CASE (\E R : RequestComplete(R)) /\ UNCHANGED clientVars
    BY <1>1, <1>4, CompletingRemoves, QuietKeeps DEF Quiet, clientVars
<1> QED
    BY <1>2, <1>3, <1>4
       DEF EmitObject, SkipNull, RejectNull, DataDone, EndDone, RequestAbandon,
           RequestFail

\* So is what the client does with a message or a timer.
LEMMA RequestEventsReport ==
    ASSUME ErrorReported, NEW r \in Requests,
           \/ OnData(r) \/ OnServerError(r) \/ OnAbandonedMessage(r)
           \/ RequestStep(r)
    PROVE  ErrorReported'
<1>1. running.kind # "fatal"
    BY DEF OnData, OnServerError, OnAbandonedMessage, RequestStep, Receives,
           OnRpcTimeout, EmitRequestError, EmitRequestEnd, InHandler
<1>2. CASE Crash
    BY <1>2, NothingIsQuiet, QuietKeeps DEF Crash
<1>3. CASE UNCHANGED <<fc_pending, clientVars>>
    BY <1>1, <1>3, QuietKeeps DEF Quiet, clientVars
<1>4. CASE (\E R : RequestComplete(R)) /\ UNCHANGED clientVars
    BY <1>1, <1>4, CompletingRemoves, QuietKeeps DEF Quiet, clientVars
<1>5. CASE OnData(r) \/ OnServerError(r)
    BY <1>2, <1>3, <1>4, <1>5
       DEF OnData, OnServerError, RequestFail, requestVars
<1>6. CASE OnAbandonedMessage(r)
    BY <1>2, <1>3, <1>6 DEF OnAbandonedMessage
<1>7. CASE RequestStep(r)
    BY <1>2, <1>3, <1>4, <1>7
       DEF RequestStep, OnRpcTimeout, EmitRequestError, EmitRequestEnd,
           RequestAbandon, RequestFail, requestVars
<1> QED
    BY <1>5, <1>6, <1>7

\* The peer has no part in it.
LEMMA PeerReports == ErrorReported /\ PeerStep => ErrorReported'
<1> SUFFICES ASSUME ErrorReported, PeerStep PROVE ErrorReported'
    OBVIOUS
<1>1. UNCHANGED <<requestVars, clientVars, running>>
    BY DEF PeerStep, PeerAccepts, PeerSendsAnything, PeerStops, PeerSendsData,
           PeerFinishes, loopVars
<1> QED
    BY <1>1, NothingIsQuiet, QuietKeeps

\* However a client fails, whatever its caller does meanwhile: it emits one
\* 'error' at most, and once fatalError() is over no request is pending, nor
\* ever will be.
THEOREM ErrorsFailEverything == Spec => []ErrorFailsEverything
<1>1. Init => ErrorReported
    BY DEF Init, ErrorReported
<1>2. ErrorReported /\ [Next]_vars => ErrorReported'
  <2> SUFFICES ASSUME ErrorReported, [Next]_vars PROVE ErrorReported'
      OBVIOUS
  <2>1. CASE CallerStep
      BY <2>1, CallerReports
  <2>2. CASE HandlerStep
      BY <2>2, ErrorEventsReport, AbandonAllReports, EmittingReports,
         RequestEventsReport
         DEF HandlerStep
  <2>3. CASE OnTransportError
      BY <2>3, ErrorEventsReport
  <2>4. CASE PeerStep
      BY <2>4, PeerReports
  <2>5. CASE \E r \in Requests : RequestStep(r)
      BY <2>5, RequestEventsReport
  <2>6. CASE UNCHANGED vars
      BY <2>6, NothingIsQuiet, QuietKeeps DEF vars, loopVars
  <2> QED
      BY <2>1, <2>2, <2>3, <2>4, <2>5, <2>6 DEF Next
<1>3. ErrorReported => ErrorFailsEverything
    BY DEF ErrorReported, ErrorFailsEverything
<1> QED
    BY <1>1, <1>2, <1>3, PTL DEF Spec
-----------------------------------------------------------------------------
(* How requests get their outcome when the client is disconnected *)

\* Once the client has no transport nothing is pending, save while fatalError()
\* is still about to abandon it.
GoneClear == Disconnected /\ running.kind # "fatal" => Pending = {}

\* A request that failed has had its 'error' event or has it scheduled.
ErrorsDue ==
    \A r \in Requests :
        frq_error[r] # "none" /\ terminal[r] = <<>> => r \in immediates

\* A step that disconnects nothing, makes no request pending and does not end
\* fatalError(); one that abandons all; one that fatalError() is the rest of.
Calm ==
    /\ Quiet
    /\ UNCHANGED <<fc_detached, fc_transport_ended>>
Clears == Pending' = {}
Fails  == running'.kind = "fatal"

LEMMA GoneStays ==
    ASSUME GoneClear, Calm \/ Clears \/ Fails
    PROVE  GoneClear'
BY DEF GoneClear, Calm, Clears, Fails, Quiet, Disconnected, Pending

LEMMA NothingIsCalm ==
    ASSUME UNCHANGED <<requestVars, clientVars, running>>
    PROVE  Calm
BY NothingIsQuiet DEF Calm, clientVars

LEMMA AbandoningClears ==
    ASSUME NEW cause, RequestAbandon(Pending, cause)
    PROVE  Clears
<1>1. \A id \in MsgIds : fc_pending'[id] = None
    BY DEF RequestAbandon, RequestFail, RequestComplete, Pending
<1> QED
    BY <1>1 DEF Clears, Pending

LEMMA CompletingIsCalm ==
    ASSUME NEW R, RequestComplete(R), UNCHANGED clientVars,
           running.kind # "fatal" \/ running' = running
    PROVE  Calm
BY CompletingRemoves DEF Calm, Quiet, clientVars

LEMMA CallerClears == GoneClear /\ CallerStep => GoneClear'
<1> SUFFICES ASSUME GoneClear, CallerStep PROVE GoneClear'
    OBVIOUS
<1>1. CASE Crash
    BY <1>1, NothingIsCalm, GoneStays DEF Crash
<1>2. CASE Detach /\ ~Crash
    BY <1>2, AbandoningClears, GoneStays DEF Detach
<1>3. ASSUME NEW r \in Requests, Rpc(r) PROVE GoneClear'
  <2>1. UNCHANGED <<clientVars, running>> \/
        UNCHANGED <<fc_error, fc_detached, fc_transport_ended, client_errors, running>>
      BY <1>3 DEF Rpc, loopVars
  <2>2. CASE RpcSkipped(r)
      BY <2>1, <2>2, GoneStays DEF RpcSkipped, Calm, Quiet, clientVars
  <2>3. CASE RpcSent(r, Allocator!Alloc(ida_nextid, AllocatedIds))
      BY <2>1, <2>3 DEF RpcSent, Disconnected, GoneClear, clientVars
  <2> QED
      BY <1>3, <2>2, <2>3 DEF Rpc
<1>4. ASSUME NEW r \in Requests, Abandon(r), ~Crash PROVE GoneClear'
    BY <1>4, CompletingIsCalm, GoneStays
       DEF Abandon, RequestAbandon, RequestFail, loopVars
<1>5. ASSUME NEW r \in Requests, ReadRequest(r) PROVE GoneClear'
    BY <1>5, NothingIsCalm, GoneStays DEF ReadRequest, loopVars
<1> QED
    BY <1>1, <1>2, <1>3, <1>4, <1>5 DEF CallerStep

\* End-of-stream is an error unless nothing is pending.
LEMMA ErrorEventsClear ==
    ASSUME IInv, GoneClear,
           OnUnknownMsgid \/ OnDecoderError \/ OnTransportEnd
           \/ OnTransportError
    PROVE  GoneClear'
<1>1. running.kind = "idle" /\ fc_pending' = fc_pending /\ Pending' = Pending
    BY DEF OnUnknownMsgid, OnDecoderError, OnTransportEnd, OnTransportError,
           InHandler, requestVars, Pending
<1>2. ASSUME NEW error, FatalError(error) PROVE GoneClear'
  <2>1. CASE fc_error # "none"
      BY <1>1, <1>2, <2>1 DEF FatalError, GoneClear, Disconnected
  <2>2. CASE fc_error = "none"
      BY <1>2, <2>2, GoneStays DEF FatalError, Fails, Idle
  <2> QED
      BY <2>1, <2>2
<1>3. CASE OnTransportEnd /\ ~(fc_nrpc_started > fc_nrpc_done)
  <2>1. /\ fc_nrpc_started - fc_nrpc_done = Cardinality(Pending)
        /\ fc_nrpc_started \in Nat /\ fc_nrpc_done \in Nat
      BY DEF IInv, Bookkeeping, PendingAgrees, TypeOK, RequestTypeOK
  <2>2. IsFiniteSet(Pending)
      BY PendingFinite DEF IInv, TypeOK
  <2>3. Cardinality(Pending) = 0
      BY <1>3, <2>1, <2>2, FS_CardinalityType
  <2>4. Pending = {}
      BY <2>2, <2>3, FS_EmptySet
  <2> QED
      BY <1>1, <2>4, GoneStays DEF Clears
<1> QED
    BY <1>2, <1>3
       DEF OnUnknownMsgid, OnDecoderError, OnTransportEnd, OnTransportError

LEMMA HandlersClear ==
    ASSUME GoneClear,
           \/ AbandonAll \/ EmitObject \/ SkipNull \/ RejectNull \/ DataDone
           \/ EndDone
           \/ \E r \in Requests : \/ OnData(r) \/ OnServerError(r)
                                  \/ OnAbandonedMessage(r) \/ RequestStep(r)
    PROVE  GoneClear'
<1>1. CASE AbandonAll /\ ~Crash
    BY <1>1, AbandoningClears, GoneStays DEF AbandonAll
<1>2. CASE Crash
    BY <1>2, NothingIsCalm, GoneStays DEF Crash
<1>3. CASE running.kind # "fatal" /\ UNCHANGED <<fc_pending, clientVars>>
    BY <1>3, GoneStays DEF Calm, Quiet, clientVars
<1>4. CASE running.kind # "fatal" /\ UNCHANGED clientVars
           /\ \E R : RequestComplete(R)
    BY <1>4, CompletingIsCalm, GoneStays
<1>5. CASE EmitObject \/ SkipNull \/ RejectNull \/ DataDone \/ EndDone
    BY <1>2, <1>3, <1>4, <1>5
       DEF EmitObject, SkipNull, RejectNull, DataDone, EndDone, InHandler,
           RequestAbandon, RequestFail, requestVars
<1>6. ASSUME NEW r \in Requests, OnData(r) \/ OnServerError(r) \/ OnAbandonedMessage(r)
      PROVE  GoneClear'
    BY <1>2, <1>3, <1>4, <1>6
       DEF OnData, OnServerError, OnAbandonedMessage, Receives, InHandler,
           RequestFail, requestVars
<1>7. ASSUME NEW r \in Requests, RequestStep(r)
      PROVE  GoneClear'
    BY <1>2, <1>3, <1>4, <1>7
       DEF RequestStep, OnRpcTimeout, EmitRequestError, EmitRequestEnd, InHandler,
           RequestAbandon, RequestFail, requestVars
<1> QED
    BY <1>1, <1>2, <1>5, <1>6, <1>7 DEF AbandonAll

LEMMA GoneKept ==
    ASSUME IInv, GoneClear, [Next]_vars
    PROVE  GoneClear'
<1>1. CASE PeerStep \/ UNCHANGED vars
  <2>1. UNCHANGED <<requestVars, clientVars, running>>
      BY <1>1
         DEF PeerStep, PeerAccepts, PeerSendsAnything, PeerStops, PeerSendsData,
             PeerFinishes, vars, loopVars
  <2> QED
      BY <2>1, NothingIsCalm, GoneStays
<1> QED
    BY <1>1, CallerClears, ErrorEventsClear, HandlersClear DEF Next, HandlerStep

LEMMA FailingSchedules ==
    ASSUME ErrorsDue, NEW R, NEW cause, RequestFail(R, cause), terminal' = terminal
    PROVE  ErrorsDue'
BY DEF ErrorsDue, RequestFail

LEMMA ErrorsStayDue ==
    ASSUME TypeOK, ErrorsDue, [Next]_vars
    PROVE  ErrorsDue'
<1>1. CASE UNCHANGED <<frq_error, terminal, immediates>>
    BY <1>1 DEF ErrorsDue
<1>2. CASE Crash \/ UNCHANGED vars
    BY <1>1, <1>2 DEF Crash, vars, requestVars, streamVars
<1>3. CASE PeerStep \/ OnTransportError
    BY <1>1, <1>3
       DEF PeerStep, PeerAccepts, PeerSendsAnything, PeerStops, PeerSendsData,
           PeerFinishes, OnTransportError, requestVars, streamVars
<1>4. CASE CallerStep /\ ~Crash
  <2>1. CASE Detach
      BY <1>4, <2>1, FailingSchedules DEF Detach, RequestAbandon, streamVars
  <2>2. ASSUME NEW r \in Requests, Abandon(r) \/ ReadRequest(r) PROVE ErrorsDue'
      BY <1>1, <1>4, <2>2, FailingSchedules
         DEF Abandon, ReadRequest, RequestAbandon, streamVars, requestVars
  <2>3. ASSUME NEW r \in Requests, Rpc(r) PROVE ErrorsDue'
    <3>1. terminal' = terminal
        BY <2>3 DEF Rpc, streamVars
    <3>2. CASE RpcSkipped(r)
        BY <3>1, <3>2 DEF RpcSkipped, ErrorsDue, TypeOK, RequestTypeOK
    <3>3. CASE RpcSent(r, Allocator!Alloc(ida_nextid, AllocatedIds))
        BY <1>1, <3>1, <3>3 DEF RpcSent
    <3> QED
        BY <2>3, <3>2, <3>3 DEF Rpc
  <2> QED
      BY <1>4, <2>1, <2>2, <2>3 DEF CallerStep
<1>5. CASE OnUnknownMsgid \/ OnDecoderError \/ OnTransportEnd \/ EmitObject
           \/ SkipNull \/ DataDone
    BY <1>1, <1>5
       DEF OnUnknownMsgid, OnDecoderError, OnTransportEnd, EmitObject, SkipNull,
           DataDone, requestVars, streamVars
<1>6. CASE (AbandonAll \/ RejectNull \/ EndDone) /\ ~Crash
    BY <1>1, <1>6, FailingSchedules
       DEF AbandonAll, RejectNull, EndDone, RequestAbandon, streamVars
<1>7. ASSUME NEW r \in Requests, ~Crash,
             OnData(r) \/ OnServerError(r) \/ OnAbandonedMessage(r)
      PROVE  ErrorsDue'
    BY <1>1, <1>7, FailingSchedules
       DEF OnData, OnServerError, OnAbandonedMessage, requestVars, streamVars
<1>8. ASSUME NEW r \in Requests, OnRpcTimeout(r), ~Crash
      PROVE  ErrorsDue'
    BY <1>1, <1>8, FailingSchedules DEF OnRpcTimeout, RequestAbandon, streamVars
<1>9. ASSUME NEW r \in Requests, NEW event \in {"end", "error"},
             terminal' = [terminal EXCEPT ![r] = Append(@, event)],
             frq_error' = frq_error, immediates \ {r} \subseteq immediates'
      PROVE  ErrorsDue'
  <2>1. /\ terminal[r] \in Seq({"end", "error"})
        /\ \A q \in Requests : q # r => terminal'[q] = terminal[q]
        /\ terminal'[r] = Append(terminal[r], event)
      BY <1>9 DEF TypeOK, StreamTypeOK
  <2>2. terminal'[r] # <<>>
      BY <2>1
  <2> QED
      BY <1>9, <2>1, <2>2 DEF ErrorsDue
<1>10. ASSUME NEW r \in Requests, EmitRequestError(r) \/ EmitRequestEnd(r)
       PROVE  ErrorsDue'
    BY <1>9, <1>10 DEF EmitRequestError, EmitRequestEnd, requestVars
<1> QED
    BY <1>2, <1>3, <1>4, <1>5, <1>6, <1>7, <1>8, <1>10
       DEF Next, HandlerStep, RequestStep

\* What is not pending, at rest, has its outcome or is still being read.
LEMMA RestMeans ==
    ASSUME IInv, ErrorsDue, AtRest, NEW r \in Requests, frq_msgid[r] # 0,
           ~IsPending(r), frq_buffer[r] = <<>>
    PROVE  Finished(r)
<1>1. CASE frq_error[r] # "none"
    BY <1>1 DEF ErrorsDue, AtRest, Finished
<1>2. CASE frq_error[r] = "none"
  <2>1. r \in frq_done_graceful /\ ~EndDue(r)
      BY <1>2 DEF IsPending, AtRest
  <2>2. PICK i \in 1 .. Len(terminal[r]) : terminal[r][i] = "end"
      BY <1>2, <2>1 DEF EndDue
  <2>3. terminal[r] # <<>>
      BY <2>2
  <2> QED
      BY <2>3 DEF Finished
<1> QED
    BY <1>1, <1>2

Waits == ErrorsDue /\ GoneClear

LEMMA WaitsInvariance == Spec => []Waits
<1>1. Init => Waits
  <2> SUFFICES ASSUME Init PROVE ErrorsDue /\ GoneClear
      BY DEF Waits
  <2>1. ErrorsDue
      BY DEF Init, ErrorsDue
  <2>2. Pending = {}
      BY DEF Init, Pending
  <2> QED
      BY <2>1, <2>2 DEF GoneClear
<1>2. IInv /\ Waits /\ [Next]_vars => Waits'
    BY GoneKept, ErrorsStayDue DEF Waits, IInv
<1> QED
    BY <1>1, <1>2, Invariance, PTL DEF Spec

\* A disconnected client at rest has reported the outcome of every request it
\* was given, before or after, that its caller has read.
OutcomesReported ==
    AtRest /\ Disconnected =>
        \A r \in Requests :
            frq_msgid[r] # 0 => Finished(r) \/ frq_buffer[r] # <<>>

\* However the client loses its transport, whatever the peer sent and the caller
\* did: no request waits for an answer that cannot come.  With the fairness of
\* the event loop that is why DisconnectedRequestsFinish holds.
THEOREM OutcomesReportedAtRest == Spec => []OutcomesReported
<1>1. ASSUME IInv, Waits, AtRest, Disconnected,
             NEW r \in Requests, frq_msgid[r] # 0, frq_buffer[r] = <<>>
      PROVE  Finished(r)
  <2>1. Pending = {}
      BY <1>1 DEF Waits, GoneClear, AtRest, InHandler
  <2>2. ~IsPending(r)
      BY <1>1, <2>1, RegisteredMeans
         DEF IInv, TypeOK, Bookkeeping, PendingAgrees
  <2> QED
      BY <1>1, <2>2, RestMeans DEF Waits
<1>2. IInv /\ Waits => OutcomesReported
    BY <1>1 DEF OutcomesReported
<1> QED
    BY <1>2, Invariance, WaitsInvariance, PTL
=============================================================================
