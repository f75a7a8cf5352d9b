-------------------------- MODULE FastServerProofs --------------------------
(***************************************************************************)
(* Theorems about the server, for any number of connections, message ids,  *)
(* messages and objects.  IInv is the inductive invariant.                 *)
(***************************************************************************)
EXTENDS FastServer, FiniteSetTheorems, SequenceTheorems, TLAPS

\* The messages that were read and wait for onMessage().
Queued == {place \in Conns \X Nat : place[2] \in 1 .. Len(inbound[place[1]])}

\* Every message becomes at most one request, so requests do not run out.
Numbered ==
    /\ \A c \in Conns : \A i \in 1 .. Len(inbound[c]) :
            inbound[c][i].kind \in {"call", "badcall"} =>
                inbound[c][i].msgid \in CallIds
    /\ IsFiniteSet(Queued)
    /\ Cardinality(Queued) + fs_nrequests_started <= nmsgs
    /\ nmsgs <= MaxMsgs

\* The table and the requests tell the same: a request runs exactly while it is
\* pending where it says.
Agree(pending, state, conn, msgid) ==
    /\ \A c \in Conns : \A id \in CallIds :
          pending[c][id] # None =>
            /\ state[pending[c][id]] = "RUNNING"
            /\ conn[pending[c][id]] = c /\ msgid[pending[c][id]] = id
    /\ \A r \in Reqs : state[r] = "RUNNING" =>
            /\ conn[r] \in Conns /\ msgid[r] \in CallIds
            /\ pending[conn[r]][msgid[r]] = r

\* A handler that has not said how its request ends works for a running request,
\* and no request that is not made yet leaves a trace.
RequestsOK ==
    /\ Agree(fc_pending, fsr_state, fsr_conn, fsr_msgid)
    /\ \A r \in Reqs : handler[r] \in {"running", "ended"} => fsr_state[r] = "RUNNING"
    /\ \A r \in Reqs : r > fs_nrequests_started =>
            fsr_state[r] = "none" /\ handler[r] = "none" /\ r \notin fsr_blackhole

\* Requests that were cut off belong to a connection that failed or was
\* terminated.
CutOK ==
    \A r \in fsr_blackhole :
        fsr_state[r] = "RUNNING" => fsr_conn[r] \in fc_server_error \cup fc_socket_error

KnownOK == fs_conns \subseteq accepted /\ fc_draining \subseteq accepted

Accounts == RequestsOK /\ CutOK /\ KnownOK /\ ConnsAccounted

\* An open socket belongs to a connection that is not broken and is piped to; one
\* that has emitted 'error' is piped to no more, so that it does not emit another.
SocketsOK ==
    /\ sock_open \subseteq fc_piped \ fc_server_error
    /\ fc_piped \cap fc_socket_error = {}
    /\ fc_socket_error \cup fc_server_error \subseteq accepted

IInv ==
    /\ TypeOK /\ Numbered /\ Accounts /\ CallbacksInOrder /\ SocketsOK
    /\ NoAssertionFailure

\* The process ends, whatever of, and nothing else happens.
Crashes == \E cause : Crash(cause)
-----------------------------------------------------------------------------
(* Types *)

\* The types of what connDrain() changes.
DrainTypeOK ==
    /\ {fs_conns, sock_open, fc_draining} \subseteq SUBSET Conns
    /\ fs_conns_destroyed_callbacks \in Seq(Callbacks)
    /\ immediates \in Seq(Callbacks)

LEMMA DrainTypes ==
    ASSUME DrainTypeOK, NEW C \in SUBSET Conns, NEW pending,
           NEW D \in SUBSET Conns, ConnDrain(C, pending, D)
    PROVE  DrainTypeOK'
<1>1. /\ fs_conns' \subseteq fs_conns /\ sock_open' \subseteq sock_open
      /\ fc_draining' \subseteq fc_draining \cup C
    BY DEF ConnDrain
<1>2. fs_conns_destroyed_callbacks \in Seq(Callbacks)
      /\ immediates \in Seq(Callbacks)
    BY DEF DrainTypeOK
<1>3. \/ ReleaseCallbacks
      \/ UNCHANGED <<immediates, fs_conns_destroyed_callbacks>>
    BY DEF ConnDrain
<1>4. fs_conns_destroyed_callbacks' \in Seq(Callbacks)
      /\ immediates' \in Seq(Callbacks)
  <2>1. CASE ReleaseCallbacks
    <3>1. immediates \o fs_conns_destroyed_callbacks \in Seq(Callbacks)
        BY <1>2, ConcatProperties
    <3>2. <<>> \in Seq(Callbacks)
        OBVIOUS
    <3> QED
        BY <2>1, <3>1, <3>2, Zenon DEF ReleaseCallbacks
  <2> QED
    BY <1>2, <1>3, <2>1
<1> QED
    BY <1>1, <1>4 DEF DrainTypeOK

LEMMA DrainTypePart ==
    ConnTypeOK /\ ApiTypeOK => DrainTypeOK
BY DEF DrainTypeOK, ConnTypeOK, ApiTypeOK

LEMMA DisconnectTypes ==
    ASSUME PipeTypeOK, NEW R \in SUBSET Reqs, RequestDisconnect(R),
           UNCHANGED handlerVars
    PROVE  PipeTypeOK'
BY DEF RequestDisconnect, PipeTypeOK, handlerVars

LEMMA PendingType ==
    ASSUME TableTypeOK, NEW c \in Conns
    PROVE  PendingOf(fc_pending, c) \subseteq Reqs
BY DEF TableTypeOK, PendingOf

LEMMA CutType ==
    ASSUME TableTypeOK, NEW C \in SUBSET Conns
    PROVE  RequestsOf(C) \subseteq Reqs
BY PendingType DEF RequestsOf

\* One more in a function to the naturals.
LEMMA OneMore ==
    ASSUME NEW S, NEW f \in [S -> Nat], NEW x
    PROVE  [f EXCEPT ![x] = @ + 1] \in [S -> Nat]
<1>1. CASE x \in S
    BY <1>1
<1>2. CASE x \notin S
  <2>1. [f EXCEPT ![x] = @ + 1] = f
    BY <1>2
  <2> QED
    BY <2>1
<1> QED
    BY <1>1, <1>2

LEMMA CleanupTypes ==
    ASSUME TypeOK, NEW r \in Reqs, RequestCleanup(r)
    PROVE  TableTypeOK'
<1>1. Without(r) \in [Conns -> [CallIds -> Reqs \cup {None}]]
    BY DEF Without, TypeOK, TableTypeOK
<1>2. Completed(fsr_conn[r]) \in [Conns -> Nat]
    BY OneMore DEF Completed, TypeOK, TableTypeOK
<1> QED
    BY <1>1, <1>2 DEF RequestCleanup, TypeOK, TableTypeOK, States

\* Abandoning connections keeps the types of everything it changes.
LEMMA AbandonTypes ==
    ASSUME TypeOK, NEW C \in SUBSET Conns, AbandonConns(C), UNCHANGED handlerVars
    PROVE  PipeTypeOK' /\ DrainTypeOK'
<1>1. PipeTypeOK'
  <2>1. RequestsOf(C) \in SUBSET Reqs
    BY CutType DEF TypeOK
  <2> QED
    BY <2>1, DisconnectTypes DEF AbandonConns, TypeOK
<1>2. DrainTypeOK
    BY DrainTypePart DEF TypeOK
<1> QED
    BY <1>1, <1>2, DrainTypes DEF AbandonConns

LEMMA CrashTypes ==
    ASSUME TypeOK, Crashes, NoAssertionFailure'
    PROVE  TypeOK'
BY DEF Crashes, Crash, NoAssertionFailure, TypeOK, ConnTypeOK, TableTypeOK,
       PipeTypeOK, OutTypeOK, InputTypeOK, ApiTypeOK, connVars, drainVars, tableVars, pipeVars,
       outVars, handlerVars, inVars, apiVars

LEMMA CreateTypes ==
    ASSUME TypeOK, NEW c \in Conns, ConnCreate(c), ~fs_closed
    PROVE  TypeOK'
<1>1. ConnTypeOK'
    BY DEF ConnCreate, TypeOK, ConnTypeOK
<1>2. ApiTypeOK' /\ InputTypeOK'
    BY DEF ConnCreate, TypeOK, ApiTypeOK, InputTypeOK, apiVars
<1>3. TableTypeOK' /\ PipeTypeOK' /\ OutTypeOK'
    BY DEF ConnCreate, TypeOK, TableTypeOK, PipeTypeOK, OutTypeOK,
           tableVars, pipeVars, outVars, handlerVars
<1> QED
    BY <1>1, <1>2, <1>3 DEF TypeOK

LEMMA EndTypes ==
    ASSUME TypeOK, NEW c \in Conns, OnConnectionEnd(c), ~Crashes
    PROVE  TypeOK'
<1>2. CASE /\ UNCHANGED <<fc_ended, drainVars>>
           /\ UNCHANGED <<fc_socket_error, fc_server_error, fc_piped, tableVars,
                          pipeVars, outVars, handlerVars, inVars, apiVars,
                          crashed>>
    BY <1>2 DEF TypeOK, ConnTypeOK, TableTypeOK, PipeTypeOK, OutTypeOK,
                InputTypeOK, ApiTypeOK, drainVars, tableVars, pipeVars,
                outVars, handlerVars, inVars, apiVars
<1>3. CASE /\ fc_ended' = fc_ended \cup {c}
           /\ ConnDrain({c}, fc_pending, {})
           /\ UNCHANGED <<fc_socket_error, fc_server_error, fc_piped, tableVars,
                          pipeVars, outVars, handlerVars, inVars, apiVars,
                          crashed>>
  <2>1. DrainTypeOK'
    BY <1>3, DrainTypes, DrainTypePart DEF TypeOK
  <2>2. ConnTypeOK' /\ ApiTypeOK'
    BY <1>3, <2>1 DEF TypeOK, ConnTypeOK, ApiTypeOK, DrainTypeOK, inVars, apiVars
  <2>3. TableTypeOK' /\ PipeTypeOK' /\ OutTypeOK' /\ InputTypeOK'
    BY <1>3 DEF TypeOK, TableTypeOK, PipeTypeOK, OutTypeOK, InputTypeOK,
                tableVars, pipeVars, outVars, handlerVars, inVars
  <2> QED
    BY <2>2, <2>3 DEF TypeOK
<1> QED
    BY <1>2, <1>3 DEF OnConnectionEnd, Crashes

LEMMA ErrorTypes ==
    ASSUME TypeOK, NEW c \in Conns, OnConnectionError(c), ~Crashes
    PROVE  TypeOK'
<1>2. CASE /\ fc_socket_error' = fc_socket_error \cup {c}
           /\ fc_piped' = fc_piped \ {c}
           /\ AbandonConns({c} \ fc_server_error)
           /\ UNCHANGED <<fc_ended, fc_server_error, tableVars, outVars,
                          handlerVars, inVars, apiVars, crashed>>
  <2>1. PipeTypeOK' /\ DrainTypeOK'
    BY <1>2, AbandonTypes
  <2>2. ConnTypeOK' /\ ApiTypeOK'
    BY <1>2, <2>1 DEF TypeOK, ConnTypeOK, ApiTypeOK, DrainTypeOK, inVars, apiVars
  <2>3. TableTypeOK' /\ OutTypeOK' /\ InputTypeOK'
    BY <1>2 DEF TypeOK, TableTypeOK, OutTypeOK, InputTypeOK,
                tableVars, outVars, inVars
  <2> QED
    BY <2>1, <2>2, <2>3 DEF TypeOK
<1> QED
    BY <1>2 DEF OnConnectionError, Crashes

LEMMA TerminateTypes ==
    ASSUME TypeOK, NEW C \in SUBSET Conns, ConnTerminate(C),
           UNCHANGED <<tableVars, handlerVars, accepted>>
    PROVE  ConnTypeOK' /\ TableTypeOK' /\ PipeTypeOK' /\ DrainTypeOK'
<1> DEFINE fresh == C \ (fc_server_error \cup fc_socket_error)
<1>1. AbandonConns(fresh) /\ fresh \in SUBSET Conns
      /\ fc_server_error' = fc_server_error \cup fresh
      /\ UNCHANGED <<fc_ended, fc_socket_error, fc_piped>>
    BY DEF ConnTerminate
<1> HIDE DEF fresh
<1>2. PipeTypeOK' /\ DrainTypeOK'
    BY <1>1, AbandonTypes
<1> QED
    BY <1>1, <1>2 DEF TypeOK, ConnTypeOK, DrainTypeOK, TableTypeOK, tableVars

LEMMA CloseTypes ==
    ASSUME TypeOK, Close, ~Crashes
    PROVE  TypeOK'
<1>2. CASE /\ fs_closed' = TRUE
           /\ ConnTerminate(fs_conns)
           /\ UNCHANGED <<tableVars, outVars, handlerVars, inVars, asked,
                          called, crashed>>
  <2>1. ConnTypeOK' /\ TableTypeOK' /\ PipeTypeOK' /\ DrainTypeOK'
    BY <1>2, TerminateTypes DEF inVars, TypeOK, ConnTypeOK
  <2>2. OutTypeOK' /\ InputTypeOK' /\ ApiTypeOK'
    BY <1>2, <2>1 DEF TypeOK, OutTypeOK, InputTypeOK, ApiTypeOK, DrainTypeOK,
                      outVars, inVars
  <2> QED
    BY <2>1, <2>2 DEF TypeOK
<1> QED
    BY <1>2 DEF Close, Crashes

LEMMA CallbackTypes ==
    ASSUME TypeOK, NEW callback \in Callbacks, OnConnsDestroyed(callback)
    PROVE  TypeOK'
<1>1. /\ asked \in Seq(Callbacks) /\ immediates \in Seq(Callbacks)
      /\ fs_conns_destroyed_callbacks \in Seq(Callbacks)
    BY DEF TypeOK, ApiTypeOK
<1>2. \A s \in Seq(Callbacks) : Append(s, callback) \in Seq(Callbacks)
    BY AppendProperties
<1>3. /\ asked' \in Seq(Callbacks) /\ immediates' \in Seq(Callbacks)
      /\ fs_conns_destroyed_callbacks' \in Seq(Callbacks)
    BY <1>1, <1>2 DEF OnConnsDestroyed
<1>4. ApiTypeOK'
    BY <1>3 DEF OnConnsDestroyed, TypeOK, ApiTypeOK
<1> QED
    BY <1>4 DEF OnConnsDestroyed, TypeOK, ConnTypeOK, TableTypeOK, PipeTypeOK,
                OutTypeOK, InputTypeOK, connVars, tableVars,
                pipeVars, outVars, handlerVars, inVars

LEMMA ImmediateTypes ==
    ASSUME TypeOK, RunImmediate
    PROVE  TypeOK'
<1>1. called' \in Seq(Callbacks) /\ immediates' \in Seq(Callbacks)
    BY DEF RunImmediate, TypeOK, ApiTypeOK
<1> QED
    BY <1>1 DEF RunImmediate, TypeOK, ConnTypeOK, TableTypeOK, PipeTypeOK,
                OutTypeOK, InputTypeOK, ApiTypeOK, connVars, tableVars,
                pipeVars, outVars, handlerVars, inVars
-----------------------------------------------------------------------------
(* Messages *)

\* A message that is taken leaves one place fewer.
LEMMA TakenQueued ==
    ASSUME InputTypeOK, Numbered, NEW c \in Conns, inbound[c] # <<>>,
           inbound' = [inbound EXCEPT ![c] = Tail(@)]
    PROVE  /\ IsFiniteSet(Queued')
           /\ Cardinality(Queued) \in Nat /\ Cardinality(Queued') \in Nat
           /\ Cardinality(Queued) = Cardinality(Queued') + 1
<1> DEFINE n == Len(inbound[c])
           last == <<c, n>>
<1>1. n \in Nat \ {0} /\ Len(Tail(inbound[c])) = n - 1
    BY DEF InputTypeOK
<1>2. last \in Queued
    BY <1>1 DEF Queued
<1>3. \A d \in Conns : Len(inbound'[d]) = IF d = c THEN n - 1 ELSE Len(inbound[d])
    BY <1>1 DEF InputTypeOK
<1>4. Queued' = Queued \ {last}
    BY <1>1, <1>3 DEF Queued, InputTypeOK
<1>5. IsFiniteSet(Queued)
    BY DEF Numbered
<1>6. IsFiniteSet(Queued') /\ Cardinality(Queued') = Cardinality(Queued) - 1
    BY <1>2, <1>4, <1>5, FS_RemoveElement
<1> QED
    BY <1>5, <1>6, FS_CardinalityType

LEMMA TakenTypes ==
    ASSUME InputTypeOK, Numbered, NEW c \in Conns, inbound[c] # <<>>,
           inbound' = [inbound EXCEPT ![c] = Tail(@)], nmsgs' = nmsgs
    PROVE  /\ InputTypeOK'
           /\ \A d \in Conns : \A i \in 1 .. Len(inbound'[d]) :
                  inbound'[d][i].kind \in {"call", "badcall"} =>
                      inbound'[d][i].msgid \in CallIds
<1>1. InputTypeOK'
  <2> DEFINE M == [kind : Kinds, msgid : CallIds \cup {None}]
  <2>1. inbound \in [Conns -> Seq(M)] /\ nmsgs \in Nat
    BY DEF InputTypeOK
  <2> HIDE DEF M
  <2>2. inbound' \in [Conns -> Seq(M)]
    BY <2>1
  <2> QED
    BY <2>1, <2>2 DEF InputTypeOK, M
<1>2. \A i \in 1 .. Len(Tail(inbound[c])) :
            /\ i + 1 \in 1 .. Len(inbound[c])
            /\ Tail(inbound[c])[i] = inbound[c][i + 1]
    BY DEF InputTypeOK
<1> QED
    BY <1>1, <1>2 DEF InputTypeOK, Numbered

\* The call that is handled next has a message id and a number.
LEMMA NextCall ==
    ASSUME TypeOK, Numbered, NEW c \in Conns, inbound[c] # <<>>,
           inbound' = [inbound EXCEPT ![c] = Tail(@)]
    PROVE  /\ fs_nrequests_started + 1 \in Reqs
           /\ Message(c).kind \in {"call", "badcall"} => Message(c).msgid \in CallIds
<1>1. InputTypeOK /\ fs_nrequests_started \in Nat
    BY DEF TypeOK, TableTypeOK
<1>2. /\ Cardinality(Queued) \in Nat /\ Cardinality(Queued') \in Nat
      /\ Cardinality(Queued) = Cardinality(Queued') + 1
    BY <1>1, TakenQueued
<1>3. fs_nrequests_started + 1 \in Reqs
    BY <1>1, <1>2, ServerAssumption DEF Numbered, InputTypeOK, Reqs
<1>4. 1 \in 1 .. Len(inbound[c]) /\ Message(c) = inbound[c][1]
    BY <1>1 DEF InputTypeOK, Message
<1> QED
    BY <1>3, <1>4 DEF Numbered

\* A client's message takes a place and is counted.
LEMMA SentKeeps ==
    ASSUME TypeOK, Numbered, NEW c \in Conns, ClientSends(c)
    PROVE  TypeOK' /\ Numbered'
<1>1. PICK kind \in Kinds :
        \E id \in IF kind \in {"call", "badcall"} THEN CallIds ELSE {None} :
            /\ inbound' = [inbound EXCEPT ![c] =
                              Append(@, [kind |-> kind, msgid |-> id])]
            /\ nmsgs' = nmsgs + 1 /\ nmsgs < MaxMsgs
            /\ UNCHANGED <<connVars, drainVars, tableVars, pipeVars, outVars,
                           handlerVars, accepted, apiVars, crashed>>
    BY DEF ClientSends
<1>2. PICK id \in IF kind \in {"call", "badcall"} THEN CallIds ELSE {None} :
            inbound' = [inbound EXCEPT ![c] =
                              Append(@, [kind |-> kind, msgid |-> id])]
    BY <1>1
<1> DEFINE m == [kind |-> kind, msgid |-> id]
           n == Len(inbound[c])
<1>3. m \in [kind : Kinds, msgid : CallIds \cup {None}]
    OBVIOUS
<1>4. inbound[c] \in Seq([kind : Kinds, msgid : CallIds \cup {None}])
    BY DEF TypeOK, InputTypeOK
<1> HIDE DEF m
<1>5. /\ Append(inbound[c], m) \in Seq([kind : Kinds, msgid : CallIds \cup {None}])
      /\ Len(Append(inbound[c], m)) = n + 1 /\ n \in Nat
      /\ Append(inbound[c], m)[n + 1] = m
      /\ \A i \in 1 .. n : Append(inbound[c], m)[i] = inbound[c][i]
    BY <1>3, <1>4, AppendProperties
<1>6. inbound' = [inbound EXCEPT ![c] = Append(inbound[c], m)]
    BY <1>2 DEF m
<1>7. InputTypeOK'
  <2> DEFINE M == [kind : Kinds, msgid : CallIds \cup {None}]
  <2>1. inbound \in [Conns -> Seq(M)] /\ nmsgs \in Nat
        /\ Append(inbound[c], m) \in Seq(M)
    BY <1>5 DEF TypeOK, InputTypeOK
  <2> HIDE DEF M
  <2>2. inbound' \in [Conns -> Seq(M)]
    BY <1>6, <2>1
  <2>3. nmsgs' \in Nat
    BY <1>1, <2>1
  <2> QED
    BY <2>2, <2>3 DEF InputTypeOK, M
<1>8. TypeOK'
    BY <1>1, <1>7 DEF TypeOK, ConnTypeOK, TableTypeOK, PipeTypeOK, OutTypeOK,
                ApiTypeOK, connVars, drainVars, tableVars, pipeVars,
                outVars, handlerVars, apiVars
<1>9. /\ IsFiniteSet(Queued') /\ Cardinality(Queued) \in Nat
      /\ Cardinality(Queued') = Cardinality(Queued) + 1
  <2>1. Queued' = Queued \cup {<<c, n + 1>>}
    <3>1. \A d \in Conns : Len(inbound'[d]) =
                IF d = c THEN n + 1 ELSE Len(inbound[d])
        BY <1>5, <1>6 DEF TypeOK, InputTypeOK
    <3> QED
        BY <1>5, <3>1 DEF Queued, TypeOK, InputTypeOK
  <2>2. <<c, n + 1>> \notin Queued
    BY <1>5 DEF Queued
  <2> QED
    BY <2>1, <2>2, FS_AddElement, FS_CardinalityType DEF Numbered
<1>10. m.kind \in {"call", "badcall"} => m.msgid \in CallIds
    BY <1>2 DEF m
<1>11. \A d \in Conns : \A i \in 1 .. Len(inbound'[d]) :
            inbound'[d][i].kind \in {"call", "badcall"} =>
                inbound'[d][i].msgid \in CallIds
    BY <1>5, <1>6, <1>10 DEF Numbered, TypeOK, InputTypeOK
<1>12. fs_nrequests_started' = fs_nrequests_started
       /\ fs_nrequests_started \in Nat /\ nmsgs \in Nat
    BY <1>1 DEF TypeOK, TableTypeOK, InputTypeOK, tableVars
<1>13. Cardinality(Queued') + fs_nrequests_started' <= nmsgs' /\ nmsgs' <= MaxMsgs
    BY <1>1, <1>9, <1>12, ServerAssumption DEF Numbered
<1> QED
    BY <1>8, <1>9, <1>11, <1>13 DEF Numbered

\* What is left when a message is taken and no request made is counted.
LEMMA TakenNumbered ==
    ASSUME TypeOK, Numbered, NEW c \in Conns, inbound[c] # <<>>,
           inbound' = [inbound EXCEPT ![c] = Tail(@)], nmsgs' = nmsgs,
           fs_nrequests_started' \in {fs_nrequests_started, fs_nrequests_started + 1}
    PROVE  InputTypeOK' /\ Numbered'
<1>1. InputTypeOK /\ fs_nrequests_started \in Nat /\ nmsgs \in Nat
    BY DEF TypeOK, TableTypeOK, InputTypeOK
<1>2. /\ IsFiniteSet(Queued')
      /\ Cardinality(Queued) \in Nat /\ Cardinality(Queued') \in Nat
      /\ Cardinality(Queued) = Cardinality(Queued') + 1
    BY <1>1, TakenQueued
<1>3. /\ InputTypeOK'
      /\ \A d \in Conns : \A i \in 1 .. Len(inbound'[d]) :
            inbound'[d][i].kind \in {"call", "badcall"} =>
                inbound'[d][i].msgid \in CallIds
    BY <1>1, TakenTypes
<1>4. Cardinality(Queued') + fs_nrequests_started' <= nmsgs' /\ nmsgs' <= MaxMsgs
    BY <1>1, <1>2 DEF Numbered
<1> QED
    BY <1>2, <1>3, <1>4 DEF Numbered

LEMMA NumberedSame ==
    ASSUME Numbered, UNCHANGED <<inbound, nmsgs, fs_nrequests_started>>
    PROVE  Numbered'
BY DEF Numbered, Queued

LEMMA DropTypes ==
    ASSUME TypeOK, Numbered, NEW c \in Conns, DropMessage(c)
    PROVE  TypeOK' /\ Numbered'
<1>1. InputTypeOK' /\ Numbered'
    BY TakenNumbered DEF DropMessage, TakesMessage, tableVars
<1> QED
    BY <1>1 DEF DropMessage, TakesMessage, TypeOK, ConnTypeOK, TableTypeOK,
                PipeTypeOK, OutTypeOK, ApiTypeOK, connVars, drainVars,
                tableVars, pipeVars, handlerVars, apiVars

LEMMA RejectMessageTypes ==
    ASSUME TypeOK, Numbered, NEW c \in Conns, RejectMessage(c)
    PROVE  TypeOK' /\ Numbered'
<1>1. InputTypeOK' /\ Numbered'
    BY TakenNumbered DEF RejectMessage, TakesMessage, tableVars
<1>2. CASE /\ crashed' = "assertion"
           /\ UNCHANGED <<connVars, drainVars, tableVars, pipeVars,
                          fc_msgencoder>>
    BY <1>1, <1>2 DEF RejectMessage, TakesMessage, TypeOK, ConnTypeOK,
                TableTypeOK, PipeTypeOK, OutTypeOK, ApiTypeOK, connVars,
                drainVars, tableVars, pipeVars, handlerVars, apiVars
<1>3. CASE /\ ConnTerminate({c})
           /\ UNCHANGED <<tableVars, fc_msgencoder, crashed>>
  <2>1. ConnTypeOK' /\ TableTypeOK' /\ PipeTypeOK' /\ DrainTypeOK'
    BY <1>3, TerminateTypes DEF RejectMessage, TakesMessage
  <2>2. OutTypeOK' /\ ApiTypeOK'
    BY <1>3, <2>1 DEF RejectMessage, TakesMessage, TypeOK, OutTypeOK, ApiTypeOK,
                      DrainTypeOK, apiVars
  <2> QED
    BY <1>1, <2>1, <2>2 DEF TypeOK
<1> QED
    BY <1>1, <1>2, <1>3 DEF RejectMessage

\* One message more in a connection's encoder.
LEMMA OneMessage ==
    ASSUME OutTypeOK, NEW c, NEW r \in Reqs, NEW status \in Status,
           fc_msgencoder' = [fc_msgencoder EXCEPT ![c] =
                                Append(@, [req |-> r, status |-> status])],
           wire' = wire
    PROVE  OutTypeOK'
<1> DEFINE M == [req : Reqs, status : Status]
           m == [req |-> r, status |-> status]
<1>1. m \in M /\ fc_msgencoder \in [Conns -> Seq(M)]
    BY DEF OutTypeOK
<1>2. fc_msgencoder' = [fc_msgencoder EXCEPT ![c] = Append(fc_msgencoder[c], m)]
    OBVIOUS
<1> HIDE DEF M, m
<1>3. c \in Conns => Append(fc_msgencoder[c], m) \in Seq(M)
    BY <1>1, AppendProperties
<1>4. fc_msgencoder' \in [Conns -> Seq(M)]
    BY <1>1, <1>2, <1>3
<1> QED
    BY <1>4 DEF OutTypeOK, M

\* A new request, with the number that is next.
LEMMA NewRequestTypes ==
    ASSUME TypeOK, Numbered, NEW c \in Conns, inbound[c] # <<>>,
           inbound' = [inbound EXCEPT ![c] = Tail(@)],
           Message(c).kind \in {"call", "badcall"},
           NEW state \in States, NewRequest(c, state)
    PROVE  /\ fs_nrequests_started' \in Nat
           /\ fc_nstarted' \in [Conns -> Nat]
           /\ fsr_state' \in [Reqs -> States]
           /\ fsr_conn' \in [Reqs -> Conns \cup {None}]
           /\ fsr_msgid' \in [Reqs -> CallIds \cup {None}]
<1>1. fs_nrequests_started + 1 \in Reqs /\ Message(c).msgid \in CallIds
    BY NextCall
<1>2. fc_nstarted \in [Conns -> Nat]
    BY DEF TypeOK, TableTypeOK
<1>3. fc_nstarted' \in [Conns -> Nat]
    BY <1>2, OneMore DEF NewRequest
<1> QED
    BY <1>1, <1>3 DEF NewRequest, TypeOK, TableTypeOK, Reqs

LEMMA RejectCallTypes ==
    ASSUME TypeOK, Numbered, NEW c \in Conns, RejectCall(c)
    PROVE  TypeOK' /\ Numbered'
<1>1. CASE /\ crashed' = "assertion"
           /\ UNCHANGED <<connVars, drainVars, tableVars, pipeVars,
                          fc_msgencoder>>
  <2>1. InputTypeOK' /\ Numbered'
    BY <1>1, TakenNumbered DEF RejectCall, TakesMessage, tableVars
  <2> QED
    BY <1>1, <2>1 DEF RejectCall, TakesMessage, TypeOK, ConnTypeOK,
                TableTypeOK, PipeTypeOK, OutTypeOK, ApiTypeOK, connVars,
                drainVars, tableVars, pipeVars, handlerVars, apiVars
<1>2. CASE /\ NewRequest(c, "COMPLETE")
           /\ fc_ncompleted' = Completed(c)
           /\ fc_msgencoder' = [fc_msgencoder EXCEPT ![c] =
                        Append(@, [req |-> fs_nrequests_started + 1,
                                   status |-> "error"])]
           /\ ConnDrain({c} \cap fc_draining, fc_pending, {})
           /\ UNCHANGED <<connVars, fc_pending, pipeVars, crashed>>
  <2>1. /\ inbound[c] # <<>> /\ inbound' = [inbound EXCEPT ![c] = Tail(@)]
        /\ nmsgs' = nmsgs /\ Message(c).kind \in {"call", "badcall"}
        /\ wire' = wire
    BY DEF RejectCall, TakesMessage
  <2>2. InputTypeOK' /\ Numbered'
    BY <1>2, <2>1, TakenNumbered DEF NewRequest
  <2>3. fc_ncompleted' \in [Conns -> Nat]
    BY <1>2, OneMore DEF Completed, TypeOK, TableTypeOK
  <2>4. "COMPLETE" \in States /\ "error" \in Status
    BY DEF States, Status
  <2>5. TableTypeOK'
    BY <1>2, <2>1, <2>3, <2>4, NewRequestTypes DEF TypeOK, TableTypeOK, Reqs
  <2>6. OutTypeOK'
    BY <1>2, <2>1, <2>4, NextCall, OneMessage DEF TypeOK
  <2>7. DrainTypeOK'
    BY <1>2, DrainTypes, DrainTypePart DEF TypeOK
  <2>8. ConnTypeOK' /\ ApiTypeOK'
    BY <1>2, <2>7 DEF RejectCall, TakesMessage, TypeOK, ConnTypeOK, ApiTypeOK,
                      DrainTypeOK, connVars, apiVars
  <2>9. PipeTypeOK'
    BY <1>2 DEF RejectCall, TakesMessage, TypeOK, PipeTypeOK, pipeVars, handlerVars
  <2> QED
    BY <2>2, <2>5, <2>6, <2>8, <2>9 DEF TypeOK
<1> QED
    BY <1>1, <1>2 DEF RejectCall

LEMMA StartTypes ==
    ASSUME TypeOK, Numbered, NEW c \in Conns, StartCall(c)
    PROVE  TypeOK' /\ Numbered'
<1> DEFINE n == fs_nrequests_started + 1
<1>1. /\ inbound[c] # <<>> /\ inbound' = [inbound EXCEPT ![c] = Tail(@)]
      /\ nmsgs' = nmsgs /\ Message(c).kind \in {"call", "badcall"}
      /\ NewRequest(c, "RUNNING")
    BY DEF StartCall
<1>2. InputTypeOK' /\ Numbered'
    BY <1>1, TakenNumbered DEF NewRequest
<1>3. n \in Reqs /\ Message(c).msgid \in CallIds
    BY <1>1, NextCall
<1>4. fc_pending' \in [Conns -> [CallIds -> Reqs \cup {None}]]
    BY <1>3 DEF StartCall, TypeOK, TableTypeOK
<1>5. TableTypeOK'
  <2>1. "RUNNING" \in States
    BY DEF States
  <2> QED
    BY <1>1, <1>4, <2>1, NewRequestTypes DEF StartCall, TypeOK, TableTypeOK, Reqs
<1>6. PipeTypeOK'
    BY <1>3 DEF StartCall, TypeOK, PipeTypeOK, pipeVars
<1> QED
    BY <1>2, <1>5, <1>6 DEF StartCall, TypeOK, ConnTypeOK, OutTypeOK, ApiTypeOK,
                connVars, drainVars, outVars, apiVars
-----------------------------------------------------------------------------
(* Handlers and the pipeline *)

LEMMA WriteTypes ==
    ASSUME TypeOK, NEW r \in Reqs, HandlerWrite(r) \/ HandlerEnd(r)
    PROVE  TypeOK'
<1>1. CASE HandlerWrite(r)
  <2>1. fsr_context' \in [Reqs -> Nat] /\ nwritten' \in [Reqs -> Nat]
    BY <1>1, OneMore DEF HandlerWrite, TypeOK, PipeTypeOK
  <2> QED
    BY <1>1, <2>1 DEF HandlerWrite, TypeOK, ConnTypeOK, TableTypeOK, PipeTypeOK,
                OutTypeOK, InputTypeOK, ApiTypeOK, connVars, drainVars,
                tableVars, outVars, inVars, apiVars
<1>2. CASE HandlerEnd(r)
    BY <1>2 DEF HandlerEnd, TypeOK, ConnTypeOK, TableTypeOK, PipeTypeOK,
                OutTypeOK, InputTypeOK, ApiTypeOK, connVars, drainVars,
                tableVars, pipeVars, outVars, inVars, apiVars
<1> QED
    BY <1>1, <1>2

\* What requestCleanup() leaves well-typed.
LEMMA CleanupGroups ==
    ASSUME TypeOK, NEW r \in Reqs, RequestCleanup(r),
           UNCHANGED <<connVars, inVars, apiVars, crashed>>
    PROVE  ConnTypeOK' /\ TableTypeOK' /\ InputTypeOK' /\ ApiTypeOK'
<1>1. Draining(r) \in SUBSET Conns
    BY DEF Draining, TypeOK, ConnTypeOK
<1>2. DrainTypeOK'
    BY <1>1, DrainTypes, DrainTypePart DEF RequestCleanup, TypeOK
<1>3. ConnTypeOK' /\ ApiTypeOK'
    BY <1>2 DEF TypeOK, ConnTypeOK, ApiTypeOK, DrainTypeOK, connVars, inVars, apiVars
<1>4. InputTypeOK'
    BY DEF TypeOK, InputTypeOK, inVars
<1> QED
    BY <1>3, <1>4, CleanupTypes

LEMMA FailTypes ==
    ASSUME TypeOK, NEW r \in Reqs, HandlerFail(r), ~Crashes
    PROVE  TypeOK'
<1>2. CASE /\ fc_msgencoder' = [fc_msgencoder EXCEPT ![fsr_conn[r]] =
                                   Append(@, [req |-> r, status |-> "error"])]
           /\ fsr_encoder' = Unpiped(r)
           /\ handler' = [handler EXCEPT ![r] = "failed"]
           /\ RequestCleanup(r)
           /\ UNCHANGED <<connVars, fsr_blackhole, fsr_context, flushed, wire,
                          nwritten, inVars, apiVars, crashed>>
  <2>1. ConnTypeOK' /\ TableTypeOK' /\ InputTypeOK' /\ ApiTypeOK'
    BY <1>2, CleanupGroups
  <2>2. PipeTypeOK'
    BY <1>2 DEF TypeOK, PipeTypeOK, Unpiped
  <2>3. OutTypeOK'
    BY <1>2, OneMessage DEF TypeOK, Status
  <2> QED
    BY <2>1, <2>2, <2>3 DEF TypeOK
<1> QED
    BY <1>2 DEF HandlerFail, Crashes

LEMMA CompleteTypes ==
    ASSUME TypeOK, NEW r \in Reqs, RequestComplete(r), ~Crashes
    PROVE  TypeOK'
<1>2. CASE /\ handler' = [handler EXCEPT ![r] = "finished"]
           /\ RequestCleanup(r)
           /\ UNCHANGED <<connVars, pipeVars, outVars, nwritten, inVars,
                          apiVars, crashed>>
  <2>1. ConnTypeOK' /\ TableTypeOK' /\ InputTypeOK' /\ ApiTypeOK'
    BY <1>2, CleanupGroups
  <2>2. PipeTypeOK' /\ OutTypeOK'
    BY <1>2 DEF TypeOK, PipeTypeOK, OutTypeOK, pipeVars, outVars
  <2> QED
    BY <2>1, <2>2 DEF TypeOK
<1> QED
    BY <1>2 DEF RequestComplete, Crashes

\* One message more in a request's encoder.
LEMMA OneStatus ==
    ASSUME PipeTypeOK, NEW r \in Reqs, NEW status \in {"data", "end"}
    PROVE  [fsr_encoder EXCEPT ![r] = Append(@, status)]
                \in [Reqs -> Seq({"data", "end"})]
<1>1. fsr_encoder[r] \in Seq({"data", "end"})
    BY DEF PipeTypeOK
<1>2. Append(fsr_encoder[r], status) \in Seq({"data", "end"})
    BY <1>1, AppendProperties
<1> QED
    BY <1>2 DEF PipeTypeOK

LEMMA TransformTypes ==
    ASSUME TypeOK, NEW r \in Reqs, Transform(r) \/ Flush(r)
    PROVE  TypeOK'
<1>1. CASE Transform(r)
  <2>1. fsr_encoder' \in [Reqs -> Seq({"data", "end"})]
    BY <1>1, OneStatus DEF Transform, TypeOK, PipeTypeOK
  <2>2. fsr_context' \in [Reqs -> Nat]
    <3>1. fsr_context \in [Reqs -> Nat] /\ fsr_context[r] - 1 \in Nat
        BY <1>1 DEF Transform, TypeOK, PipeTypeOK
    <3> QED
        BY <1>1, <3>1 DEF Transform
  <2>3. PipeTypeOK'
    BY <1>1, <2>1, <2>2 DEF Transform, TypeOK, PipeTypeOK, handlerVars
  <2> QED
    BY <1>1, <2>3 DEF Transform, TypeOK, ConnTypeOK, TableTypeOK,
                OutTypeOK, InputTypeOK, ApiTypeOK, connVars, drainVars,
                tableVars, outVars, inVars, apiVars
<1>2. CASE Flush(r)
  <2>1. fsr_encoder' \in [Reqs -> Seq({"data", "end"})]
    BY <1>2, OneStatus DEF Flush, TypeOK, PipeTypeOK
  <2>2. PipeTypeOK'
    BY <1>2, <2>1 DEF Flush, TypeOK, PipeTypeOK, handlerVars
  <2> QED
    BY <1>2, <2>2 DEF Flush, TypeOK, ConnTypeOK, TableTypeOK,
                OutTypeOK, InputTypeOK, ApiTypeOK, connVars, drainVars,
                tableVars, outVars, inVars, apiVars
<1> QED
    BY <1>1, <1>2

LEMMA PipeTypes ==
    ASSUME TypeOK, NEW r \in Reqs, Pipe(r)
    PROVE  TypeOK'
<1>1. fsr_encoder[r] \in Seq({"data", "end"}) /\ fsr_encoder[r] # <<>>
    BY DEF Pipe, TypeOK, PipeTypeOK
<1>2. Head(fsr_encoder[r]) \in Status /\ Tail(fsr_encoder[r]) \in Seq({"data", "end"})
    BY <1>1, HeadTailProperties DEF Status
<1>3. fsr_encoder' \in [Reqs -> Seq({"data", "end"})]
    BY <1>2 DEF Pipe, TypeOK, PipeTypeOK
<1>4. PipeTypeOK'
    BY <1>3 DEF Pipe, TypeOK, PipeTypeOK, handlerVars
<1>5. OutTypeOK'
    BY <1>2, OneMessage DEF Pipe, TypeOK
<1> QED
    BY <1>4, <1>5 DEF Pipe, TypeOK, ConnTypeOK, TableTypeOK, InputTypeOK,
                ApiTypeOK, connVars, drainVars, tableVars, inVars, apiVars

LEMMA SocketTypes ==
    ASSUME TypeOK, NEW c \in Conns, SocketWrite(c)
    PROVE  TypeOK'
<1> DEFINE M == [req : Reqs, status : Status]
           m == Head(fc_msgencoder[c])
<1>1. fc_msgencoder \in [Conns -> Seq(M)] /\ fc_msgencoder[c] # <<>>
    BY DEF SocketWrite, TypeOK, OutTypeOK
<1>2. m \in M /\ Tail(fc_msgencoder[c]) \in Seq(M)
    BY <1>1, HeadTailProperties
<1>3. m.req \in Reqs /\ m.status \in Status
    BY <1>2
<1>4. wire' = [wire EXCEPT ![m.req] = Append(@, m.status)]
    BY DEF SocketWrite
<1> HIDE DEF M, m
<1>5. wire' \in [Reqs -> Seq(Status)]
  <2>1. wire[m.req] \in Seq(Status)
    BY <1>3 DEF TypeOK, OutTypeOK
  <2>2. Append(wire[m.req], m.status) \in Seq(Status)
    BY <1>3, <2>1, AppendProperties
  <2> QED
    BY <1>3, <1>4, <2>2 DEF TypeOK, OutTypeOK
<1>6. fc_msgencoder' \in [Conns -> Seq(M)]
    BY <1>1, <1>2 DEF SocketWrite
<1>7. OutTypeOK'
    BY <1>5, <1>6 DEF OutTypeOK, M
<1> QED
    BY <1>7 DEF SocketWrite, TypeOK, ConnTypeOK, TableTypeOK, PipeTypeOK,
                InputTypeOK, ApiTypeOK, connVars, drainVars, tableVars,
                pipeVars, handlerVars, inVars, apiVars
LEMMA ClosedTypes ==
    ASSUME TypeOK, NEW c \in Conns, SocketClosed(c)
    PROVE  TypeOK'
BY DEF SocketClosed, TypeOK, ConnTypeOK, TableTypeOK, PipeTypeOK, OutTypeOK,
       InputTypeOK, ApiTypeOK, drainVars, tableVars, pipeVars, outVars,
       handlerVars, inVars, apiVars
-----------------------------------------------------------------------------
(* What is pending *)

\* What is pending on a connection are its running requests.
LEMMA PendingRuns ==
    ASSUME NEW pending \in [Conns -> [CallIds -> Reqs \cup {None}]],
           NEW state, NEW conn, NEW msgid, Agree(pending, state, conn, msgid),
           NEW c \in Conns
    PROVE  PendingOf(pending, c) = {r \in Reqs : state[r] = "RUNNING" /\ conn[r] = c}
<1>1. None \notin Reqs
    BY ServerAssumption DEF Reqs
<1> QED
    BY <1>1 DEF Agree, PendingOf

LEMMA ReqsFinite == \A S \in SUBSET Reqs : IsFiniteSet(S) /\ Cardinality(S) \in Nat
<1>1. MaxMsgs \in Int
    BY ServerAssumption
<1>2. IsFiniteSet(Reqs)
    BY <1>1, FS_Interval DEF Reqs
<1> QED
    BY <1>2, FS_Subset, FS_CardinalityType

LEMMA NowPending ==
    ASSUME TypeOK, RequestsOK, NEW c \in Conns
    PROVE  PendingOf(fc_pending, c) = {r \in Reqs : fsr_state[r] = "RUNNING" /\ fsr_conn[r] = c}
<1>1. fc_pending \in [Conns -> [CallIds -> Reqs \cup {None}]]
    BY DEF TypeOK, TableTypeOK
<1> QED
    BY <1>1, PendingRuns DEF RequestsOK

\* With r completed, the rest is as it was.
LEMMA CleanupPending ==
    ASSUME TypeOK, RequestsOK, NEW r \in Reqs, fsr_state[r] = "RUNNING"
    PROVE  /\ fsr_conn[r] \in Conns /\ fsr_msgid[r] \in CallIds
           /\ fc_pending[fsr_conn[r]][fsr_msgid[r]] = r
           /\ Without(r) \in [Conns -> [CallIds -> Reqs \cup {None}]]
           /\ Agree(Without(r), [fsr_state EXCEPT ![r] = "COMPLETE"], fsr_conn, fsr_msgid)
           /\ \A c \in Conns : PendingOf(Without(r), c) = PendingOf(fc_pending, c) \ {r}
<1>1. /\ fsr_conn[r] \in Conns /\ fsr_msgid[r] \in CallIds
      /\ fc_pending[fsr_conn[r]][fsr_msgid[r]] = r
    BY DEF RequestsOK, Agree
<1>2. fc_pending \in [Conns -> [CallIds -> Reqs \cup {None}]]
    BY DEF TypeOK, TableTypeOK
<1>3. /\ Without(r) \in [Conns -> [CallIds -> Reqs \cup {None}]]
      /\ \A c \in Conns : \A id \in CallIds : Without(r)[c][id] =
            IF c = fsr_conn[r] /\ id = fsr_msgid[r] THEN None ELSE fc_pending[c][id]
    BY <1>1, <1>2 DEF Without
<1>4. None \notin Reqs
    BY ServerAssumption DEF Reqs
<1> DEFINE state == [fsr_state EXCEPT ![r] = "COMPLETE"]
<1>5. \A q \in Reqs : state[q] = IF q = r THEN "COMPLETE" ELSE fsr_state[q]
    BY DEF TypeOK, TableTypeOK
<1> HIDE DEF state
<1>6. Agree(Without(r), state, fsr_conn, fsr_msgid)
  <2>1. ASSUME NEW c \in Conns, NEW id \in CallIds, Without(r)[c][id] # None
        PROVE  /\ state[Without(r)[c][id]] = "RUNNING"
               /\ fsr_conn[Without(r)[c][id]] = c /\ fsr_msgid[Without(r)[c][id]] = id
    <3>1. /\ ~(c = fsr_conn[r] /\ id = fsr_msgid[r])
          /\ Without(r)[c][id] = fc_pending[c][id]
        BY <1>3, <2>1
    <3>2. fc_pending[c][id] \in Reqs /\ fc_pending[c][id] # r
        BY <1>2, <2>1, <3>1 DEF RequestsOK, Agree
    <3> QED
        BY <1>5, <2>1, <3>1, <3>2 DEF RequestsOK, Agree
  <2>2. ASSUME NEW q \in Reqs, state[q] = "RUNNING"
        PROVE  /\ fsr_conn[q] \in Conns /\ fsr_msgid[q] \in CallIds
               /\ Without(r)[fsr_conn[q]][fsr_msgid[q]] = q
    <3>1. q # r /\ fsr_state[q] = "RUNNING"
        BY <1>5, <2>2
    <3>2. /\ fsr_conn[q] \in Conns /\ fsr_msgid[q] \in CallIds
          /\ fc_pending[fsr_conn[q]][fsr_msgid[q]] = q
        BY <3>1 DEF RequestsOK, Agree
    <3> QED
        BY <1>1, <1>3, <3>1, <3>2
  <2> QED
    BY <2>1, <2>2 DEF Agree
<1>7. ASSUME NEW c \in Conns
      PROVE  PendingOf(Without(r), c) = PendingOf(fc_pending, c) \ {r}
  <2>1. PendingOf(Without(r), c) = {q \in Reqs : state[q] = "RUNNING" /\ fsr_conn[q] = c}
    BY <1>3, <1>6, PendingRuns
  <2> QED
    BY <1>5, <2>1, NowPending
<1> QED
    BY <1>1, <1>3, <1>6, <1>7 DEF state
-----------------------------------------------------------------------------
(* Draining *)

\* connDrain() leaves no connection that waits for nothing, and removes none
\* that something is pending on.
LEMMA DrainKeeps ==
    ASSUME KnownOK, accepted' = accepted, NEW C \in SUBSET fs_conns, NEW pending,
           NEW D, ConnDrain(C, pending, D),
           \A c \in Conns : c \in (fc_draining \cap fs_conns) \ C =>
                PendingOf(pending, c) # {},
           \A c \in Conns : c \notin fs_conns =>
                c \notin sock_open /\ PendingOf(pending, c) = {}
    PROVE  /\ KnownOK'
           /\ sock_open' \subseteq sock_open \ D
           /\ \A c \in Conns : c \in fc_draining' \cap fs_conns' =>
                PendingOf(pending, c) # {}
           /\ \A c \in Conns : c \notin fs_conns' =>
                c \notin sock_open' /\ PendingOf(pending, c) = {}
BY DEF ConnDrain, KnownOK

\* connDrain() asserts nothing that the counts do not grant.
LEMMA DrainAssertsHold ==
    ASSUME NEW C, NEW pending, NEW nstarted, NEW ncompleted,
           \A c \in C : /\ c \in fs_conns
                        /\ nstarted[c] \in Nat /\ ncompleted[c] \in Nat
                        /\ PendingOf(pending, c) \subseteq Reqs
                        /\ nstarted[c] - ncompleted[c] = Cardinality(PendingOf(pending, c))
    PROVE  DrainAsserts(C, pending, nstarted, ncompleted)
<1> SUFFICES ASSUME NEW c \in C
             PROVE  /\ c \in fs_conns
                    /\ IF PendingOf(pending, c) = {} THEN nstarted[c] = ncompleted[c]
                       ELSE nstarted[c] > ncompleted[c]
    BY DEF DrainAsserts
<1>1. /\ IsFiniteSet(PendingOf(pending, c))
      /\ Cardinality(PendingOf(pending, c)) \in Nat
      /\ Cardinality(PendingOf(pending, c)) = 0 <=> PendingOf(pending, c) = {}
    BY ReqsFinite, FS_EmptySet
<1> QED
    BY <1>1
-----------------------------------------------------------------------------
(* What each step does to the accounts *)

accountVars == <<fs_conns, fc_draining, sock_open, tableVars, fsr_blackhole,
                 fc_server_error, fc_socket_error, accepted, handler>>

LEMMA AccountsSame ==
    ASSUME Accounts, UNCHANGED accountVars
    PROVE  Accounts'
BY SMTT(30) DEF accountVars, tableVars, Accounts, RequestsOK, Agree, CutOK, KnownOK,
       ConnsAccounted, PendingOf

LEMMA CreateAccounts ==
    ASSUME TypeOK, Accounts, NEW c \in Conns, ConnCreate(c), ~fs_closed
    PROVE  Accounts'
<1>1. /\ fs_conns' = fs_conns \cup {c} /\ accepted' = accepted \cup {c}
      /\ sock_open' = sock_open \cup {c} /\ c \notin accepted
      /\ UNCHANGED <<fc_server_error, fc_socket_error, fc_draining, tableVars,
                     fsr_blackhole, handler>>
    BY DEF ConnCreate, connVars, pipeVars, handlerVars
<1>2. RequestsOK' /\ CutOK' /\ KnownOK'
    BY <1>1 DEF Accounts, RequestsOK, Agree, CutOK, KnownOK, tableVars
<1>3. c \notin fs_conns /\ c \notin fc_draining /\ PendingOf(fc_pending, c) = {}
    BY <1>1 DEF Accounts, KnownOK, ConnsAccounted
<1>4. fc_pending' = fc_pending /\ fc_nstarted' = fc_nstarted
      /\ fc_ncompleted' = fc_ncompleted /\ fsr_state' = fsr_state
    BY <1>1 DEF tableVars
<1>5. ConnsAccounted'
  <2> SUFFICES ASSUME NEW d \in Conns
      PROVE /\ fc_nstarted[d] - fc_ncompleted[d] = Cardinality(PendingOf(fc_pending, d))
            /\ d \in fc_draining \cap fs_conns' => PendingOf(fc_pending, d) # {}
            /\ d \notin fs_conns' => d \notin sock_open' /\ PendingOf(fc_pending, d) = {}
            /\ \A r \in PendingOf(fc_pending, d) :
                 fsr_state[r] = "RUNNING" /\ (r \in fsr_blackhole => d \notin sock_open')
    BY <1>1, <1>4 DEF ConnsAccounted
  <2> QED
    BY <1>1, <1>3 DEF Accounts, ConnsAccounted
<1> QED
    BY <1>2, <1>5 DEF Accounts

\* Connections drain, and the requests of those in Cut are cut off.
LEMMA DrainAccounts ==
    ASSUME TypeOK, Accounts, NEW C \in SUBSET fs_conns, NEW D \in SUBSET Conns,
           D \in {{}, C}, ConnDrain(C, fc_pending, D),
           fsr_blackhole' = fsr_blackhole \cup RequestsOf(D),
           fc_server_error \cup fc_socket_error \cup D
                \subseteq fc_server_error' \cup fc_socket_error',
           UNCHANGED <<tableVars, accepted, handler>>
    PROVE  Accounts'
<1>1. /\ UNCHANGED <<fc_pending, fc_nstarted, fc_ncompleted, fsr_state, fsr_conn,
                     fsr_msgid, fs_nrequests_started, accepted, handler>>
    BY DEF tableVars
<1>2. /\ KnownOK'
      /\ sock_open' \subseteq sock_open \ D
      /\ \A c \in Conns : c \in fc_draining' \cap fs_conns' =>
            PendingOf(fc_pending, c) # {}
      /\ \A c \in Conns : c \notin fs_conns' =>
            c \notin sock_open' /\ PendingOf(fc_pending, c) = {}
    BY <1>1, DrainKeeps DEF Accounts, ConnsAccounted
<1>3. ASSUME NEW r \in RequestsOf(D)
      PROVE  r \in Reqs /\ fsr_state[r] = "RUNNING" /\ fsr_conn[r] \in D
  <2>1. PICK c \in D : r \in PendingOf(fc_pending, c)
    BY DEF RequestsOf
  <2> QED
    BY <2>1, NowPending DEF Accounts
<1>4. RequestsOK'
  <2>1. \A r \in Reqs : r > fs_nrequests_started => r \notin RequestsOf(D)
    BY <1>3 DEF Accounts, RequestsOK
  <2> QED
    BY <1>1, <2>1 DEF Accounts, RequestsOK, Agree
<1>5. CutOK'
    BY <1>1, <1>3 DEF Accounts, CutOK
<1>6. ConnsAccounted'
  <2>1. ASSUME NEW c \in Conns, NEW r \in PendingOf(fc_pending, c)
        PROVE  /\ fsr_state[r] = "RUNNING"
               /\ r \in fsr_blackhole' => c \notin sock_open'
    <3>1. fsr_state[r] = "RUNNING" /\ fsr_conn[r] = c
        BY NowPending DEF Accounts
    <3>2. r \in fsr_blackhole => c \notin sock_open
        BY DEF Accounts, ConnsAccounted
    <3> QED
        BY <1>2, <1>3, <3>1, <3>2
  <2> QED
    BY <1>1, <1>2, <2>1 DEF Accounts, ConnsAccounted
<1> QED
    BY <1>2, <1>4, <1>5, <1>6 DEF Accounts

LEMMA EndAccounts ==
    ASSUME TypeOK, Accounts, NEW c \in Conns, OnConnectionEnd(c), ~Crashes
    PROVE  Accounts'
<1>1. c \in fs_conns
    BY DEF OnConnectionEnd, Crashes
<1>2. CASE c \in fc_socket_error
    BY <1>1, <1>2, AccountsSame
    DEF OnConnectionEnd, Crashes, accountVars, drainVars, tableVars, pipeVars,
        handlerVars, inVars
<1>3. CASE c \notin fc_socket_error
  <2>1. RequestsOf({}) = {}
    BY DEF RequestsOf
  <2>2. ConnDrain({c}, fc_pending, {})
    BY <1>1, <1>3 DEF OnConnectionEnd, Crashes
  <2>3. fsr_blackhole' = fsr_blackhole \cup RequestsOf({})
        /\ fc_server_error \cup fc_socket_error \cup {}
                \subseteq fc_server_error' \cup fc_socket_error'
        /\ UNCHANGED <<tableVars, accepted, handler>>
    BY <1>1, <1>3, <2>1 DEF OnConnectionEnd, Crashes, pipeVars, inVars, handlerVars
  <2> QED
    BY <1>1, <2>2, <2>3, DrainAccounts
<1> QED
    BY <1>2, <1>3

LEMMA ErrorAccounts ==
    ASSUME TypeOK, Accounts, NEW c \in Conns, OnConnectionError(c), ~Crashes
    PROVE  Accounts'
<1> DEFINE C == {c} \ fc_server_error
<1>1. /\ c \in fs_conns
      /\ fc_socket_error' = fc_socket_error \cup {c}
      /\ AbandonConns(C)
      /\ UNCHANGED <<fc_server_error, tableVars, accepted, handler>>
    BY DEF OnConnectionError, Crashes, inVars, handlerVars
<1>2. /\ ConnDrain(C, fc_pending, C)
      /\ fsr_blackhole' = fsr_blackhole \cup RequestsOf(C)
    BY <1>1 DEF AbandonConns, RequestDisconnect
<1>3. C \in SUBSET fs_conns /\ C \in SUBSET Conns
      /\ fc_server_error \cup fc_socket_error \cup C
                \subseteq fc_server_error' \cup fc_socket_error'
    BY <1>1
<1> HIDE DEF C
<1> QED
    BY <1>1, <1>2, <1>3, DrainAccounts

LEMMA TerminateAccounts ==
    ASSUME TypeOK, Accounts, NEW C \in SUBSET fs_conns, ConnTerminate(C),
           UNCHANGED <<tableVars, accepted, handler>>
    PROVE  Accounts'
<1> DEFINE fresh == C \ (fc_server_error \cup fc_socket_error)
<1>1. /\ ConnDrain(fresh, fc_pending, fresh)
      /\ fsr_blackhole' = fsr_blackhole \cup RequestsOf(fresh)
    BY DEF ConnTerminate, AbandonConns, RequestDisconnect
<1>2. fresh \in SUBSET fs_conns /\ fresh \in SUBSET Conns
      /\ fc_server_error \cup fc_socket_error \cup fresh
                \subseteq fc_server_error' \cup fc_socket_error'
    BY DEF ConnTerminate, TypeOK, ConnTypeOK
<1> HIDE DEF fresh
<1> QED
    BY <1>1, <1>2, DrainAccounts

\* Only requests that are pending are counted, so that the next one is new.
LEMMA NextIsNew ==
    ASSUME TypeOK, Accounts, NEW n, n = fs_nrequests_started + 1, n \in Reqs
    PROVE  /\ fsr_state[n] = "none" /\ handler[n] = "none" /\ n \notin fsr_blackhole
           /\ \A c \in Conns : \A id \in CallIds : fc_pending[c][id] # n
           /\ \A q \in Reqs : q > n => q > fs_nrequests_started
<1>1. n \in Nat /\ fs_nrequests_started \in Nat /\ Reqs \subseteq Nat
    BY DEF TypeOK, TableTypeOK, Reqs
<1>2. fsr_state[n] = "none" /\ handler[n] = "none" /\ n \notin fsr_blackhole
    BY <1>1 DEF Accounts, RequestsOK
<1>3. \A c \in Conns : \A id \in CallIds : fc_pending[c][id] # n
  <2>1. n # None
    BY ServerAssumption, <1>1
  <2> QED
    BY <1>2, <2>1 DEF Accounts, RequestsOK, Agree
<1> QED
    BY <1>1, <1>2, <1>3

LEMMA StartAccounts ==
    ASSUME TypeOK, Numbered, TypeOK', Accounts, NEW c \in Conns, StartCall(c)
    PROVE  Accounts'
<1> DEFINE n == fs_nrequests_started + 1
           id0 == Message(c).msgid
<1>1. n \in Reqs /\ id0 \in CallIds
    BY NextCall DEF StartCall
<1>2. /\ fs_nrequests_started' = n
      /\ fc_nstarted' = [fc_nstarted EXCEPT ![c] = @ + 1]
      /\ fsr_state' = [fsr_state EXCEPT ![n] = "RUNNING"]
      /\ fsr_conn' = [fsr_conn EXCEPT ![n] = c]
      /\ fsr_msgid' = [fsr_msgid EXCEPT ![n] = id0]
      /\ fc_pending' = [fc_pending EXCEPT ![c][id0] = n]
      /\ handler' = [handler EXCEPT ![n] = "running"]
      /\ fc_pending[c][id0] = None /\ c \in fs_conns
      /\ UNCHANGED <<fs_conns, fc_draining, sock_open, fc_ncompleted, fsr_blackhole,
                     fc_server_error, fc_socket_error, accepted>>
    BY DEF StartCall, NewRequest, Operational, Duplicate, connVars, drainVars, pipeVars
<1>3. /\ fsr_state[n] = "none" /\ handler[n] = "none" /\ n \notin fsr_blackhole
      /\ \A d \in Conns : \A id \in CallIds : fc_pending[d][id] # n
      /\ \A q \in Reqs : q > n => q > fs_nrequests_started
    BY <1>1, NextIsNew
<1> HIDE DEF n, id0
<1>4. /\ \A d \in Conns : \A id \in CallIds : fc_pending'[d][id] =
            IF d = c /\ id = id0 THEN n ELSE fc_pending[d][id]
      /\ \A q \in Reqs :
            /\ fsr_state'[q] = IF q = n THEN "RUNNING" ELSE fsr_state[q]
            /\ fsr_conn'[q] = IF q = n THEN c ELSE fsr_conn[q]
            /\ fsr_msgid'[q] = IF q = n THEN id0 ELSE fsr_msgid[q]
            /\ handler'[q] = IF q = n THEN "running" ELSE handler[q]
    BY <1>1, <1>2 DEF TypeOK, TableTypeOK, PipeTypeOK
<1>5. Agree(fc_pending', fsr_state', fsr_conn', fsr_msgid')
  <2>1. ASSUME NEW d \in Conns, NEW id \in CallIds, fc_pending'[d][id] # None
        PROVE  /\ fsr_state'[fc_pending'[d][id]] = "RUNNING"
               /\ fsr_conn'[fc_pending'[d][id]] = d
               /\ fsr_msgid'[fc_pending'[d][id]] = id
    <3>1. CASE d = c /\ id = id0
        BY <1>1, <1>4, <3>1
    <3>2. CASE ~(d = c /\ id = id0)
      <4>1. /\ fc_pending'[d][id] = fc_pending[d][id]
            /\ fc_pending[d][id] \in Reqs \ {n}
        BY <1>3, <1>4, <2>1, <3>2 DEF TypeOK, TableTypeOK
      <4> QED
        BY <1>4, <2>1, <4>1 DEF Accounts, RequestsOK, Agree
    <3> QED
        BY <3>1, <3>2
  <2>2. ASSUME NEW q \in Reqs, fsr_state'[q] = "RUNNING"
        PROVE  /\ fsr_conn'[q] \in Conns /\ fsr_msgid'[q] \in CallIds
               /\ fc_pending'[fsr_conn'[q]][fsr_msgid'[q]] = q
    <3>1. CASE q = n
        BY <1>1, <1>4, <3>1
    <3>2. CASE q # n
      <4>1. /\ fsr_conn[q] \in Conns /\ fsr_msgid[q] \in CallIds
            /\ fc_pending[fsr_conn[q]][fsr_msgid[q]] = q
        BY <1>4, <2>2, <3>2 DEF Accounts, RequestsOK, Agree
      <4>2. q # None
        BY ServerAssumption DEF Reqs
      <4> QED
        BY <1>2, <1>4, <3>2, <4>1, <4>2
    <3> QED
        BY <3>1, <3>2
  <2> QED
    BY <2>1, <2>2 DEF Agree
<1>6. RequestsOK'
  <2>1. \A q \in Reqs : handler'[q] \in {"running", "ended"} => fsr_state'[q] = "RUNNING"
    BY <1>4 DEF Accounts, RequestsOK
  <2>2. n \in Int /\ Reqs \subseteq Int
    BY <1>1 DEF Reqs
  <2>3. \A q \in Reqs : q > n =>
            fsr_state'[q] = "none" /\ handler'[q] = "none" /\ q \notin fsr_blackhole
    BY <1>3, <1>4, <2>2 DEF Accounts, RequestsOK
  <2> QED
    BY <1>2, <1>5, <2>1, <2>3 DEF RequestsOK
<1>7. CutOK' /\ KnownOK'
    BY <1>2, <1>3, <1>4 DEF Accounts, CutOK, KnownOK, TypeOK, PipeTypeOK
<1>8. ASSUME NEW d \in Conns
      PROVE  /\ PendingOf(fc_pending', d) =
                   PendingOf(fc_pending, d) \cup IF d = c THEN {n} ELSE {}
             /\ PendingOf(fc_pending, d) \in SUBSET Reqs /\ n \notin PendingOf(fc_pending, d)
  <2>1. fc_pending' \in [Conns -> [CallIds -> Reqs \cup {None}]]
    BY DEF TypeOK, TableTypeOK
  <2>2. PendingOf(fc_pending', d) =
            {r \in Reqs : fsr_state'[r] = "RUNNING" /\ fsr_conn'[r] = d}
    BY <1>5, <2>1, PendingRuns
  <2> QED
    BY <1>1, <1>3, <1>4, <2>2, NowPending DEF Accounts
<1>9. ConnsAccounted'
  <2> SUFFICES ASSUME NEW d \in Conns
      PROVE /\ fc_nstarted'[d] - fc_ncompleted[d] = Cardinality(PendingOf(fc_pending', d))
            /\ d \in fc_draining \cap fs_conns => PendingOf(fc_pending', d) # {}
            /\ d \notin fs_conns => d \notin sock_open /\ PendingOf(fc_pending', d) = {}
            /\ \A r \in PendingOf(fc_pending', d) :
                 fsr_state'[r] = "RUNNING" /\ (r \in fsr_blackhole => d \notin sock_open)
    BY <1>2 DEF ConnsAccounted
  <2>1. /\ fc_nstarted[d] - fc_ncompleted[d] = Cardinality(PendingOf(fc_pending, d))
        /\ d \in fc_draining \cap fs_conns => PendingOf(fc_pending, d) # {}
        /\ d \notin fs_conns => d \notin sock_open /\ PendingOf(fc_pending, d) = {}
        /\ \A r \in PendingOf(fc_pending, d) :
              fsr_state[r] = "RUNNING" /\ (r \in fsr_blackhole => d \notin sock_open)
    BY DEF Accounts, ConnsAccounted
  <2>2. fc_nstarted'[d] - fc_ncompleted[d] = Cardinality(PendingOf(fc_pending', d))
    <3>1. fc_nstarted[d] \in Nat /\ fc_ncompleted[d] \in Nat
          /\ fc_nstarted'[d] = IF d = c THEN fc_nstarted[d] + 1 ELSE fc_nstarted[d]
        BY <1>2 DEF TypeOK, TableTypeOK
    <3>2. CASE d = c
      <4>1. Cardinality(PendingOf(fc_pending', d)) = Cardinality(PendingOf(fc_pending, d)) + 1
        BY <1>8, <3>2, ReqsFinite, FS_AddElement
      <4> QED
        BY <2>1, <3>1, <3>2, <4>1
    <3>3. CASE d # c
        BY <1>8, <2>1, <3>1, <3>3
    <3> QED
        BY <3>2, <3>3
  <2>3. \A r \in PendingOf(fc_pending', d) :
              fsr_state'[r] = "RUNNING" /\ (r \in fsr_blackhole => d \notin sock_open)
    <3> SUFFICES ASSUME NEW r \in PendingOf(fc_pending', d)
        PROVE fsr_state'[r] = "RUNNING" /\ (r \in fsr_blackhole => d \notin sock_open)
        OBVIOUS
    <3>1. r = n \/ (r \in PendingOf(fc_pending, d) /\ r \in Reqs /\ r # n)
        BY <1>8
    <3> QED
        BY <1>1, <1>3, <1>4, <2>1, <3>1
  <2> QED
    BY <1>2, <1>8, <2>1, <2>2, <2>3
<1> QED
    BY <1>6, <1>7, <1>9 DEF Accounts

LEMMA CleanupAccounts ==
    ASSUME TypeOK, Accounts, NEW r \in Reqs, fsr_state[r] = "RUNNING",
           RequestCleanup(r), NEW last \in {"failed", "finished"},
           handler' = [handler EXCEPT ![r] = last],
           UNCHANGED <<fsr_blackhole, fc_server_error, fc_socket_error, accepted>>
    PROVE  Accounts'
<1> DEFINE own == fsr_conn[r]
<1>1. /\ own \in Conns
      /\ Agree(Without(r), [fsr_state EXCEPT ![r] = "COMPLETE"], fsr_conn, fsr_msgid)
      /\ \A c \in Conns : PendingOf(Without(r), c) = PendingOf(fc_pending, c) \ {r}
    BY CleanupPending DEF Accounts
<1>2. /\ fc_pending' = Without(r)
      /\ fsr_state' = [fsr_state EXCEPT ![r] = "COMPLETE"]
      /\ fc_ncompleted' = [fc_ncompleted EXCEPT ![own] = @ + 1]
      /\ ConnDrain({own} \cap fc_draining, Without(r), {})
      /\ UNCHANGED <<fs_nrequests_started, fc_nstarted, fsr_conn, fsr_msgid>>
    BY DEF RequestCleanup, Draining, Completed
<1>3. \A c \in Conns : PendingOf(fc_pending, c) =
            {q \in Reqs : fsr_state[q] = "RUNNING" /\ fsr_conn[q] = c}
    BY NowPending DEF Accounts
<1> HIDE DEF own
<1>4. /\ r \in PendingOf(fc_pending, own)
      /\ \A c \in Conns : c # own => r \notin PendingOf(fc_pending, c)
    BY <1>1, <1>3 DEF own
<1>5. own \in fs_conns
    BY <1>1, <1>4 DEF Accounts, ConnsAccounted
<1>6. /\ KnownOK'
      /\ sock_open' \subseteq sock_open
      /\ \A c \in Conns : c \in fc_draining' \cap fs_conns' =>
            PendingOf(Without(r), c) # {}
      /\ \A c \in Conns : c \notin fs_conns' =>
            c \notin sock_open' /\ PendingOf(Without(r), c) = {}
  <2>1. \A c \in Conns : c \in (fc_draining \cap fs_conns) \ ({own} \cap fc_draining) =>
            PendingOf(Without(r), c) # {}
    <3> SUFFICES ASSUME NEW c \in Conns, c \in fc_draining, c \in fs_conns, c # own
                 PROVE  PendingOf(Without(r), c) # {}
        OBVIOUS
    <3>1. PendingOf(Without(r), c) = PendingOf(fc_pending, c)
        BY <1>1, <1>4
    <3> QED
        BY <3>1 DEF Accounts, ConnsAccounted
  <2>2. \A c \in Conns : c \notin fs_conns =>
            c \notin sock_open /\ PendingOf(Without(r), c) = {}
    BY <1>1 DEF Accounts, ConnsAccounted
  <2>3. {own} \cap fc_draining \in SUBSET fs_conns
    BY <1>5
  <2>4. KnownOK
    BY DEF Accounts
  <2> QED
    BY <1>2, <2>1, <2>2, <2>3, <2>4, DrainKeeps
<1>7. \A q \in Reqs :
            /\ fsr_state'[q] = IF q = r THEN "COMPLETE" ELSE fsr_state[q]
            /\ handler'[q] = IF q = r THEN last ELSE handler[q]
    BY <1>2 DEF TypeOK, TableTypeOK, PipeTypeOK
<1>8. RequestsOK'
  <2>1. \A q \in Reqs : handler'[q] \in {"running", "ended"} => fsr_state'[q] = "RUNNING"
    BY <1>7 DEF Accounts, RequestsOK
  <2>2. \A q \in Reqs : q > fs_nrequests_started =>
            q # r /\ fsr_state'[q] = "none" /\ handler'[q] = "none" /\ q \notin fsr_blackhole
    BY <1>7 DEF Accounts, RequestsOK
  <2> QED
    BY <1>1, <1>2, <2>1, <2>2 DEF RequestsOK
<1>9. CutOK'
    BY <1>2, <1>7 DEF Accounts, CutOK, TypeOK, PipeTypeOK
<1>10. ConnsAccounted'
  <2> SUFFICES ASSUME NEW c \in Conns
      PROVE /\ fc_nstarted[c] - fc_ncompleted'[c] = Cardinality(PendingOf(Without(r), c))
            /\ \A q \in PendingOf(Without(r), c) :
                 fsr_state'[q] = "RUNNING" /\ (q \in fsr_blackhole => c \notin sock_open')
    BY <1>2, <1>6 DEF ConnsAccounted
  <2>1. /\ fc_nstarted[c] - fc_ncompleted[c] = Cardinality(PendingOf(fc_pending, c))
        /\ \A q \in PendingOf(fc_pending, c) :
              fsr_state[q] = "RUNNING" /\ (q \in fsr_blackhole => c \notin sock_open)
    BY DEF Accounts, ConnsAccounted
  <2>2. fc_nstarted[c] - fc_ncompleted'[c] = Cardinality(PendingOf(Without(r), c))
    <3>1. fc_nstarted[c] \in Nat /\ fc_ncompleted[c] \in Nat
          /\ fc_ncompleted'[c] = IF c = own THEN fc_ncompleted[c] + 1 ELSE fc_ncompleted[c]
        BY <1>2 DEF TypeOK, TableTypeOK
    <3>2. CASE c = own
      <4>1. PendingOf(fc_pending, c) \in SUBSET Reqs
        BY <1>3
      <4>2. /\ Cardinality(PendingOf(fc_pending, c) \ {r}) =
                    Cardinality(PendingOf(fc_pending, c)) - 1
            /\ Cardinality(PendingOf(fc_pending, c)) \in Nat
        BY <1>4, <3>2, <4>1, ReqsFinite, FS_RemoveElement
      <4>3. PendingOf(Without(r), c) = PendingOf(fc_pending, c) \ {r}
        BY <1>1
      <4> QED
        BY <2>1, <3>1, <3>2, <4>2, <4>3
    <3>3. CASE c # own
      <4>1. PendingOf(Without(r), c) = PendingOf(fc_pending, c)
        BY <1>1, <1>4, <3>3
      <4> QED
        BY <2>1, <3>1, <3>3, <4>1
    <3> QED
        BY <3>2, <3>3
  <2>3. \A q \in PendingOf(Without(r), c) :
                 fsr_state'[q] = "RUNNING" /\ (q \in fsr_blackhole => c \notin sock_open')
    BY <1>1, <1>3, <1>6, <1>7, <2>1
  <2> QED
    BY <2>2, <2>3
<1> QED
    BY <1>6, <1>8, <1>9, <1>10 DEF Accounts

\* A call that fails at once is started and completed in one step.
LEMMA RejectCallAccounts ==
    ASSUME TypeOK, Numbered, Accounts, NEW c \in Conns, RejectCall(c), crashed' = "no"
    PROVE  Accounts'
<1> DEFINE n == fs_nrequests_started + 1
           C == {c} \cap fc_draining
<1>1. n \in Reqs
    BY NextCall DEF RejectCall, TakesMessage
<1>2. /\ fs_nrequests_started' = n
      /\ fc_nstarted' = [fc_nstarted EXCEPT ![c] = @ + 1]
      /\ fsr_state' = [fsr_state EXCEPT ![n] = "COMPLETE"]
      /\ fsr_conn' = [fsr_conn EXCEPT ![n] = c]
      /\ fsr_msgid' = [fsr_msgid EXCEPT ![n] = Message(c).msgid]
      /\ fc_ncompleted' = [fc_ncompleted EXCEPT ![c] = @ + 1]
      /\ ConnDrain(C, fc_pending, {}) /\ c \in fs_conns
      /\ UNCHANGED <<fc_pending, fsr_blackhole, handler,
                     fc_server_error, fc_socket_error, accepted>>
    BY DEF RejectCall, TakesMessage, NewRequest, Completed, Operational, connVars,
           pipeVars, handlerVars
<1>3. /\ fsr_state[n] = "none" /\ handler[n] = "none" /\ n \notin fsr_blackhole
      /\ \A d \in Conns : \A id \in CallIds : fc_pending[d][id] # n
      /\ \A q \in Reqs : q > n => q > fs_nrequests_started
    BY <1>1, NextIsNew
<1> HIDE DEF n
<1>4. \A q \in Reqs :
            /\ fsr_state'[q] = IF q = n THEN "COMPLETE" ELSE fsr_state[q]
            /\ q # n => fsr_conn'[q] = fsr_conn[q] /\ fsr_msgid'[q] = fsr_msgid[q]
    BY <1>1, <1>2 DEF TypeOK, TableTypeOK
<1>5. Agree(fc_pending, fsr_state', fsr_conn', fsr_msgid')
  <2>1. \A d \in Conns : \A id \in CallIds :
            fc_pending[d][id] # None => fc_pending[d][id] \in Reqs \ {n}
    BY <1>3 DEF TypeOK, TableTypeOK
  <2> QED
    BY <1>4, <2>1 DEF Accounts, RequestsOK, Agree
<1>6. RequestsOK'
  <2>1. \A q \in Reqs : handler[q] \in {"running", "ended"} => fsr_state'[q] = "RUNNING"
    BY <1>3, <1>4 DEF Accounts, RequestsOK
  <2>2. n \in Int /\ Reqs \subseteq Int
    BY <1>1 DEF Reqs
  <2>3. \A q \in Reqs : q > n =>
            fsr_state'[q] = "none" /\ handler[q] = "none" /\ q \notin fsr_blackhole
    BY <1>3, <1>4, <2>2 DEF Accounts, RequestsOK
  <2> QED
    BY <1>2, <1>5, <2>1, <2>3 DEF RequestsOK
<1>7. CutOK'
    BY <1>2, <1>3, <1>4 DEF Accounts, CutOK, TypeOK, PipeTypeOK
<1>8. /\ KnownOK'
      /\ sock_open' \subseteq sock_open
      /\ \A d \in Conns : d \in fc_draining' \cap fs_conns' =>
            PendingOf(fc_pending, d) # {}
      /\ \A d \in Conns : d \notin fs_conns' =>
            d \notin sock_open' /\ PendingOf(fc_pending, d) = {}
  <2>1. C \in SUBSET fs_conns
    BY <1>2
  <2>2. /\ KnownOK
        /\ \A d \in Conns : d \in (fc_draining \cap fs_conns) \ C =>
                PendingOf(fc_pending, d) # {}
        /\ \A d \in Conns : d \notin fs_conns =>
                d \notin sock_open /\ PendingOf(fc_pending, d) = {}
    BY DEF Accounts, ConnsAccounted
  <2> HIDE DEF C
  <2> QED
    BY <1>2, <2>1, <2>2, DrainKeeps
<1>9. ConnsAccounted'
  <2> SUFFICES ASSUME NEW d \in Conns
      PROVE /\ fc_nstarted'[d] - fc_ncompleted'[d] = Cardinality(PendingOf(fc_pending, d))
            /\ \A q \in PendingOf(fc_pending, d) :
                 fsr_state'[q] = "RUNNING" /\ (q \in fsr_blackhole => d \notin sock_open')
    BY <1>2, <1>8 DEF ConnsAccounted
  <2>1. /\ fc_nstarted[d] - fc_ncompleted[d] = Cardinality(PendingOf(fc_pending, d))
        /\ \A q \in PendingOf(fc_pending, d) :
              fsr_state[q] = "RUNNING" /\ (q \in fsr_blackhole => d \notin sock_open)
    BY DEF Accounts, ConnsAccounted
  <2>2. fc_nstarted'[d] - fc_ncompleted'[d] = fc_nstarted[d] - fc_ncompleted[d]
    BY <1>2 DEF TypeOK, TableTypeOK
  <2>3. PendingOf(fc_pending, d) \in SUBSET Reqs
    BY NowPending DEF Accounts
  <2> QED
    BY <1>3, <1>4, <1>8, <2>1, <2>2, <2>3
<1> QED
    BY <1>6, <1>7, <1>8, <1>9 DEF Accounts
-----------------------------------------------------------------------------
(* No assertion fails *)

\* Connections the server knows can drain.
LEMMA KnownDrain ==
    ASSUME TypeOK, Accounts, NEW C \in SUBSET fs_conns
    PROVE  DrainAsserts(C, fc_pending, fc_nstarted, fc_ncompleted)
<1>1. \A c \in C : /\ c \in fs_conns
                   /\ fc_nstarted[c] \in Nat /\ fc_ncompleted[c] \in Nat
                   /\ PendingOf(fc_pending, c) \subseteq Reqs
                   /\ fc_nstarted[c] - fc_ncompleted[c] = Cardinality(PendingOf(fc_pending, c))
    BY PendingType DEF TypeOK, ConnTypeOK, TableTypeOK, Accounts, ConnsAccounted
<1> QED
    BY <1>1, DrainAssertsHold

\* What was cut off once is not cut off again.
LEMMA AbandonAssertsHold ==
    ASSUME TypeOK, Accounts, NEW C \in SUBSET fs_conns,
           C \cap (fc_server_error \cup fc_socket_error) = {}
    PROVE  AbandonAsserts(C)
<1>1. ASSUME NEW r \in RequestsOf(C)
      PROVE  fsr_state[r] = "RUNNING" /\ r \notin fsr_blackhole
  <2>1. PICK c \in C : r \in PendingOf(fc_pending, c)
    BY DEF RequestsOf
  <2>2. c \in Conns
    BY <2>1 DEF TypeOK, ConnTypeOK
  <2>3. fsr_state[r] = "RUNNING" /\ fsr_conn[r] = c
    BY <2>1, <2>2, NowPending DEF Accounts
  <2> QED
    BY <2>1, <2>3 DEF Accounts, CutOK
<1> QED
    BY <1>1, KnownDrain DEF AbandonAsserts

\* A request that runs can be completed.
LEMMA CleanupAssertsHold ==
    ASSUME TypeOK, Accounts, NEW r \in Reqs, fsr_state[r] = "RUNNING"
    PROVE  CleanupAsserts(r)
<1> DEFINE own == fsr_conn[r]
<1>1. /\ own \in Conns
      /\ fc_pending[own][fsr_msgid[r]] = r
      /\ \A c \in Conns : PendingOf(Without(r), c) = PendingOf(fc_pending, c) \ {r}
    BY CleanupPending DEF Accounts
<1>2. /\ r \in PendingOf(fc_pending, own) /\ PendingOf(fc_pending, own) \in SUBSET Reqs
    BY <1>1, NowPending DEF Accounts
<1>3. own \in fs_conns
    BY <1>1, <1>2 DEF Accounts, ConnsAccounted
<1>4. /\ Cardinality(PendingOf(fc_pending, own) \ {r}) =
                Cardinality(PendingOf(fc_pending, own)) - 1
      /\ Cardinality(PendingOf(fc_pending, own)) \in Nat
    BY <1>2, ReqsFinite, FS_RemoveElement
<1>5. /\ fc_nstarted[own] \in Nat /\ fc_ncompleted[own] \in Nat
      /\ Completed(own)[own] = fc_ncompleted[own] + 1
    BY <1>1 DEF Completed, TypeOK, TableTypeOK
<1>6. PendingOf(Without(r), own) = PendingOf(fc_pending, own) \ {r}
    BY <1>1
<1>7. fc_nstarted[own] - fc_ncompleted[own] = Cardinality(PendingOf(fc_pending, own))
    BY <1>1 DEF Accounts, ConnsAccounted
<1>8. fc_nstarted[own] - Completed(own)[own] = Cardinality(PendingOf(Without(r), own))
    BY <1>4, <1>5, <1>6, <1>7
<1>9. Draining(r) \subseteq {own}
    BY DEF Draining
<1>10. DrainAsserts(Draining(r), Without(r), fc_nstarted, Completed(own))
  <2>1. Completed(own)[own] \in Nat /\ PendingOf(Without(r), own) \subseteq Reqs
    BY <1>2, <1>5, <1>6
  <2> HIDE DEF own
  <2> QED
    BY <1>3, <1>5, <1>8, <1>9, <2>1, DrainAssertsHold
<1> QED
    BY <1>1, <1>10 DEF CleanupAsserts

\* A connection that an event is about and that is not gone can be ended or fail:
\* its listeners assert nothing that is not so, and crash by surprise only.
LEMMA ConnectionAsserts ==
    ASSUME TypeOK, Accounts, SocketsOK, NEW c \in Conns,
           ConnCreate(c) \/ OnConnectionEnd(c) \/ OnConnectionError(c)
    PROVE  NoAssertionFailure'
<1> SUFFICES crashed' \in {"no"} \cup Surprises
    BY DEF NoAssertionFailure
<1>1. c \notin fs_conns => c \notin sock_open
    BY DEF Accounts, ConnsAccounted
<1>2. CASE ConnCreate(c)
    BY <1>2 DEF ConnCreate, Crash
<1>3. CASE OnConnectionEnd(c)
  <2>1. CASE c \in fs_conns
    <3>1. DrainAsserts({c}, fc_pending, fc_nstarted, fc_ncompleted)
        BY <2>1, KnownDrain
    <3> QED
        BY <1>3, <2>1, <3>1 DEF OnConnectionEnd
  <2>2. CASE c \notin fs_conns
    <3>1. Cause(c, "late end") = "late end" /\ "late end" \in Surprises
        BY <1>1, <1>3, <2>2 DEF OnConnectionEnd, Cause
    <3> QED
        BY <1>3, <2>2, <3>1 DEF OnConnectionEnd, Crash
  <2> QED
    BY <2>1, <2>2
<1>4. CASE OnConnectionError(c)
  <2>1. CASE c \in fs_conns
    <3>1. c \notin fc_socket_error
        BY <1>4 DEF OnConnectionError, WritesToDestroyed, SocketsOK
    <3>2. AbandonAsserts({c} \ fc_server_error)
        BY <2>1, <3>1, AbandonAssertsHold
    <3> QED
        BY <1>4, <2>1, <3>1, <3>2 DEF OnConnectionError
  <2>2. CASE c \notin fs_conns
    <3>1. Cause(c, "late error") = "late error" /\ "late error" \in Surprises
        BY <1>1, <1>4, <2>2 DEF OnConnectionError, Cause
    <3> QED
        BY <1>4, <2>2, <3>1 DEF OnConnectionError, Crash
  <2> QED
    BY <2>1, <2>2
<1> QED
    BY <1>2, <1>3, <1>4

LEMMA TerminateAssertsHold ==
    ASSUME TypeOK, Accounts, NEW C \in SUBSET fs_conns
    PROVE  TerminateAsserts(C)
<1>1. C \ (fc_server_error \cup fc_socket_error) \in SUBSET fs_conns
    OBVIOUS
<1> QED
    BY <1>1, AbandonAssertsHold DEF TerminateAsserts

LEMMA MessageAsserts ==
    ASSUME TypeOK, Accounts, NEW c \in Conns, OnMessage(c)
    PROVE  crashed' = "no"
<1>1. CASE DropMessage(c)
    BY <1>1 DEF DropMessage, TakesMessage
<1>2. CASE RejectMessage(c)
  <2>1. c \in fs_conns
    BY <1>2 DEF RejectMessage, Operational
  <2>2. TerminateAsserts({c})
    BY <2>1, TerminateAssertsHold
  <2> QED
    BY <1>2, <2>2 DEF RejectMessage, TakesMessage
<1>3. CASE RejectCall(c)
  <2> DEFINE nstarted == [fc_nstarted EXCEPT ![c] = @ + 1]
             C == {c} \cap fc_draining
  <2>1. c \in fs_conns
    BY <1>3 DEF RejectCall, Operational
  <2>2. /\ nstarted[c] \in Nat /\ Completed(c)[c] \in Nat
        /\ nstarted[c] - Completed(c)[c] = Cardinality(PendingOf(fc_pending, c))
        /\ PendingOf(fc_pending, c) \subseteq Reqs
    BY PendingType DEF Completed, TypeOK, TableTypeOK, Accounts, ConnsAccounted
  <2>3. \A d \in C : d = c
    OBVIOUS
  <2> HIDE DEF nstarted, C
  <2>4. DrainAsserts(C, fc_pending, nstarted, Completed(c))
    BY <2>1, <2>2, <2>3, DrainAssertsHold
  <2> QED
    BY <1>3, <2>4 DEF RejectCall, TakesMessage, nstarted, C
<1>4. CASE StartCall(c)
    BY <1>4 DEF StartCall
<1> QED
    BY <1>1, <1>2, <1>3, <1>4 DEF OnMessage

LEMMA RequestAsserts ==
    ASSUME TypeOK, Accounts, NEW r \in Reqs,
           HandlerFail(r) \/ RequestComplete(r)
    PROVE  crashed' = "no"
<1>1. fsr_state[r] = "RUNNING"
    BY DEF HandlerFail, RequestComplete, Accounts, RequestsOK
<1>2. CleanupAsserts(r)
    BY <1>1, CleanupAssertsHold
<1> QED
    BY <1>1, <1>2 DEF HandlerFail, RequestComplete
-----------------------------------------------------------------------------
(* Callbacks *)

callbackVars == <<fs_conns, fs_conns_destroyed_callbacks, immediates, asked, called>>

LEMMA CallbacksSame ==
    ASSUME CallbacksInOrder, UNCHANGED callbackVars
    PROVE  CallbacksInOrder'
BY DEF CallbacksInOrder, callbackVars

LEMMA DrainCallbacks ==
    ASSUME TypeOK, CallbacksInOrder, NEW C, NEW pending, NEW D,
           ConnDrain(C, pending, D), asked' = asked, called' = called
    PROVE  CallbacksInOrder'
<1>1. /\ called \in Seq(Callbacks) /\ immediates \in Seq(Callbacks)
      /\ fs_conns_destroyed_callbacks \in Seq(Callbacks)
    BY DEF TypeOK, ApiTypeOK
<1>2. CASE ReleaseCallbacks
  <2>1. called \o (immediates \o fs_conns_destroyed_callbacks) =
            (called \o immediates) \o fs_conns_destroyed_callbacks
    BY SMTT(30), <1>1, ConcatAssociative
  <2>2. immediates \o fs_conns_destroyed_callbacks \in Seq(Callbacks)
    BY <1>1, ConcatProperties
  <2>3. called \o (immediates \o fs_conns_destroyed_callbacks) \in Seq(Callbacks)
    BY <1>1, <2>2, ConcatProperties
  <2>4. (called \o (immediates \o fs_conns_destroyed_callbacks)) \o <<>> =
            called \o (immediates \o fs_conns_destroyed_callbacks)
    BY <2>3, ConcatEmptySeq
  <2> QED
    BY <1>2, <2>1, <2>4, Zenon DEF CallbacksInOrder, ReleaseCallbacks
<1>3. CASE ~ReleaseCallbacks
  <2>1. /\ UNCHANGED <<immediates, fs_conns_destroyed_callbacks>>
        /\ fs_conns' = {} => fs_conns = {}
    BY <1>3 DEF ConnDrain
  <2> QED
    BY <2>1 DEF CallbacksInOrder
<1> QED
    BY <1>2, <1>3

LEMMA AskedCallbacks ==
    ASSUME TypeOK, CallbacksInOrder, NEW callback \in Callbacks,
           OnConnsDestroyed(callback)
    PROVE  CallbacksInOrder'
<1> DEFINE waiting == fs_conns_destroyed_callbacks
<1>1. /\ called \in Seq(Callbacks) /\ immediates \in Seq(Callbacks)
      /\ waiting \in Seq(Callbacks)
    BY DEF TypeOK, ApiTypeOK
<1>2. asked' = Append((called \o immediates) \o waiting, callback)
      /\ called' = called /\ fs_conns' = fs_conns
    BY DEF OnConnsDestroyed, CallbacksInOrder
<1>3. \A s, t \in Seq(Callbacks) : Append(s \o t, callback) = s \o Append(t, callback)
    OBVIOUS
<1>4. called \o immediates \in Seq(Callbacks)
    BY <1>1, ConcatProperties
<1>5. CASE fs_conns = {}
  <2>1. waiting = <<>> /\ waiting' = <<>> /\ immediates' = Append(immediates, callback)
    BY <1>5 DEF OnConnsDestroyed, CallbacksInOrder
  <2>2. (called \o immediates) \o <<>> = called \o immediates
    BY <1>4, ConcatEmptySeq
  <2>3. called \o Append(immediates, callback) \in Seq(Callbacks)
    BY <1>1, AppendProperties, ConcatProperties
  <2>4. (called \o Append(immediates, callback)) \o <<>> =
            called \o Append(immediates, callback)
    BY <2>3, ConcatEmptySeq
  <2>5. asked' = called \o Append(immediates, callback)
    BY <1>1, <1>2, <1>3, <2>1, <2>2
  <2> QED
    BY <1>2, <2>1, <2>4, <2>5, Zenon DEF CallbacksInOrder
<1>6. CASE fs_conns # {}
  <2>1. waiting' = Append(waiting, callback) /\ immediates' = immediates
    BY <1>6 DEF OnConnsDestroyed
  <2>2. asked' = (called \o immediates) \o Append(waiting, callback)
    BY <1>1, <1>2, <1>3, <1>4
  <2> QED
    BY <1>2, <1>6, <2>1, <2>2 DEF CallbacksInOrder
<1> QED
    BY <1>5, <1>6

LEMMA RunCallbacks ==
    ASSUME TypeOK, CallbacksInOrder, RunImmediate
    PROVE  CallbacksInOrder'
<1>1. /\ called \in Seq(Callbacks) /\ immediates \in Seq(Callbacks)
      /\ immediates # <<>>
    BY DEF TypeOK, ApiTypeOK, RunImmediate
<1>2. Append(called, Head(immediates)) \o Tail(immediates) = called \o immediates
    BY <1>1
<1>3. /\ called' \o immediates' = called \o immediates
      /\ UNCHANGED <<fs_conns, fs_conns_destroyed_callbacks, asked>>
    BY <1>2 DEF RunImmediate
<1> QED
    BY <1>3 DEF CallbacksInOrder
-----------------------------------------------------------------------------
(* The invariant *)

LEMMA InitHolds ==
    ASSUME Init
    PROVE  IInv
<1>1. TypeOK
  <2>1. \A S : <<>> \in Seq(S)
    OBVIOUS
  <2>2. ConnTypeOK
    BY DEF Init, ConnTypeOK
  <2>3. TableTypeOK
    BY DEF Init, TableTypeOK, States
  <2>4. PipeTypeOK
    BY <2>1 DEF Init, PipeTypeOK
  <2>5. OutTypeOK /\ InputTypeOK
    BY <2>1 DEF Init, OutTypeOK, InputTypeOK
  <2>6. ApiTypeOK
    BY <2>1 DEF Init, ApiTypeOK
  <2> QED
    BY <2>2, <2>3, <2>4, <2>5, <2>6 DEF TypeOK
<1>2. Numbered
  <2>1. \A c \in Conns : inbound[c] = <<>>
    BY DEF Init
  <2>2. \A c \in Conns : Len(inbound[c]) = 0
    BY <2>1
  <2>3. \A c \in Conns : 1 .. Len(inbound[c]) = {}
    BY <2>2
  <2>4. Queued = {}
    BY <2>3 DEF Queued
  <2>5. IsFiniteSet(Queued) /\ Cardinality(Queued) = 0
    BY <2>4, FS_EmptySet
  <2> QED
    BY <2>3, <2>5, ServerAssumption DEF Init, Numbered
<1>3. \A c \in Conns : PendingOf(fc_pending, c) = {}
    BY DEF Init, PendingOf
<1>4. RequestsOK /\ CutOK /\ KnownOK
    BY DEF Init, RequestsOK, Agree, CutOK, KnownOK
<1>5. ConnsAccounted
  <2>1. Cardinality({}) = 0
    BY FS_EmptySet
  <2>2. \A c \in Conns : /\ fc_nstarted[c] = 0 /\ fc_ncompleted[c] = 0
                        /\ c \notin fc_draining /\ c \notin sock_open
    BY DEF Init
  <2> QED
    BY <1>3, <2>1, <2>2 DEF ConnsAccounted
<1>6. CallbacksInOrder
  <2>1. <<>> \o <<>> \o <<>> = <<>>
    OBVIOUS
  <2> QED
    BY <2>1 DEF Init, CallbacksInOrder
<1> QED
    BY <1>1, <1>2, <1>4, <1>5, <1>6
    DEF IInv, Accounts, Init, SocketsOK, NoAssertionFailure

\* The part of IInv that tells what the server has done.
Kept == TypeOK /\ Numbered /\ Accounts /\ CallbacksInOrder

LEMMA CrashKeeps ==
    ASSUME IInv, Crashes, NoAssertionFailure'
    PROVE  Kept'
<1>1. TypeOK'
    BY CrashTypes DEF IInv
<1>2. UNCHANGED accountVars /\ UNCHANGED callbackVars
      /\ UNCHANGED <<inbound, nmsgs, fs_nrequests_started>>
    BY DEF Crashes, Crash, accountVars, callbackVars, connVars, drainVars, tableVars,
           pipeVars, handlerVars, inVars, apiVars
<1> QED
    BY <1>1, <1>2, AccountsSame, CallbacksSame, NumberedSame DEF IInv, Kept

LEMMA ConnectionsKeep ==
    ASSUME IInv, NEW c \in Conns,
           ConnCreate(c) \/ OnConnectionEnd(c) \/ OnConnectionError(c), ~Crashes
    PROVE  Kept'
<1>1. UNCHANGED <<inbound, nmsgs, fs_nrequests_started, asked, called>>
    BY DEF Crashes, ConnCreate, OnConnectionEnd, OnConnectionError, tableVars, inVars, apiVars
<1>2. Numbered'
    BY <1>1, NumberedSame DEF IInv
<1>3. CASE ConnCreate(c)
  <2>1. ~fs_closed
    BY <1>3 DEF ConnCreate, Crashes
  <2>2. CallbacksInOrder'
    BY <1>1, <1>3, <2>1 DEF ConnCreate, CallbacksInOrder, IInv
  <2> QED
    BY <1>2, <1>3, <2>1, <2>2, CreateTypes, CreateAccounts DEF IInv, Kept
<1>4. CASE OnConnectionEnd(c)
  <2>1. UNCHANGED callbackVars \/ ConnDrain({c}, fc_pending, {})
    BY <1>1, <1>4 DEF OnConnectionEnd, Crashes, callbackVars, drainVars
  <2>2. CallbacksInOrder'
    BY <1>1, <2>1, CallbacksSame, DrainCallbacks DEF IInv
  <2> QED
    BY <1>2, <1>4, <2>2, EndTypes, EndAccounts DEF IInv, Kept
<1>5. CASE OnConnectionError(c)
  <2>1. ConnDrain({c} \ fc_server_error, fc_pending, {c} \ fc_server_error)
    BY <1>5 DEF OnConnectionError, Crashes, AbandonConns
  <2>2. CallbacksInOrder'
    BY <1>1, <2>1, DrainCallbacks DEF IInv
  <2> QED
    BY <1>2, <1>5, <2>2, ErrorTypes, ErrorAccounts DEF IInv, Kept
<1> QED
    BY <1>3, <1>4, <1>5

LEMMA ApiKeeps ==
    ASSUME IInv, ~Crashes,
           \/ Close \/ RunImmediate
           \/ \E callback \in Callbacks : OnConnsDestroyed(callback)
    PROVE  Kept'
<1>1. UNCHANGED <<inbound, nmsgs, fs_nrequests_started>>
    BY DEF Close, Crashes, RunImmediate, OnConnsDestroyed, tableVars, inVars
<1>2. Numbered'
    BY <1>1, NumberedSame DEF IInv
<1>3. CASE Close
  <2>1. /\ ConnTerminate(fs_conns)
        /\ UNCHANGED <<tableVars, accepted, handler, asked, called>>
    BY <1>3 DEF Close, Crashes, inVars, handlerVars
  <2>2. CallbacksInOrder'
    BY <2>1, DrainCallbacks DEF ConnTerminate, AbandonConns, IInv
  <2>3. Accounts'
    BY <2>1, TerminateAccounts DEF IInv
  <2> QED
    BY <1>2, <1>3, <2>2, <2>3, CloseTypes DEF IInv, Kept
<1>4. CASE RunImmediate
  <2>1. UNCHANGED accountVars
    BY <1>4 DEF RunImmediate, accountVars, connVars, pipeVars, handlerVars, inVars
  <2> QED
    BY <1>2, <1>4, <2>1, AccountsSame, ImmediateTypes, RunCallbacks DEF IInv, Kept
<1>5. ASSUME NEW callback \in Callbacks, OnConnsDestroyed(callback)
      PROVE  Kept'
  <2>1. UNCHANGED accountVars
    BY <1>5 DEF OnConnsDestroyed, accountVars, connVars, pipeVars, handlerVars, inVars
  <2> QED
    BY <1>2, <1>5, <2>1, AccountsSame, CallbackTypes, AskedCallbacks DEF IInv, Kept
<1> QED
    BY <1>3, <1>4, <1>5

LEMMA MessagesKeep ==
    ASSUME IInv, NEW c \in Conns, OnMessage(c)
    PROVE  Kept'
<1>1. crashed' = "no"
    BY MessageAsserts DEF IInv
<1>2. asked' = asked /\ called' = called
    BY DEF OnMessage, DropMessage, RejectMessage, RejectCall, StartCall,
           TakesMessage, apiVars
<1>3. CASE DropMessage(c)
  <2>1. UNCHANGED accountVars /\ UNCHANGED callbackVars
    BY <1>3 DEF DropMessage, TakesMessage, accountVars, callbackVars, connVars,
                drainVars, pipeVars, handlerVars, apiVars
  <2> QED
    BY <1>3, <2>1, AccountsSame, CallbacksSame, DropTypes DEF IInv, Kept
<1>4. CASE RejectMessage(c)
  <2>1. /\ ConnTerminate({c}) /\ c \in fs_conns
        /\ UNCHANGED <<tableVars, accepted, handler>>
    BY <1>1, <1>4 DEF RejectMessage, TakesMessage, Operational, handlerVars
  <2>2. CallbacksInOrder'
    BY <1>2, <2>1, DrainCallbacks DEF ConnTerminate, AbandonConns, IInv
  <2>3. Accounts'
    BY <2>1, TerminateAccounts DEF IInv
  <2> QED
    BY <1>4, <2>2, <2>3, RejectMessageTypes DEF IInv, Kept
<1>5. CASE RejectCall(c)
  <2>1. ConnDrain({c} \cap fc_draining, fc_pending, {})
    BY <1>1, <1>5 DEF RejectCall
  <2>2. CallbacksInOrder'
    BY <1>2, <2>1, DrainCallbacks DEF IInv
  <2> QED
    BY <1>1, <1>5, <2>2, RejectCallTypes, RejectCallAccounts DEF IInv, Kept
<1>6. CASE StartCall(c)
  <2>1. UNCHANGED callbackVars
    BY <1>6 DEF StartCall, callbackVars, drainVars, apiVars
  <2>2. TypeOK' /\ Numbered'
    BY <1>6, StartTypes DEF IInv
  <2> QED
    BY <1>6, <2>1, <2>2, CallbacksSame, StartAccounts DEF IInv, Kept
<1> QED
    BY <1>3, <1>4, <1>5, <1>6 DEF OnMessage

LEMMA RequestsKeep ==
    ASSUME IInv, NEW r \in Reqs, HandlerFail(r) \/ RequestComplete(r), ~Crashes
    PROVE  Kept'
<1>1. fsr_state[r] = "RUNNING"
    BY DEF HandlerFail, RequestComplete, IInv, Accounts, RequestsOK
<1>2. /\ RequestCleanup(r)
      /\ \E last \in {"failed", "finished"} : handler' = [handler EXCEPT ![r] = last]
      /\ UNCHANGED <<fsr_blackhole, fc_server_error, fc_socket_error, accepted,
                     inbound, nmsgs, asked, called>>
    BY DEF HandlerFail, RequestComplete, Crashes, connVars, pipeVars, inVars, apiVars
<1>3. fs_nrequests_started' = fs_nrequests_started
    BY <1>2 DEF RequestCleanup
<1>4. Numbered'
    BY <1>2, <1>3, NumberedSame DEF IInv
<1>5. Accounts'
    BY <1>1, <1>2, CleanupAccounts DEF IInv
<1>6. CallbacksInOrder'
    BY <1>2, DrainCallbacks DEF RequestCleanup, IInv
<1> QED
    BY <1>4, <1>5, <1>6, FailTypes, CompleteTypes DEF IInv, Kept

LEMMA PipelineKeeps ==
    ASSUME IInv, NEW r \in Reqs,
           \/ HandlerWrite(r) \/ HandlerEnd(r)
           \/ Transform(r) \/ Flush(r) \/ Pipe(r)
    PROVE  Kept'
<1>1. UNCHANGED <<inbound, nmsgs, fs_nrequests_started>> /\ UNCHANGED callbackVars
    BY DEF HandlerWrite, HandlerEnd, Transform, Flush, Pipe, callbackVars,
           drainVars, tableVars, inVars, apiVars
<1>2. TypeOK'
    BY WriteTypes, TransformTypes, PipeTypes DEF IInv
<1>3. Accounts'
  <2>1. CASE HandlerEnd(r)
    <3>1. /\ handler[r] = "running" /\ handler' = [handler EXCEPT ![r] = "ended"]
          /\ UNCHANGED <<fs_conns, fc_draining, sock_open, fs_nrequests_started,
                  fc_pending, fc_nstarted, fc_ncompleted, fsr_state, fsr_conn,
                  fsr_msgid, fsr_blackhole, fc_server_error, fc_socket_error, accepted>>
        BY <2>1 DEF HandlerEnd, connVars, drainVars, tableVars, pipeVars, inVars
    <3>2. \A q \in Reqs : handler'[q] = IF q = r THEN "ended" ELSE handler[q]
        BY <3>1 DEF IInv, TypeOK, PipeTypeOK
    <3>3. RequestsOK'
        BY <3>1, <3>2 DEF IInv, Accounts, RequestsOK, Agree
    <3> QED
        BY <3>1, <3>3 DEF IInv, Accounts, CutOK, KnownOK, ConnsAccounted, PendingOf
  <2>2. CASE ~HandlerEnd(r)
    <3>1. UNCHANGED accountVars
        BY <2>2 DEF HandlerWrite, Transform, Flush, Pipe, accountVars, connVars,
                    drainVars, handlerVars, inVars
    <3> QED
        BY <3>1, AccountsSame DEF IInv
  <2> QED
    BY <2>1, <2>2
<1> QED
    BY <1>1, <1>2, <1>3, NumberedSame, CallbacksSame DEF IInv, Kept

LEMMA SocketsKeep ==
    ASSUME IInv, NEW c \in Conns,
           SocketWrite(c) \/ ClientSends(c) \/ SocketClosed(c)
    PROVE  Kept'
<1>1. UNCHANGED accountVars /\ UNCHANGED callbackVars
    BY DEF SocketWrite, ClientSends, SocketClosed, accountVars, callbackVars, connVars,
           drainVars, tableVars, pipeVars, handlerVars, inVars, apiVars
<1>2. Accounts' /\ CallbacksInOrder'
    BY <1>1, AccountsSame, CallbacksSame DEF IInv
<1>3. CASE SocketWrite(c)
  <2>1. UNCHANGED <<inbound, nmsgs, fs_nrequests_started>>
    BY <1>3 DEF SocketWrite, tableVars, inVars
  <2> QED
    BY <1>2, <1>3, <2>1, NumberedSame, SocketTypes DEF IInv, Kept
<1>4. CASE ClientSends(c)
    BY <1>2, <1>4, SentKeeps DEF IInv, Kept
<1>5. CASE SocketClosed(c)
  <2>1. UNCHANGED <<inbound, nmsgs, fs_nrequests_started>>
    BY <1>5 DEF SocketClosed, tableVars, inVars
  <2> QED
    BY <1>2, <1>5, <2>1, NumberedSame, ClosedTypes DEF IInv, Kept
<1> QED
    BY <1>3, <1>4, <1>5

LEMMA StaysUp ==
    ASSUME IInv, Next
    PROVE  NoAssertionFailure'
<1>1. ASSUME NEW c \in Conns,
             \/ ConnCreate(c) \/ OnConnectionEnd(c) \/ OnConnectionError(c)
             \/ SocketClosed(c) \/ OnMessage(c)
             \/ SocketWrite(c) \/ ClientSends(c) \/ InputFails(c)
      PROVE  NoAssertionFailure'
  <2>1. CASE SocketClosed(c) \/ SocketWrite(c) \/ ClientSends(c)
    BY <2>1 DEF SocketClosed, SocketWrite, ClientSends, NoAssertionFailure
  <2>2. CASE InputFails(c)
    BY <2>2 DEF InputFails, Crash, NoAssertionFailure
  <2>3. CASE OnMessage(c)
    BY <2>3, MessageAsserts DEF IInv, NoAssertionFailure
  <2> QED
    BY <1>1, <2>1, <2>2, <2>3, ConnectionAsserts DEF IInv
<1>2. ASSUME NEW r \in Reqs,
             \/ HandlerWrite(r) \/ HandlerEnd(r) \/ HandlerFail(r)
             \/ PipelineStep(r)
      PROVE  NoAssertionFailure'
  <2>1. CASE HandlerFail(r) \/ RequestComplete(r)
    BY <2>1, RequestAsserts DEF IInv, NoAssertionFailure
  <2> QED
    BY <1>2, <2>1
    DEF HandlerWrite, HandlerEnd, PipelineStep, Transform, Flush, Pipe,
        NoAssertionFailure
<1>3. CASE Close
  <2>1. TerminateAsserts(fs_conns)
    BY TerminateAssertsHold DEF IInv
  <2> QED
    BY <1>3, <2>1 DEF Close, NoAssertionFailure
<1>4. CASE RunImmediate \/ \E callback \in Callbacks : OnConnsDestroyed(callback)
    BY <1>4 DEF RunImmediate, OnConnsDestroyed, NoAssertionFailure
<1> QED
    BY <1>1, <1>2, <1>3, <1>4 DEF Next

LEMMA ServerSteps ==
    ASSUME IInv, Next
    PROVE  Kept'
<1>1. CASE Crashes
    BY <1>1, StaysUp, CrashKeeps
<1>2. ASSUME ~Crashes, Close \/ RunImmediate
                     \/ \E callback \in Callbacks : OnConnsDestroyed(callback)
      PROVE  Kept'
    BY <1>2, ApiKeeps
<1>3. ASSUME ~Crashes, NEW c \in Conns,
             \/ ConnCreate(c) \/ OnConnectionEnd(c) \/ OnConnectionError(c)
             \/ SocketClosed(c) \/ OnMessage(c)
             \/ SocketWrite(c) \/ ClientSends(c)
      PROVE  Kept'
    BY <1>3, ConnectionsKeep, MessagesKeep, SocketsKeep
<1>4. ASSUME ~Crashes, NEW r \in Reqs,
             \/ HandlerWrite(r) \/ HandlerEnd(r) \/ HandlerFail(r)
             \/ PipelineStep(r)
      PROVE  Kept'
    BY <1>4, RequestsKeep, PipelineKeeps DEF PipelineStep
<1> QED
    BY <1>1, <1>2, <1>3, <1>4 DEF Next, InputFails, Crashes

\* connDrain() destroys sockets, and those it is told to in any case.
LEMMA DrainSockets ==
    ASSUME SocketsOK, NEW S, NEW pending, NEW D, ConnDrain(S, pending, D),
           D \subseteq accepted, fc_server_error' = fc_server_error \cup D,
           UNCHANGED <<fc_socket_error, fc_piped, accepted>>
    PROVE  SocketsOK'
<1>1. sock_open' \subseteq sock_open \ D
    BY DEF ConnDrain
<1> QED
    BY <1>1 DEF SocketsOK

LEMMA TerminateSockets ==
    ASSUME SocketsOK, KnownOK, NEW C \in SUBSET fs_conns, ConnTerminate(C),
           accepted' = accepted
    PROVE  SocketsOK'
<1> DEFINE fresh == C \ (fc_server_error \cup fc_socket_error)
<1>1. /\ fc_server_error' = fc_server_error \cup fresh
      /\ ConnDrain(fresh, fc_pending, fresh)
      /\ UNCHANGED <<fc_socket_error, fc_piped>>
    BY DEF ConnTerminate, AbandonConns
<1>2. fresh \subseteq accepted
    BY DEF KnownOK
<1> HIDE DEF fresh
<1> QED
    BY <1>1, <1>2, DrainSockets

LEMMA EventSockets ==
    ASSUME IInv, NEW c \in Conns, ~Crashes,
           \/ ConnCreate(c) \/ OnConnectionEnd(c) \/ OnConnectionError(c)
           \/ SocketClosed(c)
    PROVE  SocketsOK'
<1>1. SocketsOK /\ KnownOK
    BY DEF IInv, Accounts
<1>2. CASE ConnCreate(c)
  <2>1. /\ c \notin accepted /\ accepted' = accepted \cup {c}
        /\ fc_piped' = fc_piped \cup {c} /\ sock_open' = sock_open \cup {c}
        /\ UNCHANGED <<fc_socket_error, fc_server_error>>
    BY <1>2 DEF ConnCreate, Crashes
  <2> QED
    BY <1>1, <2>1 DEF SocketsOK
<1>3. CASE OnConnectionEnd(c)
  <2>1. /\ sock_open' \subseteq sock_open
        /\ UNCHANGED <<fc_socket_error, fc_server_error, fc_piped, accepted>>
    BY <1>3 DEF OnConnectionEnd, Crashes, ConnDrain, drainVars, inVars
  <2> QED
    BY <1>1, <2>1 DEF SocketsOK
<1>4. CASE OnConnectionError(c)
  <2>1. /\ c \in fs_conns /\ accepted' = accepted
        /\ fc_socket_error' = fc_socket_error \cup {c}
        /\ fc_piped' = fc_piped \ {c} /\ fc_server_error' = fc_server_error
        /\ sock_open' \subseteq sock_open \ ({c} \ fc_server_error)
    BY <1>4 DEF OnConnectionError, Crashes, AbandonConns, ConnDrain, inVars
  <2> QED
    BY <1>1, <2>1 DEF SocketsOK, KnownOK
<1>5. CASE SocketClosed(c)
  <2>1. /\ c \notin sock_open /\ fc_piped' = fc_piped \ {c}
        /\ UNCHANGED <<sock_open, fc_socket_error, fc_server_error, accepted>>
    BY <1>5 DEF SocketClosed, drainVars, inVars
  <2> QED
    BY <1>1, <2>1 DEF SocketsOK
<1> QED
    BY <1>2, <1>3, <1>4, <1>5

LEMMA StepSockets ==
    ASSUME IInv, [Next]_vars
    PROVE  SocketsOK'
<1>1. SocketsOK /\ KnownOK
    BY DEF IInv, Accounts
<1>2. CASE UNCHANGED <<connVars, sock_open, accepted>>
    BY <1>1, <1>2 DEF SocketsOK, connVars
<1>3. CASE Crashes \/ UNCHANGED vars
    BY <1>2, <1>3 DEF Crashes, Crash, vars, drainVars, inVars
<1>4. CASE Close /\ ~Crashes
  <2>1. ConnTerminate(fs_conns) /\ accepted' = accepted
    BY <1>4 DEF Close, Crashes, inVars
  <2> QED
    BY <1>1, <2>1, TerminateSockets
<1>5. CASE RunImmediate \/ \E callback \in Callbacks : OnConnsDestroyed(callback)
    BY <1>2, <1>5 DEF RunImmediate, OnConnsDestroyed, inVars
<1>6. ASSUME NEW c \in Conns, OnMessage(c)
      PROVE  SocketsOK'
  <2>1. accepted' = accepted
    BY <1>6 DEF OnMessage, DropMessage, RejectMessage, RejectCall, StartCall,
                TakesMessage
  <2>2. CASE c \in fs_conns /\ ConnTerminate({c})
    BY <1>1, <2>1, <2>2, TerminateSockets
  <2>3. CASE ConnDrain({c} \cap fc_draining, fc_pending, {}) /\ UNCHANGED connVars
    BY <1>1, <2>1, <2>3, DrainSockets DEF connVars
  <2> QED
    BY <1>2, <1>6, <2>1, <2>2, <2>3
    DEF OnMessage, DropMessage, RejectMessage, RejectCall, StartCall, Operational,
        drainVars
<1>7. ASSUME NEW r \in Reqs, HandlerFail(r) \/ RequestComplete(r), ~Crashes
      PROVE  SocketsOK'
  <2>1. /\ UNCHANGED <<connVars, accepted>>
        /\ ConnDrain(Draining(r), Without(r), {})
    BY <1>7 DEF HandlerFail, RequestComplete, RequestCleanup, Crashes, inVars
  <2> QED
    BY <1>1, <2>1, DrainSockets DEF connVars
<1>8. ASSUME NEW r \in Reqs,
             \/ HandlerWrite(r) \/ HandlerEnd(r)
             \/ Transform(r) \/ Flush(r) \/ Pipe(r)
      PROVE  SocketsOK'
    BY <1>2, <1>8
    DEF HandlerWrite, HandlerEnd, Transform, Flush, Pipe, drainVars, inVars
<1>9. ASSUME NEW c \in Conns, SocketWrite(c) \/ ClientSends(c)
      PROVE  SocketsOK'
    BY <1>2, <1>9 DEF SocketWrite, ClientSends, drainVars, inVars
<1> QED
    BY <1>3, <1>4, <1>5, <1>6, <1>7, <1>8, <1>9, EventSockets
    DEF Next, PipelineStep, InputFails, Crashes

LEMMA StepKeeps ==
    ASSUME IInv, [Next]_vars
    PROVE  IInv'
<1>1. CASE Next
    BY <1>1, ServerSteps, StepSockets, StaysUp DEF IInv, Kept
<1>2. CASE UNCHANGED vars
  <2>1. TypeOK'
    BY <1>2 DEF vars, IInv, TypeOK, ConnTypeOK, TableTypeOK, PipeTypeOK, OutTypeOK,
                InputTypeOK, ApiTypeOK, connVars, drainVars, tableVars,
                pipeVars, outVars, handlerVars, inVars, apiVars
  <2>2. UNCHANGED accountVars /\ UNCHANGED callbackVars
        /\ UNCHANGED <<inbound, nmsgs, fs_nrequests_started, crashed>>
    BY <1>2 DEF vars, accountVars, callbackVars, connVars, drainVars, tableVars,
                pipeVars, handlerVars, inVars, apiVars
  <2> QED
    BY <1>2, <2>1, <2>2, AccountsSame, CallbacksSame, NumberedSame, StepSockets
    DEF IInv, NoAssertionFailure
<1> QED
    BY <1>1, <1>2
-----------------------------------------------------------------------------
\* The inductive invariant, of every behaviour of the server.
THEOREM Invariance == Spec => []IInv
<1>1. Init => IInv
    BY InitHolds
<1>2. IInv /\ [Next]_vars => IInv'
    BY StepKeeps
<1> QED
    BY <1>1, <1>2, PTL DEF Spec

\* Every variable keeps its type; in particular requests are numbered within the
\* messages that clients sent, each message becoming one request at most.
THEOREM TypeCorrect == Spec => []TypeOK
<1>1. IInv => TypeOK
    BY DEF IInv
<1> QED
    BY <1>1, Invariance, PTL

\* fc_nstarted, fc_ncompleted and fc_pending agree, only connections with
\* requests drain, and a connection is removed when nothing is pending on it
\* and its socket is destroyed: onMessage(), requestCleanup() and connDrain().
THEOREM ConnectionsAccounted == Spec => []ConnsAccounted
<1>1. IInv => ConnsAccounted
    BY DEF IInv, Accounts
<1> QED
    BY <1>1, Invariance, PTL

\* connDrain() and onConnsDestroyed() neither lose nor reorder a callback, and
\* none waits for connections that are gone.
THEOREM CallbacksOrdered == Spec => []CallbacksInOrder
<1>1. IInv => CallbacksInOrder
    BY DEF IInv
<1> QED
    BY <1>1, Invariance, PTL

\* Whatever clients, sockets, handlers and close() do, and however often: no step
\* trips an assertion of connDrain(), connTerminate(), connDisconnectRequests(),
\* requestCleanup(), requestComplete() or a listener, and the process ends of
\* nothing but the surprises there are.  Without them it never does.
THEOREM NoAssertionFails == Spec => []NoAssertionFailure
<1>1. IInv => NoAssertionFailure
    BY DEF IInv
<1> QED
    BY <1>1, Invariance, PTL

\* Callbacks are released by connDrain() of the last connection or by
\* onConnsDestroyed() when there is none.
LEMMA ReleaseSteps ==
    ASSUME IInv, Next, Len(immediates') > Len(immediates)
    PROVE  fs_conns' = {}
<1>1. immediates' # immediates
    OBVIOUS
<1>2. ASSUME NEW C, NEW pending, NEW D, ConnDrain(C, pending, D)
      PROVE  fs_conns' = {}
    BY <1>1, <1>2 DEF ConnDrain
<1>3. CASE Crashes
    BY <1>1, <1>3 DEF Crashes, Crash, drainVars
<1>4. CASE RunImmediate
  <2>1. immediates \in Seq(Callbacks) /\ immediates # <<>>
    BY <1>4 DEF RunImmediate, IInv, TypeOK, ApiTypeOK
  <2>2. Len(Tail(immediates)) = Len(immediates) - 1 /\ Len(immediates) \in Nat
    BY <2>1
  <2> QED
    BY <1>4, <2>2 DEF RunImmediate
<1>5. CASE \E callback \in Callbacks : OnConnsDestroyed(callback)
    BY <1>1, <1>5 DEF OnConnsDestroyed
<1>6. ASSUME ~Crashes, Close \/ \E c \in Conns :
            \/ ConnCreate(c) \/ OnConnectionEnd(c) \/ OnConnectionError(c)
            \/ SocketClosed(c) \/ OnMessage(c)
            \/ SocketWrite(c) \/ ClientSends(c)
      PROVE  fs_conns' = {}
  <2>1. CASE Close
    BY <1>2, <1>6, <2>1 DEF Close, Crashes, ConnTerminate, AbandonConns
  <2>2. ASSUME NEW c \in Conns, ConnCreate(c) \/ OnConnectionEnd(c) \/ OnConnectionError(c)
        PROVE  fs_conns' = {}
    BY <1>1, <1>2, <1>6, <2>2 DEF ConnCreate, OnConnectionEnd, OnConnectionError,
                Crashes, AbandonConns, drainVars
  <2>3. ASSUME NEW c \in Conns, OnMessage(c)
        PROVE  fs_conns' = {}
    BY <1>1, <1>2, <2>3 DEF OnMessage, DropMessage, RejectMessage, RejectCall,
                StartCall, ConnTerminate, AbandonConns, drainVars
  <2>4. ASSUME NEW c \in Conns, SocketWrite(c) \/ ClientSends(c) \/ SocketClosed(c)
        PROVE  fs_conns' = {}
    BY <1>1, <1>6, <2>4 DEF SocketWrite, ClientSends, SocketClosed, drainVars
  <2> QED
    BY <1>6, <2>1, <2>2, <2>3, <2>4
<1>7. ASSUME ~Crashes, NEW r \in Reqs,
             \/ HandlerWrite(r) \/ HandlerEnd(r) \/ HandlerFail(r)
             \/ PipelineStep(r)
      PROVE  fs_conns' = {}
    BY <1>1, <1>2, <1>7 DEF HandlerWrite, HandlerEnd, HandlerFail, PipelineStep,
                Transform, Flush, Pipe, RequestComplete, RequestCleanup, Crashes,
                drainVars
<1> QED
    BY <1>3, <1>4, <1>5, <1>6, <1>7 DEF Next, InputFails, Crashes

NoConns == fs_conns = {}
Idle    == sock_open = {} /\ \A r \in Reqs : fsr_state[r] # "RUNNING"

\* Once the server knows no connection, no socket is open and nothing runs.
LEMMA NothingLeft == IInv /\ NoConns => Idle
<1> SUFFICES ASSUME IInv, NoConns
             PROVE  Idle
    OBVIOUS
<1>1. \A c \in Conns : c \notin sock_open /\ PendingOf(fc_pending, c) = {}
    BY DEF IInv, Accounts, ConnsAccounted, NoConns
<1>2. sock_open = {}
    BY <1>1 DEF IInv, TypeOK, ConnTypeOK
<1>3. ASSUME NEW r \in Reqs, fsr_state[r] = "RUNNING"
      PROVE  FALSE
  <2>1. fsr_conn[r] \in Conns
    BY <1>3 DEF IInv, Accounts, RequestsOK, Agree
  <2>2. r \in PendingOf(fc_pending, fsr_conn[r])
    BY <1>3, <2>1, NowPending DEF IInv, Accounts
  <2> QED
    BY <1>1, <2>1, <2>2
<1> QED
    BY <1>2, <1>3 DEF Idle

\* A callback given to onConnsDestroyed() is released only when every socket is
\* destroyed and every request complete.
THEOREM CallbacksWaitForTeardown == Spec => CallbacksAfterTeardown
<1> DEFINE A == Len(immediates') > Len(immediates) =>
                    /\ fs_conns' = {} /\ sock_open' = {}
                    /\ \A r \in Reqs : fsr_state'[r] # "RUNNING"
<1>1. IInv' /\ NoConns' => Idle'
    BY NothingLeft, PTL
<1>2. IInv /\ IInv' /\ [Next]_vars => [A]_vars
    BY <1>1, ReleaseSteps DEF NoConns, Idle
<1> QED
    BY <1>2, Invariance, PTL DEF Spec, CallbacksAfterTeardown
-----------------------------------------------------------------------------
(* What is left when the server is at rest.  Leaving says how far a connection *)
(* that has begun to go has come.                                             *)

\* Connections whose socket has failed or that were terminated, and those that
\* are to go because of that or because their client has ended its side.
Broken == fc_socket_error \cup fc_server_error
Going  == fc_ended \cup fc_socket_error \cup fc_server_error

\* A connection has its socket destroyed, before it is removed, just when it is
\* broken; one that is to go is removed or drains; after close() all are broken.
LeavingConns ==
    /\ Going \subseteq accepted
    /\ Broken \cap sock_open = {} /\ fs_conns \ sock_open \subseteq Broken
    /\ Going \cap fs_conns \subseteq fc_draining
    /\ fs_closed => fs_conns \subseteq Broken

\* Requests are cut off when their connection breaks, all of them if its socket
\* fails; and a request runs until its handler has failed or its end is known.
LeavingRequests ==
    /\ \A r \in fsr_blackhole : fsr_conn[r] \in Broken
    /\ \A r \in Reqs :
          fsr_state[r] = "RUNNING" =>
            /\ handler[r] \in {"running", "ended"}
            /\ fsr_conn[r] \in fc_socket_error \ fc_server_error => r \in fsr_blackhole

\* Nothing was read from connections that were not accepted.
ReadOK == \A c \in Conns : inbound[c] # <<>> => c \in accepted

Leaving == LeavingConns /\ LeavingRequests /\ ReadOK

\* Connections drain, those of D because they break.
LEMMA DrainLeaves ==
    ASSUME LeavingConns, NEW S, NEW pending, NEW D, ConnDrain(S, pending, D),
           accepted' = accepted, Going' \subseteq accepted,
           Broken' = Broken \cup D,
           Going' \cap fs_conns \subseteq fc_draining \cup S,
           fs_closed' => fs_closed \/ fs_conns \subseteq Broken'
    PROVE  LeavingConns'
<1>1. PICK drained \in SUBSET S :
            /\ fs_conns' = fs_conns \ drained
            /\ fc_draining' = fc_draining \cup (S \ drained)
            /\ sock_open' = sock_open \ (drained \cup D)
    BY DEF ConnDrain
<1> QED
    BY <1>1 DEF LeavingConns

\* A request that completes lets a connection go that drained.
LEMMA CleanupLeaves ==
    ASSUME LeavingConns, NEW S, NEW pending, ConnDrain(S, pending, {}),
           UNCHANGED <<connVars, accepted, fs_closed>>
    PROVE  LeavingConns'
<1>1. Going' = Going /\ Broken' = Broken \cup {}
    BY DEF Going, Broken, connVars
<1> QED
    BY <1>1, DrainLeaves DEF LeavingConns

LEMMA TerminateLeaves ==
    ASSUME LeavingConns, KnownOK, NEW S \in SUBSET fs_conns, ConnTerminate(S),
           accepted' = accepted, fs_closed' => fs_closed \/ fs_conns = S
    PROVE  LeavingConns'
<1> DEFINE fresh == S \ (fc_server_error \cup fc_socket_error)
<1>1. /\ fc_server_error' = fc_server_error \cup fresh
      /\ ConnDrain(fresh, fc_pending, fresh)
      /\ UNCHANGED <<fc_ended, fc_socket_error>>
    BY DEF ConnTerminate, AbandonConns
<1>2. /\ Broken' = Broken \cup fresh /\ S \subseteq Broken'
      /\ Going' = Going \cup fresh
    BY <1>1 DEF Broken, Going
<1>3. fresh \subseteq accepted /\ fresh \subseteq fs_conns
    BY DEF KnownOK
<1> HIDE DEF fresh
<1> QED
    BY <1>1, <1>2, <1>3, DrainLeaves DEF LeavingConns

\* A connection event that is no crash.
LEMMA ConnectionLeaves ==
    ASSUME TypeOK, Accounts, LeavingConns, NEW c \in Conns, ~Crashes,
           ConnCreate(c) \/ OnConnectionEnd(c) \/ OnConnectionError(c)
    PROVE  LeavingConns'
<1>1. CASE ConnCreate(c)
  <2>1. /\ c \notin accepted /\ ~fs_closed /\ fs_closed' = fs_closed
        /\ fs_conns' = fs_conns \cup {c} /\ accepted' = accepted \cup {c}
        /\ sock_open' = sock_open \cup {c} /\ fc_draining' = fc_draining
        /\ Going' = Going /\ Broken' = Broken
      BY <1>1 DEF ConnCreate, Crashes, apiVars, Going, Broken
  <2>2. c \notin Going /\ c \notin Broken
      BY <2>1 DEF LeavingConns, Going, Broken
  <2> QED
      BY <2>1, <2>2 DEF LeavingConns
<1>2. CASE OnConnectionEnd(c)
  <2>1. /\ c \in fs_conns /\ c \in accepted
        /\ UNCHANGED <<fc_socket_error, fc_server_error, accepted, fs_closed>>
      BY <1>2 DEF OnConnectionEnd, Crashes, Accounts, KnownOK, inVars, apiVars
  <2>2. CASE UNCHANGED <<fc_ended, drainVars>>
      BY <2>1, <2>2 DEF LeavingConns, Going, Broken, drainVars
  <2>3. CASE fc_ended' = fc_ended \cup {c} /\ ConnDrain({c}, fc_pending, {})
    <3>1. Going' = Going \cup {c} /\ Broken' = Broken \cup {}
        BY <2>1, <2>3 DEF Going, Broken
    <3> QED
        BY <2>1, <2>3, <3>1, DrainLeaves DEF LeavingConns
  <2> QED
      BY <1>2, <2>2, <2>3 DEF OnConnectionEnd, Crashes
<1>3. CASE OnConnectionError(c)
  <2> DEFINE S == {c} \ fc_server_error
  <2>1. /\ c \in fs_conns /\ c \in accepted
        /\ fc_socket_error' = fc_socket_error \cup {c}
        /\ ConnDrain(S, fc_pending, S)
        /\ UNCHANGED <<fc_ended, fc_server_error, accepted, fs_closed>>
      BY <1>3
         DEF OnConnectionError, Crashes, AbandonConns, Accounts, KnownOK, inVars,
             apiVars
  <2>2. Going' = Going \cup S /\ Broken' = Broken \cup S /\ S \subseteq accepted
      BY <2>1 DEF Going, Broken
  <2> HIDE DEF S
  <2> QED
      BY <2>1, <2>2, DrainLeaves DEF LeavingConns
<1> QED
    BY <1>1, <1>2, <1>3

LEMMA MessageLeaves ==
    ASSUME Accounts, LeavingConns, NEW c \in Conns, OnMessage(c)
    PROVE  LeavingConns'
<1>1. accepted' = accepted /\ fs_closed' = fs_closed
    BY DEF OnMessage, DropMessage, RejectMessage, RejectCall, StartCall,
           TakesMessage, apiVars
<1>2. CASE UNCHANGED <<connVars, drainVars>>
    BY <1>1, <1>2 DEF LeavingConns, Going, Broken, connVars, drainVars
<1>3. CASE RejectMessage(c)
  <2>1. {c} \in SUBSET fs_conns
      BY <1>3 DEF RejectMessage, Operational
  <2>2. CASE ConnTerminate({c})
      BY <1>1, <2>1, <2>2, TerminateLeaves DEF Accounts
  <2> QED
      BY <1>2, <1>3, <2>2 DEF RejectMessage
<1>4. CASE RejectCall(c)
  <2>1. CASE ConnDrain({c} \cap fc_draining, fc_pending, {}) /\ UNCHANGED connVars
      BY <1>1, <2>1, CleanupLeaves
  <2> QED
      BY <1>2, <1>4, <2>1 DEF RejectCall
<1> QED
    BY <1>2, <1>3, <1>4 DEF OnMessage, DropMessage, StartCall

LEMMA StepLeaves ==
    ASSUME IInv, LeavingConns, [Next]_vars
    PROVE  LeavingConns'
<1>1. CASE UNCHANGED <<connVars, drainVars, accepted, fs_closed>>
    BY <1>1 DEF LeavingConns, Going, Broken, connVars, drainVars
<1>2. CASE Crashes \/ UNCHANGED vars
    BY <1>1, <1>2 DEF Crashes, Crash, vars, inVars, apiVars
<1>3. CASE Close /\ ~Crashes
  <2>1. ConnTerminate(fs_conns) /\ accepted' = accepted
      BY <1>3 DEF Close, Crashes, inVars
  <2> QED
      BY <2>1, TerminateLeaves DEF IInv, Accounts
<1>4. CASE RunImmediate \/ \E k \in Callbacks : OnConnsDestroyed(k)
    BY <1>4
       DEF RunImmediate, OnConnsDestroyed, connVars, inVars, LeavingConns, Going,
           Broken
<1>5. ASSUME NEW c \in Conns, SocketWrite(c) \/ ClientSends(c) \/ SocketClosed(c)
      PROVE  LeavingConns'
  <2>1. /\ UNCHANGED <<fc_ended, fc_socket_error, fc_server_error>>
        /\ UNCHANGED <<drainVars, accepted, fs_closed>>
      BY <1>5 DEF SocketWrite, ClientSends, SocketClosed, connVars, inVars, apiVars
  <2> QED
      BY <2>1 DEF LeavingConns, Going, Broken, drainVars
<1>6. ASSUME NEW r \in Reqs, HandlerFail(r) \/ RequestComplete(r), ~Crashes
      PROVE  LeavingConns'
  <2>1. /\ UNCHANGED <<connVars, accepted, fs_closed>>
        /\ ConnDrain(Draining(r), Without(r), {})
      BY <1>6
         DEF HandlerFail, RequestComplete, RequestCleanup, Crashes, inVars, apiVars
  <2> QED
      BY <2>1, CleanupLeaves
<1>7. ASSUME NEW r \in Reqs,
             \/ HandlerWrite(r) \/ HandlerEnd(r)
             \/ Transform(r) \/ Flush(r) \/ Pipe(r)
      PROVE  LeavingConns'
    BY <1>1, <1>7
       DEF HandlerWrite, HandlerEnd, Transform, Flush, Pipe, inVars, apiVars
<1> QED
    BY <1>2, <1>3, <1>4, <1>5, <1>6, <1>7, ConnectionLeaves, MessageLeaves
       DEF IInv, Next, PipelineStep, InputFails, Crashes

\* The requests of connections that break are cut off, and of a socket that
\* fails all of them.
LEMMA BreakingCuts ==
    ASSUME TypeOK, Accounts, LeavingRequests, NEW S \in SUBSET Conns,
           RequestDisconnect(RequestsOf(S)), Broken' = Broken \cup S,
           fc_socket_error' \ fc_server_error'
                \subseteq (fc_socket_error \ fc_server_error) \cup S,
           UNCHANGED <<fsr_state, fsr_conn, handler>>
    PROVE  LeavingRequests'
<1>1. \A r \in RequestsOf(S) : r \in Reqs /\ fsr_conn[r] \in S
    BY NowPending DEF Accounts, RequestsOf
<1>2. \A r \in Reqs : fsr_state[r] = "RUNNING" /\ fsr_conn[r] \in S =>
            r \in RequestsOf(S)
    BY NowPending DEF Accounts, RequestsOf
<1>3. fsr_blackhole' = fsr_blackhole \cup RequestsOf(S)
    BY DEF RequestDisconnect
<1> QED
    BY <1>1, <1>2, <1>3 DEF LeavingRequests

LEMMA TerminateCuts ==
    ASSUME TypeOK, Accounts, LeavingRequests, NEW S \in SUBSET Conns,
           ConnTerminate(S), UNCHANGED <<fsr_state, fsr_conn, handler>>
    PROVE  LeavingRequests'
<1> DEFINE fresh == S \ (fc_server_error \cup fc_socket_error)
<1>1. /\ fc_server_error' = fc_server_error \cup fresh
      /\ fc_socket_error' = fc_socket_error
      /\ RequestDisconnect(RequestsOf(fresh))
    BY DEF ConnTerminate, AbandonConns
<1>2. /\ Broken' = Broken \cup fresh
      /\ fc_socket_error' \ fc_server_error'
            \subseteq (fc_socket_error \ fc_server_error) \cup fresh
    BY <1>1 DEF Broken
<1> HIDE DEF fresh
<1>3. fresh \in SUBSET Conns
    BY DEF fresh
<1> QED
    BY <1>1, <1>2, <1>3, BreakingCuts

\* A request that starts does so on a connection whose socket has not failed.
LEMMA MessageCuts ==
    ASSUME TypeOK, Numbered, Accounts, LeavingRequests, NEW c \in Conns, OnMessage(c)
    PROVE  LeavingRequests'
<1> DEFINE n == fs_nrequests_started + 1
<1>1. CASE UNCHANGED <<connVars, pipeVars, tableVars, handler>>
    BY <1>1 DEF LeavingRequests, Broken, connVars, pipeVars, tableVars
<1>2. CASE RejectMessage(c)
  <2>1. handler' = handler /\ UNCHANGED tableVars
      BY <1>2 DEF RejectMessage, TakesMessage, handlerVars
  <2>2. CASE ConnTerminate({c})
      BY <2>1, <2>2, TerminateCuts DEF tableVars
  <2> QED
      BY <1>1, <1>2, <2>1, <2>2 DEF RejectMessage
<1>3. ASSUME NEW state \in {"RUNNING", "COMPLETE"}, NewRequest(c, state),
             UNCHANGED <<connVars, fsr_blackhole>>, c \notin fc_socket_error,
             \A r \in Reqs : r # n => handler'[r] = handler[r],
             state = "RUNNING" => handler'[n] = "running"
      PROVE  LeavingRequests'
  <2>1. n \notin fsr_blackhole
      BY DEF Accounts, RequestsOK, TypeOK, PipeTypeOK, TableTypeOK
  <2>2. \A r \in Reqs \ {n} : /\ fsr_state'[r] = fsr_state[r]
                              /\ fsr_conn'[r] = fsr_conn[r]
      BY <1>3 DEF NewRequest, TypeOK, TableTypeOK
  <2>3. n \in Reqs => fsr_state'[n] = state /\ fsr_conn'[n] = c
      BY <1>3 DEF NewRequest, TypeOK, TableTypeOK
  <2>4. Broken' = Broken /\ UNCHANGED <<fc_socket_error, fc_server_error>>
      BY <1>3 DEF Broken, connVars
  <2>5. \A r \in fsr_blackhole' : fsr_conn'[r] \in Broken'
      BY <1>3, <2>1, <2>2, <2>4 DEF LeavingRequests, TypeOK, PipeTypeOK
  <2>6. ASSUME NEW r \in Reqs, fsr_state'[r] = "RUNNING"
        PROVE  /\ handler'[r] \in {"running", "ended"}
               /\ fsr_conn'[r] \in fc_socket_error' \ fc_server_error' =>
                    r \in fsr_blackhole'
    <3>1. CASE r = n
        BY <1>3, <2>3, <2>4, <2>6, <3>1
    <3>2. CASE r # n
        BY <1>3, <2>2, <2>4, <2>6, <3>2 DEF LeavingRequests
    <3> QED
        BY <3>1, <3>2
  <2> QED
      BY <2>5, <2>6 DEF LeavingRequests
<1>4. CASE RejectCall(c) /\ ~UNCHANGED <<connVars, pipeVars, tableVars, handler>>
  <2>1. /\ NewRequest(c, "COMPLETE") /\ handler' = handler
        /\ UNCHANGED <<connVars, pipeVars>> /\ c \notin fc_socket_error
      BY <1>4 DEF RejectCall, TakesMessage, handlerVars, Operational
  <2> QED
      BY <1>3, <2>1 DEF pipeVars
<1>5. CASE StartCall(c)
  <2>1. /\ NewRequest(c, "RUNNING") /\ handler' = [handler EXCEPT ![n] = "running"]
        /\ UNCHANGED <<connVars, pipeVars>> /\ c \notin fc_socket_error
      BY <1>5 DEF StartCall, Operational
  <2>2. n \in Reqs
      BY <1>5, NextCall DEF StartCall
  <2>3. /\ handler'[n] = "running"
        /\ \A r \in Reqs : r # n => handler'[r] = handler[r]
      BY <2>1, <2>2 DEF TypeOK, PipeTypeOK
  <2> QED
      BY <1>3, <2>1, <2>3 DEF pipeVars
<1> QED
    BY <1>1, <1>2, <1>4, <1>5 DEF OnMessage, DropMessage, TakesMessage, handlerVars

LEMMA StepCuts ==
    ASSUME IInv, LeavingRequests, [Next]_vars
    PROVE  LeavingRequests'
<1> USE DEF IInv
<1>1. CASE UNCHANGED <<connVars, fsr_blackhole, fsr_state, fsr_conn, handler>>
    BY <1>1 DEF LeavingRequests, Broken, connVars
<1>2. CASE Crashes \/ UNCHANGED vars
    BY <1>1, <1>2 DEF Crashes, Crash, vars, tableVars, pipeVars, handlerVars
<1>3. CASE Close /\ ~Crashes
  <2>1. /\ ConnTerminate(fs_conns) /\ fs_conns \in SUBSET Conns
        /\ UNCHANGED <<fsr_state, fsr_conn, handler>>
      BY <1>3 DEF Close, Crashes, tableVars, handlerVars, TypeOK, ConnTypeOK
  <2> QED
      BY <2>1, TerminateCuts
<1>4. CASE RunImmediate \/ \E k \in Callbacks : OnConnsDestroyed(k)
    BY <1>1, <1>4
       DEF RunImmediate, OnConnsDestroyed, tableVars, pipeVars, handlerVars
<1>5. ASSUME NEW c \in Conns, ~Crashes,
             \/ ConnCreate(c) \/ OnConnectionEnd(c) \/ SocketClosed(c)
             \/ SocketWrite(c) \/ ClientSends(c)
      PROVE  LeavingRequests'
  <2>1. /\ UNCHANGED <<fsr_blackhole, fsr_state, fsr_conn, handler>>
        /\ UNCHANGED <<fc_socket_error, fc_server_error>>
      BY <1>5
         DEF ConnCreate, OnConnectionEnd, SocketClosed, SocketWrite, ClientSends,
             Crashes, connVars, tableVars, pipeVars, handlerVars
  <2> QED
      BY <2>1 DEF LeavingRequests, Broken
<1>6. ASSUME NEW c \in Conns, OnConnectionError(c), ~Crashes
      PROVE  LeavingRequests'
  <2> DEFINE S == {c} \ fc_server_error
  <2>1. /\ fc_socket_error' = fc_socket_error \cup {c}
        /\ RequestDisconnect(RequestsOf(S))
        /\ UNCHANGED <<fc_server_error, fsr_state, fsr_conn, handler>>
      BY <1>6 DEF OnConnectionError, Crashes, AbandonConns, tableVars, handlerVars
  <2>2. /\ Broken' = Broken \cup S
        /\ fc_socket_error' \ fc_server_error'
                \subseteq (fc_socket_error \ fc_server_error) \cup S
      BY <2>1 DEF Broken
  <2> HIDE DEF S
  <2>3. S \in SUBSET Conns
      BY DEF S
  <2> QED
      BY <2>1, <2>2, <2>3, BreakingCuts
<1>7. ASSUME NEW r \in Reqs, HandlerFail(r) \/ RequestComplete(r), ~Crashes
      PROVE  LeavingRequests'
  <2>1. /\ UNCHANGED <<connVars, fsr_blackhole, fsr_conn>>
        /\ fsr_state' = [fsr_state EXCEPT ![r] = "COMPLETE"]
        /\ \E way \in {"failed", "finished"} : handler' = [handler EXCEPT ![r] = way]
      BY <1>7 DEF HandlerFail, RequestComplete, RequestCleanup, Crashes, pipeVars
  <2>2. \A q \in Reqs : fsr_state'[q] = "RUNNING" =>
            fsr_state[q] = "RUNNING" /\ handler'[q] = handler[q]
      BY <2>1 DEF TypeOK, TableTypeOK, PipeTypeOK
  <2> QED
      BY <2>1, <2>2 DEF LeavingRequests, Broken, connVars
<1>8. ASSUME NEW r \in Reqs, HandlerEnd(r)
      PROVE  LeavingRequests'
  <2>1. /\ UNCHANGED <<connVars, fsr_blackhole, fsr_state, fsr_conn>>
        /\ handler' = [handler EXCEPT ![r] = "ended"]
      BY <1>8 DEF HandlerEnd, pipeVars, tableVars
  <2>2. \A q \in Reqs : handler'[q] \in {handler[q], "ended"}
      BY <2>1 DEF TypeOK, PipeTypeOK
  <2> QED
      BY <2>1, <2>2 DEF LeavingRequests, Broken, connVars
<1>9. ASSUME NEW r \in Reqs, HandlerWrite(r) \/ Transform(r) \/ Flush(r) \/ Pipe(r)
      PROVE  LeavingRequests'
    BY <1>1, <1>9
       DEF HandlerWrite, Transform, Flush, Pipe, tableVars, handlerVars
<1> QED
    BY <1>2, <1>3, <1>4, <1>5, <1>6, <1>7, <1>8, <1>9, MessageCuts
       DEF Next, PipelineStep, InputFails, Crashes

LEMMA StepReads ==
    ASSUME IInv, ReadOK, [Next]_vars
    PROVE  ReadOK'
<1> SUFFICES ASSUME NEW d \in Conns, inbound'[d] # <<>> PROVE d \in accepted'
    BY DEF ReadOK
<1>1. CASE inbound'[d] = inbound[d] /\ accepted \subseteq accepted'
    BY <1>1 DEF ReadOK
<1>2. CASE UNCHANGED <<accepted, inbound>> \/ UNCHANGED vars
    BY <1>1, <1>2 DEF vars, inVars
<1>3. CASE Crashes \/ Close \/ RunImmediate \/ \E k \in Callbacks : OnConnsDestroyed(k)
    BY <1>2, <1>3 DEF Crashes, Crash, Close, RunImmediate, OnConnsDestroyed, inVars
<1>4. ASSUME NEW c \in Conns, ~Crashes,
             \/ ConnCreate(c) \/ OnConnectionEnd(c) \/ OnConnectionError(c)
             \/ SocketClosed(c) \/ SocketWrite(c)
      PROVE  d \in accepted'
    BY <1>1, <1>4
       DEF ConnCreate, OnConnectionEnd, OnConnectionError, SocketClosed, SocketWrite,
           Crashes, inVars
<1>5. ASSUME NEW c \in Conns, ClientSends(c)
      PROVE  d \in accepted'
  <2>1. /\ c \in accepted /\ accepted' = accepted
        /\ \E m : inbound' = [inbound EXCEPT ![c] = Append(@, m)]
      BY <1>5 DEF ClientSends, IInv, Accounts, ConnsAccounted, KnownOK
  <2>2. d # c => inbound'[d] = inbound[d]
      BY <2>1 DEF IInv, TypeOK, InputTypeOK
  <2> QED
      BY <1>1, <2>1, <2>2
<1>6. ASSUME NEW c \in Conns, OnMessage(c)
      PROVE  d \in accepted'
  <2>1. /\ inbound[c] # <<>> /\ accepted' = accepted
        /\ inbound' = [inbound EXCEPT ![c] = Tail(@)]
      BY <1>6
         DEF OnMessage, DropMessage, RejectMessage, RejectCall, StartCall,
             TakesMessage
  <2>2. d # c => inbound'[d] = inbound[d]
      BY <2>1 DEF IInv, TypeOK, InputTypeOK
  <2> QED
      BY <2>1, <2>2 DEF ReadOK
<1>7. ASSUME NEW r \in Reqs, ~Crashes,
             \/ HandlerWrite(r) \/ HandlerEnd(r) \/ HandlerFail(r)
             \/ PipelineStep(r)
      PROVE  d \in accepted'
    BY <1>2, <1>7
       DEF HandlerWrite, HandlerEnd, HandlerFail, PipelineStep, Transform, Flush,
           Pipe, RequestComplete, Crashes, inVars
<1> QED
    BY <1>2, <1>3, <1>4, <1>5, <1>6, <1>7 DEF Next, InputFails, Crashes

LEMMA InitLeaves == Init => Leaving
<1> SUFFICES ASSUME Init PROVE Leaving
    OBVIOUS
<1>1. LeavingConns /\ LeavingRequests
    BY DEF Init, LeavingConns, LeavingRequests, Going, Broken
<1>2. ReadOK
    BY DEF Init, ReadOK
<1> QED
    BY <1>1, <1>2 DEF Leaving

LEMMA LeavingKept == IInv /\ Leaving /\ [Next]_vars => Leaving'
BY StepLeaves, StepCuts, StepReads DEF Leaving

LEMMA LeavingInvariance == Spec => []Leaving
<1> QED
    BY InitLeaves, LeavingKept, Invariance, PTL DEF Spec

\* At rest, what still runs has ended, and there is no room for its response.
LEMMA RestMeans ==
    ASSUME IInv, Leaving, AtRest, NEW r \in Reqs, fsr_state[r] = "RUNNING"
    PROVE  StartedAfterTermination(r) /\ fsr_conn[r] \notin sock_open
<1>1. /\ fsr_conn[r] \in Conns /\ r \in PendingOf(fc_pending, fsr_conn[r])
      /\ fc_msgencoder[fsr_conn[r]] \in Seq([req : Reqs, status : Status])
  <2>1. fsr_conn[r] \in Conns
      BY DEF IInv, Accounts, RequestsOK, Agree
  <2>2. r \in PendingOf(fc_pending, fsr_conn[r])
      BY <2>1, NowPending DEF IInv, Accounts
  <2> QED
      BY <2>1, <2>2 DEF IInv, TypeOK, OutTypeOK
<1>2. fsr_conn[r] \in fs_conns
    BY <1>1 DEF IInv, Accounts, ConnsAccounted
<1>3. r \notin fsr_blackhole /\ Len(fc_msgencoder[fsr_conn[r]]) >= EncoderRoom
    BY DEF AtRest, Leaving, LeavingRequests
<1>4. fc_msgencoder[fsr_conn[r]] # <<>>
    BY <1>1, <1>3, ServerAssumption
<1>5. fsr_conn[r] \notin sock_open
    BY <1>1, <1>4 DEF AtRest
<1>6. fsr_conn[r] \in fc_server_error
    BY <1>2, <1>3, <1>5 DEF Leaving, LeavingConns, LeavingRequests, Broken
<1> QED
    BY <1>3, <1>5, <1>6 DEF StartedAfterTermination

\* A server at rest has removed every connection that was ended, failed or
\* terminated, and after close() called every callback of onConnsDestroyed(), but
\* for requests that started on a terminated connection.
NothingIsLeft ==
    AtRest =>
        /\ \A c \in Going \cap fs_conns :
              \E r \in PendingOf(fc_pending, c) : StartedAfterTermination(r)
        /\ fs_closed => called = asked \/ \E r \in Reqs : StartedAfterTermination(r)

\* Whatever the clients, sockets and handlers did: the server never waits for
\* what does not come.  With the fairness of its event loop and handlers that is
\* why ConnectionsAreRemoved and CloseReleasesCallbacks hold.
THEOREM NothingIsLeftAtRest == Spec => []NothingIsLeft
<1>1. ASSUME IInv, Leaving, AtRest,
             NEW c \in Going \cap fs_conns
      PROVE  \E r \in PendingOf(fc_pending, c) : StartedAfterTermination(r)
  <2>1. c \in Conns /\ c \in fc_draining
      BY <1>1 DEF Leaving, LeavingConns, IInv, TypeOK, ConnTypeOK
  <2>2. PICK r \in PendingOf(fc_pending, c) : r \in Reqs /\ fsr_state[r] = "RUNNING"
      BY <1>1, <2>1, NowPending DEF IInv, Accounts, ConnsAccounted
  <2> QED
      BY <1>1, <2>2, RestMeans
<1>2. ASSUME IInv, Leaving, AtRest, fs_closed,
             \A r \in Reqs : ~StartedAfterTermination(r)
      PROVE  called = asked
  <2>1. \A c \in Conns : PendingOf(fc_pending, c) \subseteq Reqs
      BY <1>2, PendingType DEF IInv, TypeOK, TableTypeOK
  <2>2. fs_conns \subseteq Going \cap Conns
      BY <1>2 DEF Leaving, LeavingConns, Broken, Going, IInv, TypeOK, ConnTypeOK
  <2>3. fs_conns = {}
      BY <1>1, <1>2, <2>1, <2>2
  <2>4. /\ asked = called \o immediates \o fs_conns_destroyed_callbacks
        /\ fs_conns_destroyed_callbacks = <<>> /\ immediates = <<>>
        /\ called \in Seq(Callbacks)
      BY <1>2, <2>3 DEF AtRest, IInv, CallbacksInOrder, TypeOK, ApiTypeOK
  <2> QED
      BY <2>4
<1>3. IInv /\ Leaving => NothingIsLeft
    BY <1>1, <1>2 DEF NothingIsLeft
<1> QED
    BY <1>3, Invariance, LeavingInvariance, PTL
=============================================================================
