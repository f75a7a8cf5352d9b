---------------------------- MODULE IdAllocator ----------------------------
(***************************************************************************)
(* The identifier allocator of lib/subr.js, shared by the client (message  *)
(* ids, with fc_pending and fc_abandoned as the ids in use) and the server *)
(* (connection ids, with fs_conns as the ids in use).                      *)
(*                                                                         *)
(* AllocLoop is the code's loop.  Alloc is the closed form the other       *)
(* modules use; IdPool checks, and IdPoolProofs proves, that the two agree *)
(* from every cursor and for every set in use.                             *)
(***************************************************************************)
EXTENDS Integers, FiniteSetsExt

CONSTANTS
    ida_min,    \* smallest identifier handed out
    ida_max,    \* largest identifier handed out
    NoId        \* outcome of alloc() that throws 'all ids allocated'

\* The constructor's checks on args.min and args.max.
ASSUME IdRange ==
    /\ ida_min \in Nat /\ ida_max \in Nat
    /\ ida_min < ida_max
    /\ NoId \notin Nat

Ids == ida_min .. ida_max

\* Faulty variants: the cursor runs past the end, or stays where it was.
SuccessorNoWrap(id) == id + 1
SuccessorStays(id)  == id

\* "next++; if (next > this.ida_max) next = this.ida_min"
Successor(id) == IF id + 1 > ida_max THEN ida_min ELSE id + 1

\* Faulty variants: the loop gives up at the end of the range, or trusts the
\* cursor without asking isAllocated().
AllocLoopNoWrap(start, taken) ==
    LET probe[next \in Ids] ==
            IF next \notin taken THEN next
            ELSE IF next = ida_max THEN NoId
            ELSE probe[Successor(next)]
    IN  probe[start]
AllocLoopUnchecked(start, taken) == start

\* alloc(): probe from the cursor, give up when the probe is back at it.
AllocLoop(start, taken) ==
    LET probe[next \in Ids] ==
            IF next \notin taken THEN next
            ELSE IF Successor(next) = start THEN NoId
            ELSE probe[Successor(next)]
    IN  probe[start]

\* What alloc() returns: the first free identifier in circular order.
Alloc(start, taken) ==
    LET free   == Ids \ taken
        onward == {id \in free : id >= start}
    IN  IF free = {} THEN NoId
        ELSE IF onward # {} THEN Min(onward) ELSE Min(free)
=============================================================================
