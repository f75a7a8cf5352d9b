------------------------------- MODULE IdPool -------------------------------
(***************************************************************************)
(* An owner of an IdAllocator: it takes identifiers with alloc() and gives *)
(* each one back when the request or connection that holds it is gone.     *)
(***************************************************************************)
EXTENDS IdAllocator

VARIABLES
    ida_nextid,     \* the allocator's cursor
    allocated,      \* identifiers the owner reports as allocated
    passed          \* history: per identifier, the identifiers the cursor has
                    \* gone over since it was last handed out
poolVars == <<ida_nextid, allocated, passed>>

PoolTypeOK ==
    /\ ida_nextid \in Ids
    /\ allocated \subseteq Ids
    /\ passed \in [Ids -> SUBSET Ids]

\* Nothing was handed out before: every identifier is free to be.
PoolInit ==
    /\ ida_nextid = ida_min
    /\ allocated = {}
    /\ passed = [id \in Ids |-> Ids]

\* The identifiers from the cursor up to id, in circular order.
Swept(id) ==
    IF id >= ida_nextid THEN ida_nextid .. id
    ELSE (ida_nextid .. ida_max) \cup (ida_min .. id)

Take ==
    LET id == AllocLoop(ida_nextid, allocated)
    IN  /\ id # NoId
        /\ ida_nextid' = Successor(id)
        /\ allocated' = allocated \cup {id}
        /\ passed' = [i \in Ids |->
                        IF i = id THEN {} ELSE passed[i] \cup Swept(id)]

Give ==
    \E id \in allocated :
        /\ allocated' = allocated \ {id}
        /\ UNCHANGED <<ida_nextid, passed>>

PoolNext == Take \/ Give

PoolSpec == PoolInit /\ [][PoolNext]_poolVars
-----------------------------------------------------------------------------
\* The probe loop, whatever the cursor and the identifiers in use, returns the
\* first free identifier at or after the cursor, wrapping once, and throws
\* exactly when none is free (lib/subr.js, IdAllocator.alloc).
LoopFindsFirstFree ==
    \A taken \in SUBSET Ids :
        AllocLoop(ida_nextid, taken) = Alloc(ida_nextid, taken)

\* alloc() never hands out an identifier its owner still holds: a step that
\* moves the cursor adds an identifier that was not in use, so two live requests
\* (or connections) never share one.
NeverHandsOutHeldId ==
    [][ ida_nextid' # ida_nextid =>
            \E id \in Ids \ allocated : allocated' = allocated \cup {id} ]_poolVars

\* An identifier is handed out again only after the cursor has gone over every
\* other one: a late message that names a finished request is as old as it can
\* be before it could be taken for a new one.
FullCycleBeforeReuse ==
    [][ \A id \in Ids :
            (id \notin allocated /\ id \in allocated')
                => passed[id] \cup Swept(id) = Ids ]_poolVars
=============================================================================
