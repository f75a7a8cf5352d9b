---------------------------- MODULE IdPoolProofs ----------------------------
(***************************************************************************)
(* Theorems about the identifier allocator, for any range of identifiers   *)
(* and any owner: the probe loop finds the first free identifier, and the  *)
(* cursor makes reuse as late as it can be.                                *)
(***************************************************************************)
EXTENDS IdPool, NaturalsInduction, WellFoundedInduction, TLAPS

Size == ida_max - ida_min + 1

\* How many probes come before the one of id, if the first is of start.
Place(id, start) == IF id >= start THEN id - start ELSE id - start + Size

\* The free identifiers that are probed, if none before next is.
Ahead(next, start, taken) ==
    {id \in Ids \ taken : Place(id, start) >= Place(next, start)}

FirstOf(S, start) ==
    CHOOSE id \in S : \A other \in S : Place(id, start) <= Place(other, start)

\* What the loop makes of next, in closed form.
Found(next, start, taken) ==
    IF Ahead(next, start, taken) = {} THEN NoId
    ELSE FirstOf(Ahead(next, start, taken), start)

\* What it is to be the loop's recursive function.
IsProbe(f, start, taken) ==
    f = [next \in Ids |->
            IF next \notin taken THEN next
            ELSE IF Successor(next) = start THEN NoId
            ELSE f[Successor(next)]]
-----------------------------------------------------------------------------
(* Places *)

\* Some member of a set of numbers that is not empty is the least.
LEMMA SmallestExists ==
    ASSUME NEW S \in SUBSET Nat, S # {}
    PROVE  \E n \in S : \A m \in S : n <= m
<1>1. PICK n \in S : \A m \in S : <<m, n>> \notin OpToRel(<, Nat)
    BY NatLessThanWellFounded, WFMin
<1>2. \A m \in S : ~(m < n)
    BY <1>1, Zenon DEF OpToRel
<1> QED
    BY <1>2

\* The loop goes over every identifier once: places are distinct, the first is
\* start's, and the successor comes next, or is start.
LEMMA Places ==
    ASSUME NEW start \in Ids
    PROVE  /\ Place(start, start) = 0
           /\ \A id \in Ids : Place(id, start) \in 0 .. Size - 1
           /\ \A id, other \in Ids :
                Place(id, start) = Place(other, start) => id = other
           /\ \A id \in Ids : Successor(id) \in Ids
           /\ \A id \in Ids : Successor(id) = start =>
                Place(id, start) = Size - 1
           /\ \A id \in Ids : Successor(id) # start =>
                Place(Successor(id), start) = Place(id, start) + 1
BY IdRange DEF Ids, Place, Successor, Size

\* The first of a set of identifiers, in the order of the probes.
LEMMA FirstIsFirst ==
    ASSUME NEW start \in Ids, NEW S \in SUBSET Ids, S # {}
    PROVE  /\ FirstOf(S, start) \in S
           /\ \A other \in S :
                Place(FirstOf(S, start), start) <= Place(other, start)
<1> DEFINE places == {Place(id, start) : id \in S}
<1>1. places \in SUBSET Nat /\ places # {}
    BY Places
<1>2. PICK n \in places : \A m \in places : n <= m
    BY <1>1, SmallestExists
<1>3. PICK id \in S : Place(id, start) = n
    BY <1>2
<1>4. \A other \in S : Place(id, start) <= Place(other, start)
    BY <1>2, <1>3
<1> QED
    BY <1>3, <1>4 DEF FirstOf

\* A first member is the first.
LEMMA FirstIsUnique ==
    ASSUME NEW start \in Ids, NEW S \in SUBSET Ids, NEW id \in S,
           \A other \in S : Place(id, start) <= Place(other, start)
    PROVE  FirstOf(S, start) = id
<1> DEFINE first == FirstOf(S, start)
<1>1. /\ first \in S
      /\ \A other \in S : Place(first, start) <= Place(other, start)
    BY FirstIsFirst
<1> HIDE DEF first
<1>2. first \in Ids /\ id \in Ids /\ Place(first, start) = Place(id, start)
    BY <1>1, Places
<1> QED
    BY <1>2, Places DEF first
-----------------------------------------------------------------------------
(* The loop *)

\* The closed form unfolds as the loop does.
LEMMA FoundUnfolds ==
    ASSUME NEW start \in Ids, NEW taken, NEW next \in Ids
    PROVE  Found(next, start, taken) =
                IF next \notin taken THEN next
                ELSE IF Successor(next) = start THEN NoId
                ELSE Found(Successor(next), start, taken)
<1>1. /\ \A id \in Ids : Place(id, start) \in Int
      /\ \A id \in Ids : Place(id, start) <= Size - 1
      /\ Size \in Int
    BY Places, IdRange DEF Size
<1>2. Ahead(next, start, taken) \in SUBSET Ids
    BY DEF Ahead
<1>3. CASE next \notin taken
  <2>1. next \in Ahead(next, start, taken)
    BY <1>1, <1>3 DEF Ahead
  <2>2. \A other \in Ahead(next, start, taken) :
            Place(next, start) <= Place(other, start)
    BY <1>1 DEF Ahead
  <2>3. FirstOf(Ahead(next, start, taken), start) = next
    BY <1>2, <2>1, <2>2, FirstIsUnique
  <2> QED
    BY <1>3, <2>1, <2>3 DEF Found
<1>4. CASE next \in taken /\ Successor(next) = start
  <2>1. ASSUME NEW id \in Ahead(next, start, taken) PROVE FALSE
    <3>1. id \in Ids /\ id \notin taken /\ Place(id, start) >= Place(next, start)
        BY <2>1 DEF Ahead
    <3>2. Place(next, start) = Size - 1
        BY <1>4, Places
    <3>3. Place(id, start) = Place(next, start)
        BY <1>1, <3>1, <3>2
    <3> QED
        BY <1>4, <3>1, <3>3, Places
  <2> QED
    BY <1>4, <2>1 DEF Found
<1>5. CASE next \in taken /\ Successor(next) # start
  <2>1. Place(Successor(next), start) = Place(next, start) + 1
    BY <1>5, Places
  <2>2. ASSUME NEW id \in Ids \ taken
        PROVE  Place(id, start) >= Place(next, start)
                <=> Place(id, start) >= Place(Successor(next), start)
    <3>1. Place(id, start) # Place(next, start)
        BY <1>5, <2>2, Places
    <3> QED
        BY <1>1, <2>1, <2>2, <3>1
  <2>3. Ahead(next, start, taken) = Ahead(Successor(next), start, taken)
    BY <2>2 DEF Ahead
  <2> QED
    BY <1>5, <2>3 DEF Found
<1> QED
    BY <1>3, <1>4, <1>5

\* The loop's function is there and is the closed form.
LEMMA LoopIsFound ==
    ASSUME NEW start \in Ids, NEW taken
    PROVE  AllocLoop(start, taken) = Found(start, start, taken)
<1> DEFINE g == [next \in Ids |-> Found(next, start, taken)]
           f == CHOOSE h : IsProbe(h, start, taken)
<1>1. IsProbe(g, start, taken)
  <2>1. \A next \in Ids : Successor(next) \in Ids
    BY Places
  <2>2. \A next \in Ids :
            Found(next, start, taken) =
                IF next \notin taken THEN next
                ELSE IF Successor(next) = start THEN NoId
                ELSE g[Successor(next)]
    BY <2>1, FoundUnfolds
  <2>3. g = [next \in Ids |->
                IF next \notin taken THEN next
                ELSE IF Successor(next) = start THEN NoId
                ELSE g[Successor(next)]]
    BY <2>2, Zenon
  <2> HIDE DEF g
  <2> QED
    BY <2>3 DEF IsProbe
<1>2. IsProbe(f, start, taken)
    BY <1>1, Zenon
<1> HIDE DEF f
<1>3. \A next \in Ids :
        f[next] = IF next \notin taken THEN next
                  ELSE IF Successor(next) = start THEN NoId
                  ELSE f[Successor(next)]
    BY <1>2, Zenon DEF IsProbe
<1>4. \A next \in Ids : f[next] = Found(next, start, taken)
  <2> DEFINE other == {next \in Ids : f[next] # Found(next, start, taken)}
             left == {Size - 1 - Place(next, start) : next \in other}
  <2>1. SUFFICES ASSUME other # {} PROVE FALSE
    OBVIOUS
  <2>2. left \in SUBSET Nat /\ left # {}
    BY <2>1, Places, IdRange DEF Size
  <2>3. PICK n \in left : \A m \in left : n <= m
    BY <2>2, SmallestExists
  <2>4. PICK next \in other : Size - 1 - Place(next, start) = n
    BY <2>3
  <2>5. next \in Ids /\ f[next] # Found(next, start, taken)
    BY <2>4
  <2>6. next \in taken /\ Successor(next) # start
        /\ f[Successor(next)] # Found(Successor(next), start, taken)
    BY <1>3, <2>5, FoundUnfolds, Zenon
  <2>7. Successor(next) \in other
    BY <2>5, <2>6, Places
  <2>8. n <= Size - 1 - Place(Successor(next), start)
    BY <2>3, <2>7
  <2>9. Place(Successor(next), start) = Place(next, start) + 1
        /\ Place(next, start) \in Int /\ Size \in Int
    BY <2>5, <2>6, Places, IdRange DEF Size
  <2> QED
    BY <2>4, <2>8, <2>9
<1>5. AllocLoop(start, taken) = f[start]
    BY DEF AllocLoop, IsProbe, f
<1> QED
    BY <1>4, <1>5

\* The loop returns the first free identifier from the cursor on, around the end
\* of the range, and throws when and only when there is none.
LEMMA LoopIsAlloc ==
    ASSUME NEW start \in Ids, NEW taken
    PROVE  AllocLoop(start, taken) = Alloc(start, taken)
<1> DEFINE free == Ids \ taken
           onward == {id \in free : id >= start}
<1>1. Ahead(start, start, taken) = free
    BY Places DEF Ahead
<1>2. Ids \in SUBSET Nat /\ start \in Nat
    BY IdRange DEF Ids
<1>3. CASE free = {}
    BY <1>1, <1>3, LoopIsFound DEF Found, Alloc
<1>4. CASE free # {}
  <2>1. AllocLoop(start, taken) = FirstOf(free, start)
    BY <1>1, <1>4, LoopIsFound DEF Found
  <2>2. CASE onward # {}
    <3>1. PICK id \in onward : \A other \in onward : id <= other
      <4>1. onward \in SUBSET Nat
        BY <1>2
      <4> QED
        BY <2>2, <4>1, SmallestExists
    <3>2. Min(onward) \in onward /\ \A other \in onward : Min(onward) <= other
        BY <3>1 DEF Min
    <3>3. \A other \in free : Place(Min(onward), start) <= Place(other, start)
        BY <1>2, <3>2, IdRange DEF Place, Size, Ids
    <3>4. FirstOf(free, start) = Min(onward)
        BY <3>2, <3>3, FirstIsUnique
    <3> QED
        BY <1>4, <2>1, <2>2, <3>4 DEF Alloc
  <2>3. CASE onward = {}
    <3>1. PICK id \in free : \A other \in free : id <= other
      <4>1. free \in SUBSET Nat
        BY <1>2
      <4> QED
        BY <1>4, <4>1, SmallestExists
    <3>2. Min(free) \in free /\ \A other \in free : Min(free) <= other
        BY <3>1 DEF Min
    <3>3. \A other \in free : ~(other >= start)
        BY <2>3
    <3>4. \A other \in free : Place(Min(free), start) <= Place(other, start)
        BY <1>2, <3>2, <3>3, IdRange DEF Place, Size, Ids
    <3>5. FirstOf(free, start) = Min(free)
        BY <3>2, <3>4, FirstIsUnique
    <3> QED
        BY <1>4, <2>1, <2>3, <3>5 DEF Alloc
  <2> QED
    BY <2>2, <2>3
<1> QED
    BY <1>3, <1>4

\* An identifier that the loop returns is one that is free.
LEMMA LoopReturnsFree ==
    ASSUME NEW start \in Ids, NEW taken, AllocLoop(start, taken) # NoId
    PROVE  AllocLoop(start, taken) \in Ids \ taken
<1>1. Ahead(start, start, taken) # {}
    BY LoopIsFound DEF Found
<1>2. Ahead(start, start, taken) \in SUBSET Ids
    BY DEF Ahead
<1>3. AllocLoop(start, taken) = FirstOf(Ahead(start, start, taken), start)
    BY <1>1, LoopIsFound DEF Found
<1>4. AllocLoop(start, taken) \in Ahead(start, start, taken)
    BY <1>1, <1>2, <1>3, FirstIsFirst
<1> QED
    BY <1>4 DEF Ahead
-----------------------------------------------------------------------------
(* The owner *)

\* What the cursor has not gone over since id was handed out is from the cursor
\* to id.
PassedOK == \A id \in Ids : passed[id] \cup Swept(id) = Ids

IInv == PoolTypeOK /\ PassedOK

LEMMA InitHolds == PoolInit => IInv
BY IdRange DEF PoolInit, IInv, PoolTypeOK, PassedOK, Ids, Swept

LEMMA TakeKeeps ==
    ASSUME IInv, Take
    PROVE  IInv' /\ \E id \in Ids \ allocated : allocated' = allocated \cup {id}
<1> DEFINE id == AllocLoop(ida_nextid, allocated)
<1>1. ida_nextid \in Ids /\ allocated \subseteq Ids
      /\ passed \in [Ids -> SUBSET Ids]
    BY DEF IInv, PoolTypeOK
<1>2. id \in Ids /\ id \notin allocated
    BY <1>1, LoopReturnsFree DEF Take
<1>3. /\ ida_nextid' = Successor(id)
      /\ allocated' = allocated \cup {id}
      /\ passed' = [i \in Ids |->
                        IF i = id THEN {} ELSE passed[i] \cup Swept(id)]
    BY DEF Take
<1> HIDE DEF id
<1>4. Successor(id) \in Ids
    BY <1>1, <1>2, Places
<1>5. Swept(id) \subseteq Ids
    BY <1>1, <1>2, IdRange DEF Swept, Ids
<1>6. PoolTypeOK'
    BY <1>1, <1>2, <1>3, <1>4, <1>5 DEF PoolTypeOK
<1>7. ASSUME NEW i \in Ids
      PROVE  passed'[i] \cup Swept(i)' = Ids
  <2>1. CASE i = id
    <3>1. Swept(i)' = Ids
      <4>1. ida_min \in Nat /\ ida_max \in Nat /\ id \in ida_min .. ida_max
        BY <1>2, IdRange DEF Ids
      <4>2. CASE id = ida_max
        <5>1. ida_nextid' = ida_min
            BY <1>3, <4>1, <4>2 DEF Successor
        <5>2. Swept(i)' = ida_min .. ida_max
            BY <2>1, <4>1, <4>2, <5>1 DEF Swept
        <5> QED
            BY <5>2 DEF Ids
      <4>3. CASE id # ida_max
        <5>1. ida_nextid' = id + 1
            BY <1>3, <4>1, <4>3 DEF Successor
        <5>2. Swept(i)' = (id + 1 .. ida_max) \cup (ida_min .. id)
            BY <2>1, <4>1, <5>1 DEF Swept
        <5>3. Swept(i)' = ida_min .. ida_max
            BY <4>1, <5>2
        <5> QED
            BY <5>3 DEF Ids
      <4> QED
        BY <4>2, <4>3
    <3>2. passed'[i] = {}
        BY <1>3, <2>1, <1>7
    <3> QED
        BY <3>1, <3>2
  <2>2. CASE i # id
    <3>1. Swept(i) \subseteq Swept(id) \cup Swept(i)' /\ Swept(i)' \subseteq Ids
        BY <1>1, <1>2, <1>3, <2>2, <1>7, IdRange DEF Swept, Successor, Ids
    <3>2. passed'[i] = passed[i] \cup Swept(id)
        BY <1>3, <2>2, <1>7
    <3>3. passed[i] \cup Swept(i) = Ids /\ passed[i] \subseteq Ids
        BY <1>1, <1>7 DEF IInv, PassedOK
    <3> QED
        BY <1>5, <3>1, <3>2, <3>3
  <2> QED
    BY <2>1, <2>2
<1> QED
    BY <1>2, <1>3, <1>6, <1>7 DEF IInv, PassedOK

LEMMA StepKeeps == IInv /\ [PoolNext]_poolVars => IInv'
<1> SUFFICES ASSUME IInv, [PoolNext]_poolVars PROVE IInv'
    OBVIOUS
<1>1. CASE Take
    BY <1>1, TakeKeeps
<1>2. CASE Give
    BY <1>2 DEF Give, IInv, PoolTypeOK, PassedOK, Swept
<1>3. CASE UNCHANGED poolVars
    BY <1>3 DEF poolVars, IInv, PoolTypeOK, PassedOK, Swept
<1> QED
    BY <1>1, <1>2, <1>3 DEF PoolNext

\* The inductive invariant, of every behaviour of the allocator and its owner.
THEOREM Invariance == PoolSpec => []IInv
<1> QED
    BY InitHolds, StepKeeps, PTL DEF PoolSpec

\* The cursor and the identifiers in use stay within the range.
THEOREM TypeCorrect == PoolSpec => []PoolTypeOK
<1>1. IInv => PoolTypeOK
    BY DEF IInv
<1> QED
    BY <1>1, Invariance, PTL

\* For any range, from every cursor and for every set of identifiers in use, the
\* loop of alloc() returns the first free one and throws only when none is.
THEOREM LoopIsRight == PoolSpec => []LoopFindsFirstFree
<1>1. IInv => LoopFindsFirstFree
    BY LoopIsAlloc DEF IInv, PoolTypeOK, LoopFindsFirstFree
<1> QED
    BY <1>1, Invariance, PTL

\* No identifier is handed out while it is in use.
THEOREM HeldIdsStay == PoolSpec => NeverHandsOutHeldId
<1>1. IInv /\ [PoolNext]_poolVars =>
        [ ida_nextid' # ida_nextid =>
            \E id \in Ids \ allocated : allocated' = allocated \cup {id} ]_poolVars
  <2> SUFFICES ASSUME IInv, [PoolNext]_poolVars, ida_nextid' # ida_nextid
               PROVE \E id \in Ids \ allocated : allocated' = allocated \cup {id}
    OBVIOUS
  <2>1. Take
    BY DEF PoolNext, Give, poolVars
  <2> QED
    BY <2>1, TakeKeeps
<1> QED
    BY <1>1, Invariance, PTL DEF PoolSpec, NeverHandsOutHeldId

\* Between two uses of an identifier the cursor goes over all the others.
THEOREM ReuseIsLate == PoolSpec => FullCycleBeforeReuse
<1>1. IInv /\ [PoolNext]_poolVars =>
        [ \A id \in Ids :
            (id \notin allocated /\ id \in allocated')
                => passed[id] \cup Swept(id) = Ids ]_poolVars
    BY DEF IInv, PassedOK
<1> QED
    BY <1>1, Invariance, PTL DEF PoolSpec, FullCycleBeforeReuse
=============================================================================
