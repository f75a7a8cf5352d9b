---------------------------- MODULE MCFastClient ----------------------------
(* Small instances of FastClient for TLC. *)
EXTENDS FastClient, TLC

CONSTANTS r1, r2, r3, obj

TwoRequests == {r1, r2}
ThreeRequests == {r1, r2, r3}
Objects == {obj}
OnlyR2 == {r2}
Nobody == {}

\* Beside the empty array: a null before an object.
AnyPayload == {<<Null, obj>>}
OneObject == {<<obj>>}
NoPayload == {}

\* Requests of the same kind are interchangeable (runs without liveness).
SameRequests == Permutations({r1, r2, r3})
=============================================================================
