---------------------------- MODULE MCFastSystem ----------------------------
(* Small instances of FastSystem for TLC. *)
EXTENDS FastSystem, TLC

CONSTANTS c1, k1, r1, r2

OneConn == {c1}
LateError == {"late error"}
AfterAccept == AllSurprises \ {"late connection"}
TwoIds == {1, 2}
NoCallback == {}
TwoRequests == {r1, r2}
OnlyR2 == {r2}

AnyEvent == {"abandon", "detach", "halfclose", "failure", "close", "badcall",
             "data"}

\* One call while everything happens but that the client detaches, or that the
\* server is closed; and two that share the connection while objects are sent,
\* while they may be abandoned or rejected, and when the client ends its side.
HalfClose == { [calls |-> {r1, r2}, happens |-> {"halfclose"}] }
AllWorlds ==
    { [calls |-> {r1}, happens |-> AnyEvent \ {"detach"}],
      [calls |-> {r1}, happens |-> AnyEvent \ {"close"}],
      [calls |-> {r1, r2}, happens |-> {"data"}],
      [calls |-> {r1, r2}, happens |-> {"abandon", "badcall"}] } \cup HalfClose
=============================================================================
