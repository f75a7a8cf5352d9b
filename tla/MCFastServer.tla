---------------------------- MODULE MCFastServer ----------------------------
(* Small instances of FastServer for TLC. *)
EXTENDS FastServer, TLC

CONSTANTS c1, c2, i1, i2, k1, k2

OneConn == {c1}
NoSurprises == {}
LateConnection == {"late connection"}
LateEnd == {"late end"}
InvalidInput == {"invalid input"}
TwoConns == {c1, c2}
OneId == {i1}
TwoIds == {i1, i2}
OneCallback == {k1}
TwoCallbacks == {k1, k2}

\* Connections are interchangeable, message ids and callbacks too (runs without liveness).
SameThings ==
    Permutations({c1, c2}) \cup Permutations({i1, i2}) \cup Permutations({k1, k2})
=============================================================================
