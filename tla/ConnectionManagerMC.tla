-------------------------- MODULE ConnectionManagerMC --------------------------
(* Small instances of ConnectionManager: u1 has two sockets of one session *)
(* and one of another, u2 has one.                                         *)
EXTENDS ConnectionManager, TLC

CONSTANTS u1, u2, s1, s2, s3, s4, x1, x2, x3, notifications, alerts

TwoUsers == {u1, u2}
FourSockets == {s1, s2, s3, s4}
ThreeSessions == {x1, x2, x3}
OneChannel == {notifications}

Owner == [s \in Sockets |-> IF s = s4 THEN u2 ELSE u1]
Session == [s \in Sockets |-> IF s \in {s1, s2} THEN x1 ELSE IF s = s3 THEN x2 ELSE x3]

SameSession == Permutations({s1, s2})
=============================================================================
