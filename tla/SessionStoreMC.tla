---------------------------- MODULE SessionStoreMC ----------------------------
(* A small instance of SessionStore alone: one user, two sessions, two       *)
(* overlapping requests (SessionResetMisses).                                *)
EXTENDS SessionStore, TLC

CONSTANTS u1, s1, s2, p1, p2

OneUser == {u1}
TwoSessions == {s1, s2}
TwoProcs == {p1, p2}
ResetOps == {"create", "purge"}
===============================================================================
