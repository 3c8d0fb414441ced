--------------------------- MODULE SessionLifecycle ---------------------------
(***************************************************************************)
(* What the session API promises a client: a session is opened once, and   *)
(* once it is terminated (revoked, logged out, deleted or timed out) it    *)
(* never becomes active again.  Sessions end one at a time.                *)
(***************************************************************************)
CONSTANT Sessions
VARIABLE life

Init == life = [s \in Sessions |-> "unborn"]

Open(s) ==
    /\ life[s] = "unborn"
    /\ life' = [life EXCEPT ![s] = "active"]

Terminate(s) ==
    /\ life[s] = "active"
    /\ life' = [life EXCEPT ![s] = "terminated"]

Next == \E s \in Sessions : Open(s) \/ Terminate(s)

Spec == Init /\ [][Next]_life
=============================================================================
