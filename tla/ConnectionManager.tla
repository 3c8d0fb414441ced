--------------------------- MODULE ConnectionManager ---------------------------
(***************************************************************************)
(* The WebSocket registry: connections (user -> array of sockets) and      *)
(* socketToUser.  Everything runs on one thread, so each method is one     *)
(* action; the sockets' close and error events arrive between methods.     *)
(* A broadcast walks an array that a failing send splices under its feet.  *)
(***************************************************************************)
EXTENDS Naturals, FiniteSets, SequencesExt, Subsequences

CONSTANTS
    Users, Sockets, Sessions, Channels,
    Notifications,       \* the channel every connection starts with
    UserOf, SessionOf    \* what a socket's access token says

ASSUME ConnectionAssumption ==
    /\ Notifications \in Channels
    /\ IsFiniteSet(Sockets)
    /\ UserOf \in [Sockets -> Users]
    /\ SessionOf \in [Sockets -> Sessions]

VARIABLES
    ready,     \* external: each socket's readyState
    conns,     \* connections: each user's array, <<>> when he has no key
    known,     \* the keys of socketToUser (their values are UserOf)
    subs,      \* subscribedChannels of the registered sockets
    dropped,   \* history: sockets that a failed send removed and are not closed
    last       \* history: the step's broadcast, whom it was for and whom it reached

vars == <<ready, conns, known, subs, dropped, last>>

NoSend == [kind |-> "none", due |-> {}, got |-> {}, failed |-> {}]

TypeOK ==
    /\ ready \in [Sockets -> {"new", "open", "closing", "closed"}]
    /\ \A u \in Users : conns[u] \in Seq(Sockets) /\ Len(conns[u]) <= Cardinality(Sockets)
    /\ known \in SUBSET Sockets
    /\ subs \in [Sockets -> SUBSET Channels]
    /\ dropped \in SUBSET Sockets
    /\ last.kind \in {"none", "user", "others", "channel"}
    /\ last.due \cup last.got \cup last.failed \in SUBSET Sockets

Init ==
    /\ ready = [s \in Sockets |-> "new"]
    /\ conns = [u \in Users |-> <<>>]
    /\ known = {}
    /\ subs = [s \in Sockets |-> {}]
    /\ dropped = {}
    /\ last = NoSend

Open == {s \in Sockets : ready[s] = "open"}

-----------------------------------------------------------------------------
AddConnection(s) ==
    /\ ready[s] = "new"
    /\ ready' = [ready EXCEPT ![s] = "open"]
    /\ conns' = [conns EXCEPT ![UserOf[s]] = Append(@, s)]
    /\ known' = known \cup {s}
    /\ subs' = [subs EXCEPT ![s] = {Notifications}]
    /\ last' = NoSend
    /\ UNCHANGED dropped

\* setupConnection: the connection is added and welcomed.
SetupConnection(s) == AddConnection(s)

\* The welcome message throws after the connection was added: the rejection
\* ends in sendErrorAndClose.
WelcomeFails(s) ==
    /\ ready[s] = "new"
    /\ ready' = [ready EXCEPT ![s] = "closing"]
    /\ conns' = [conns EXCEPT ![UserOf[s]] = Append(@, s)]
    /\ known' = known \cup {s}
    /\ subs' = [subs EXCEPT ![s] = {Notifications}]
    /\ last' = NoSend
    /\ UNCHANGED dropped

\* sendErrorAndClose, when authenticateWebSocket has found no valid token; the
\* manager never hears of the socket.
RejectConnection(s) ==
    /\ ready[s] = "new"
    /\ ready' = [ready EXCEPT ![s] = "closed"]
    /\ last' = NoSend
    /\ UNCHANGED <<conns, known, subs, dropped>>

RemoveConnection(s) ==
    \/ /\ s \in known
       /\ conns' = [conns EXCEPT ![UserOf[s]] = RemoveFirst(@, s)]
       /\ known' = known \ {s}
       /\ subs' = [subs EXCEPT ![s] = {}]
    \/ /\ s \notin known
       /\ UNCHANGED <<conns, known, subs>>

-----------------------------------------------------------------------------
(* The sockets' events                                                     *)

\* The peer starts the closing handshake: no handler of the manager runs.
PeerClose(s) ==
    /\ ready[s] = "open"
    /\ ready' = [ready EXCEPT ![s] = "closing"]
    /\ last' = NoSend
    /\ UNCHANGED <<conns, known, subs, dropped>>

CloseEvent(s) ==
    /\ ready[s] \in {"open", "closing"}
    /\ ready' = [ready EXCEPT ![s] = "closed"]
    /\ RemoveConnection(s)
    /\ dropped' = dropped \ {s}
    /\ last' = NoSend

\* An error ends the socket; its close event is still to come.
ErrorEvent(s) ==
    /\ ready[s] \in {"open", "closing"}
    /\ ready' = [ready EXCEPT ![s] = "closing"]
    /\ RemoveConnection(s)
    /\ last' = NoSend
    /\ UNCHANGED dropped

-----------------------------------------------------------------------------
(* Broadcasts.  Walk is `for` / `map` over the live array: a send that     *)
(* throws removes its connection from the array that is being walked, and  *)
(* the index goes on over the shortened array.                             *)

SendNext(p, i, to, bad) ==
    IF i > Len(p.list) \/ p.list[i] \notin to THEN p
    ELSE IF p.list[i] \in bad
         THEN [p EXCEPT !.list = RemoveAt(@, i)]
         ELSE [p EXCEPT !.got = @ \cup {p.list[i]}]

Walk(list, to, bad) ==
    LET visit[i \in Nat] ==
          IF i = 0 THEN [list |-> list, got |-> {}] ELSE SendNext(visit[i - 1], i, to, bad)
    IN  visit[Len(list)]

Removed(before, after) == ToSet(before) \ ToSet(after)

\* Walk the arrays of the users us, sending to the open sockets of `to`.
\* `bad` are the sockets whose send throws.
Broadcast(kind, us, to, bad) ==
    LET walks == [u \in us |-> Walk(conns[u], to, bad)]
        gone == UNION {Removed(conns[u], walks[u].list) : u \in us}
    IN  /\ conns' = [u \in Users |-> IF u \in us THEN walks[u].list ELSE conns[u]]
        /\ known' = known \ gone
        /\ dropped' = dropped \cup gone
        /\ last' = [kind |-> kind, due |-> (to \cap known) \ bad,
                    got |-> UNION {walks[u].got : u \in us}, failed |-> gone \cap bad]
        /\ subs' = [s \in Sockets |-> IF s \in gone THEN {} ELSE subs[s]]
        /\ UNCHANGED ready

SendToUser(u, bad) ==
    Broadcast("user", {u}, {s \in Open : UserOf[s] = u}, bad)

SendToChannel(ch, bad) ==
    Broadcast("channel", Users, {s \in Open : ch \in subs[s]}, bad)

\* Slip: the user's own array is walked and the session skipped.
SendToUserExceptSession_Live(u, x, bad) ==
    Broadcast("others", {u}, {s \in Open : UserOf[s] = u /\ SessionOf[s] # x}, bad)

\* getUserConnectionsExceptSession filters into a new array, so the walk is
\* over a copy: nothing is spliced under it.
SendToUserExceptSession(u, x, bad) ==
    LET others == {s \in Open : UserOf[s] = u /\ SessionOf[s] # x}
        copy == {s \in ToSet(conns[u]) : SessionOf[s] # x}
        reached == {s \in copy \cap others : s \notin bad}
        gone == copy \cap others \cap bad
        left == {i \in DOMAIN conns[u] : conns[u][i] \notin gone}
    IN  /\ conns' = [conns EXCEPT ![u] = Subsequence(@, left)]
        /\ known' = known \ gone
        /\ dropped' = dropped \cup gone
        /\ last' = [kind |-> "others", due |-> (others \cap known) \ bad,
                    got |-> reached, failed |-> gone \cap bad]
        /\ subs' = [s \in Sockets |-> IF s \in gone THEN {} ELSE subs[s]]
        /\ UNCHANGED ready

-----------------------------------------------------------------------------
\* closeUserConnections (and closeAllConnections, which calls it for every
\* user): ask every socket to close; the close events come later.
CloseUserConnections(u) ==
    /\ conns[u] # <<>>
    /\ ready' = [s \in Sockets |-> IF s \in ToSet(conns[u]) /\ ready[s] = "open"
                                   THEN "closing" ELSE ready[s]]
    /\ last' = NoSend
    /\ UNCHANGED <<conns, known, subs, dropped>>

CloseAllConnections ==
    /\ known # {}
    /\ ready' = [s \in Sockets |->
                   IF (\E u \in Users : s \in ToSet(conns[u])) /\ ready[s] = "open"
                   THEN "closing" ELSE ready[s]]
    /\ last' = NoSend
    /\ UNCHANGED <<conns, known, subs, dropped>>

\* A subscribe / unsubscribe message of an open socket; a socket that is no
\* longer in the registry gets an error.
SubscribeToChannel(s, ch) ==
    /\ s \in Open \cap known
    /\ subs' = [subs EXCEPT ![s] = @ \cup {ch}]
    /\ last' = NoSend
    /\ UNCHANGED <<ready, conns, known, dropped>>

UnsubscribeFromChannel(s, ch) ==
    /\ s \in Open \cap known
    /\ subs' = [subs EXCEPT ![s] = @ \ {ch}]
    /\ last' = NoSend
    /\ UNCHANGED <<ready, conns, known, dropped>>

\* handleIncomingMessage: every other message is only answered.
HandleIncomingMessage(s, ch) == SubscribeToChannel(s, ch) \/ UnsubscribeFromChannel(s, ch)

\* hasConnections
HasConnections(u) == conns[u] # <<>>

\* NotificationService.sendToUser: a changed password, MFA, a revoked session,
\* a locked or unlocked account.
NotifyUser(u, bad) == HasConnections(u) /\ SendToUser(u, bad)

\* NotificationService.sendToOtherSessions: a login on a new device.
NotifyOtherSessions(u, x, bad) == HasConnections(u) /\ SendToUserExceptSession(u, x, bad)

-----------------------------------------------------------------------------
Next ==
    \/ \E s \in Sockets :
          \/ SetupConnection(s) \/ WelcomeFails(s) \/ RejectConnection(s)
          \/ PeerClose(s) \/ CloseEvent(s) \/ ErrorEvent(s)
    \/ \E s \in Sockets, ch \in Channels : HandleIncomingMessage(s, ch)
    \/ CloseAllConnections
    \/ \E u \in Users : CloseUserConnections(u)
    \/ \E u \in Users : \E bad \in SUBSET {s \in Open : UserOf[s] = u} :
          NotifyUser(u, bad) \/ \E x \in Sessions : NotifyOtherSessions(u, x, bad)
    \/ \E ch \in Channels, bad \in SUBSET Open : SendToChannel(ch, bad)

Spec == Init /\ [][Next]_vars

-----------------------------------------------------------------------------
(* Properties                                                              *)

\* The two maps of the registry agree: each socket of socketToUser stands
\* exactly once, in its owner's array, whichever of its close and error
\* events and failed sends have removed it, in whatever order.
MapsAgree ==
    \A u \in Users : /\ ToSet(conns[u]) = {s \in known : UserOf[s] = u}
                     /\ IsInjective(conns[u])

\* An open socket leaves either map only because a send to it failed: no
\* other socket's event takes it along.
OpenIsRegistered ==
    \A s \in Open \ dropped : s \in known /\ s \in ToSet(conns[UserOf[s]])

\* A notification to the user's other sessions reaches every one of their
\* open connections, even when sends to some of them fail, and no others.
OthersReached == last.kind = "others" => last.got = last.due

\* A broadcast over a live array misses at most one connection for every
\* send that failed in it, and reaches nobody it was not for.
MissesBounded ==
    /\ last.got \subseteq last.due
    /\ Cardinality(last.due \ last.got) <= Cardinality(last.failed)

\* The registry holds no closed socket, whichever of its events, failed sends
\* and closeUserConnections came first.
ClosedIsForgotten == \A s \in known : ready[s] # "closed"

-----------------------------------------------------------------------------
(* What the comments say and the code does not do                          *)

\* connection-manager.ts:132: "Sends a message to all connections of a user".
UserReached == last.kind = "user" => last.got = last.due

\* The two maps mirror the open sockets, and a broadcast reaches them.
SocketsServed ==
    /\ TypeOK /\ MapsAgree /\ OpenIsRegistered /\ ClosedIsForgotten
    /\ OthersReached /\ MissesBounded
=============================================================================
