-------------------------- MODULE SessionLifecycle --------------------------
(***************************************************************************)
(* What the relay promises about a remote session, with connections,       *)
(* sockets and messages left out: a session is opened by one client, is    *)
(* served until that client is lost, and is never served again.  A new     *)
(* connection of the client opens new sessions; it does not revive old     *)
(* ones.  When the relay restarts it forgets all of them.                  *)
(***************************************************************************)
CONSTANTS Cli, SessionId, NoClient

VARIABLES
    life,  \* life[s]: "unborn", "served", "orphaned" or "forgotten"
    server \* server[s]: the client that opened it

lifeVars == <<life, server>>

Init ==
    /\ life = [s \in SessionId |-> "unborn"]
    /\ server = [s \in SessionId |-> NoClient]

Open(s, u) ==
    /\ life[s] = "unborn"
    /\ life' = [life EXCEPT ![s] = "served"]
    /\ server' = [server EXCEPT ![s] = u]

\* Sessions are lost together when the connection that served them goes.
Orphan(S) ==
    /\ \A s \in S : life[s] = "served"
    /\ life' = [s \in SessionId |-> IF s \in S THEN "orphaned" ELSE life[s]]
    /\ UNCHANGED server

ForgetAll ==
    /\ life' = [s \in SessionId |-> IF life[s] = "unborn" THEN "unborn" ELSE "forgotten"]
    /\ UNCHANGED server

Next ==
    \/ \E s \in SessionId, u \in Cli : Open(s, u)
    \/ \E S \in SUBSET SessionId : Orphan(S)
    \/ ForgetAll

Spec == Init /\ [][Next]_lifeVars
=============================================================================
