---------------------------- MODULE RelayServer -----------------------------
(***************************************************************************)
(* relay/src/server.ts: the relay process.  One action per HTTP endpoint,  *)
(* WebSocket event, timer and signal that changes its state.  Node runs    *)
(* each handler to its end, so each is one step; what interleaves is the   *)
(* order in which requests, socket events and timers arrive.               *)
(*                                                                         *)
(* Requests the handlers refuse without touching any state (a wrong relay  *)
(* key, an unknown pair code, a missing token, POST /api/sessions of a CLI *)
(* without a connection) are steps that change nothing and are left out.   *)
(***************************************************************************)
EXTENDS MessageRouter, RelayAuth

VARIABLE stopping \* SIGINT has been received

vars == <<storeVars, routerVars, authVars, stopping>>

TypeOK ==
    /\ StoreTypeOK
    /\ RouterTypeOK
    /\ AuthTypeOK
    /\ stopping \in BOOLEAN

Init ==
    /\ StoreInit
    /\ RouterInit
    /\ AuthInit
    /\ stopping = FALSE

-----------------------------------------------------------------------------
(* SIGINT calls server.close(): node then refuses new TCP connections, and *)
(* each WebSocket comes over a new one.  A request that came over an old   *)
(* connection is still answered.                                           *)
Listening == ~stopping

(* HTTP endpoints.                                                         *)
Http(A) == A /\ sent' = {} /\ UNCHANGED <<readyState, stopping>>

PostCliRegister(u) == Http(RegisterCLI(u) /\ UNCHANGED storeVars)

PostPairCodeGenerate(u, code) ==
    Http(Verified(u) /\ GeneratePairCode(u, code) /\ UNCHANGED storeVars)

PostIphonePair(p, code) == Http(PairIPhone(p, code) /\ UNCHANGED storeVars)

PostSessions(u, s) ==
    Http(/\ Verified(u)
         /\ clientIdToConnId[u] # NoConn
         /\ CreateSession(s, clientIdToConnId[u])
         /\ UNCHANGED authVars)

(* The WebSocket server.                                                   *)
Connection(u, c) ==
    /\ Listening
    /\ readyState[c] = "NONE"
    /\ Verified(u)
    /\ RegisterConnection(c, u)
    /\ readyState' = [readyState EXCEPT ![c] = "OPEN"]
    /\ sent' = {[to |-> c, via |-> c, msg |-> Msg("init", NoSession)]}
    /\ UNCHANGED <<authVars, stopping>>

\* The handshake succeeds before the token is looked at; the socket is then
\* closed with 4001 and never registered.
RejectConnection(u, c) ==
    /\ Listening
    /\ readyState[c] = "NONE"
    /\ token[u] = "expired"
    /\ readyState' = [readyState EXCEPT ![c] = "CLOSING"]
    /\ sent' = {}
    /\ UNCHANGED <<storeVars, authVars, stopping>>

\* Frames arrive on an open socket, and on one that this side is closing.
OnMessage(c, m) ==
    /\ \/ readyState[c] = "OPEN"
       \/ readyState[c] = "CLOSING" /\ (stopping \/ c \notin connections)
    /\ HandleMessage(c, m)
    /\ UNCHANGED <<readyState, authVars, stopping>>

\* The peer's close frame or a socket error: readyState changes at once, the
\* close event comes later.
PeerCloses(c) ==
    /\ readyState[c] = "OPEN"
    /\ readyState' = [readyState EXCEPT ![c] = "CLOSING"]
    /\ sent' = {}
    /\ UNCHANGED <<storeVars, authVars, stopping>>

OnClose(c) ==
    /\ readyState[c] = "CLOSING"
    /\ readyState' = [readyState EXCEPT ![c] = "CLOSED"]
    /\ UnregisterConnections({c})
    /\ sent' = {}
    /\ UNCHANGED <<authVars, stopping>>

(* The setInterval of the heartbeat check.                                 *)
HeartbeatCheck ==
    /\ readyState' = [c \in ConnId |->
           IF c \in late /\ readyState[c] = "OPEN" THEN "CLOSING" ELSE readyState[c]]
    /\ UnregisterConnections(late)
    /\ CleanupExpiredPairCodes
    /\ sent' = {}
    /\ UNCHANGED stopping

(* SIGINT closes every connection and stops listening; the process exits   *)
(* when the last socket has closed.  The supervisor (restart:              *)
(* unless-stopped in docker-compose.yml, or an operator) starts it again,  *)
(* after an exit as after a crash.                                         *)
Sigint_LeavesSocketsOpen == \* faulty variant
    /\ ~stopping
    /\ stopping' = TRUE
    /\ sent' = {}
    /\ UNCHANGED <<readyState, storeVars, authVars>>
Sigint ==
    /\ ~stopping
    /\ stopping' = TRUE
    /\ readyState' = [c \in ConnId |->
           IF Reachable(c) THEN "CLOSING" ELSE readyState[c]]
    /\ sent' = {}
    /\ UNCHANGED <<storeVars, authVars>>

Restart ==
    /\ Forget
    /\ ForgetCodes
    /\ readyState' = [c \in ConnId |->
           IF readyState[c] = "NONE" THEN "NONE" ELSE "CLOSED"]
    /\ stopping' = FALSE
    /\ sent' = {}

Exit == stopping /\ (\A c \in ConnId : readyState[c] \in {"NONE", "CLOSED"}) /\ Restart
Crash == Restart

(* The clock.                                                              *)
TimePasses ==
    /\ \/ \E c \in ConnId : HeartbeatTimesOut(c) /\ UNCHANGED authVars
       \/ \E u \in Client : TokenExpires(u) /\ UNCHANGED storeVars
       \/ \E k \in PairCode : PairCodeExpires(k) /\ UNCHANGED storeVars
    /\ sent' = {}
    /\ UNCHANGED <<readyState, stopping>>

\* What clients send: the types of their role; a session they name has existed
\* at some time, or is missing.
Inbound(c) ==
    {Msg(type, sid) :
        type \in IF auth[c] \in Cli THEN CliType ELSE PhoneType \ {"list_sessions"},
        sid \in Minted \cup {NoSession}}
      \cup {Msg("heartbeat", NoSession), Msg("heartbeat_ack", NoSession)}
      \cup IF auth[c] \in Phone THEN {Msg("list_sessions", NoSession)} ELSE {}

Next ==
    \/ \E u \in Cli : PostCliRegister(u)
    \/ \E u \in Cli, k \in PairCode : PostPairCodeGenerate(u, k)
    \/ \E p \in Phone, k \in PairCode : PostIphonePair(p, k)
    \/ \E u \in Cli, s \in SessionId : PostSessions(u, s)
    \/ \E u \in Client, c \in ConnId : Connection(u, c) \/ RejectConnection(u, c)
    \/ \E c \in ConnId : \E m \in Inbound(c) : OnMessage(c, m)
    \/ \E c \in ConnId : PeerCloses(c) \/ OnClose(c)
    \/ HeartbeatCheck
    \/ Sigint
    \/ Exit
    \/ Crash
    \/ TimePasses

\* The timer keeps firing, an ending socket does emit close, and a process told
\* to stop does exit; nothing else is forced to happen.
Fairness ==
    /\ WF_vars(HeartbeatCheck)
    /\ \A c \in ConnId : WF_vars(OnClose(c))
    /\ WF_vars(Exit)

Spec == Init /\ [][Next]_vars
FairSpec == Spec /\ Fairness
-----------------------------------------------------------------------------
(* Safety.                                                                 *)

\* clientIdToConnId never points at a connection that is gone or belongs to
\* somebody else, whatever the order in which a client's old connection closes
\* and its new one opens (registerConnection, unregisterConnection).
ClientMapSound ==
    \A u \in Client : clientIdToConnId[u] # NoConn =>
        RoleIs(clientIdToConnId[u], {u})

\* A session and its CLI connection know each other: a session in the store is
\* "active" exactly while it names a connection; that connection is registered,
\* belongs to the client that created the session and lists the session; and a
\* CLI connection lists no session that is served by another connection.
SessionBindingSound ==
    /\ \A s \in sessions :
          /\ status[s] = "active" <=> cliConnectionId[s] # NoConn
          /\ cliConnectionId[s] # NoConn =>
                /\ RoleIs(cliConnectionId[s], {owner[s]})
                /\ s \in sessionIds[cliConnectionId[s]]
    /\ \A c \in connections : \A s \in sessionIds[c] :
          s \in sessions /\ cliConnectionId[s] = c

\* What a phone says about a session is delivered to nobody but the client that
\* created the session, and what a CLI outputs goes to phones only, through all
\* reconnects of either side (routeFromIPhone, routeFromCLI).
DeliveredToParties ==
    \A d \in sent :
        /\ d.msg.type \in PhoneType => auth[d.to] = owner[d.msg.sid]
        /\ d.msg.type \in CliType   => auth[d.to] \in Phone

\* The only code that can pair a phone to a CLI is the last one this CLI was
\* given: generating a code takes back the earlier ones even when codes collide
\* (generatePairCode).
OnlyLatestCodeWorks ==
    \A k \in PairCode : Live(k) => shown[pairCodes[k]] = k

(* What a step may never do.                                               *)

\* A phone is admitted only by the code its CLI was last given, before that code
\* expires, and uses the code up: no second phone gets in with it (pairIPhone).
AdmittedByLatestCode ==
    [][\A p \in Phone : token[p] = "none" /\ token'[p] = "valid" =>
          \E u \in Cli : LET k == shown[u] IN
              /\ k \in PairCode \ expiredCodes
              /\ pairCodes[k] = u
              /\ pairCodes'[k] = NoClient]_vars

\* The relay implements SessionLifecycle.
Life == [s \in SessionId |->
            CASE s \notin Minted                         -> "unborn"
              [] s \in Minted \ sessions                 -> "forgotten"
              [] s \in sessions /\ status[s] = "active"  -> "served"
              [] OTHER                                   -> "orphaned"]

Lifecycle == INSTANCE SessionLifecycle WITH life <- Life, server <- owner

LifecycleSpec == Lifecycle!Spec

(* Liveness.                                                               *)

\* A session whose CLI has fallen silent or whose socket is closing does not
\* stay active: the phone will be told the CLI is offline (the heartbeat check
\* and the close event), unless a heartbeat comes after all.
DeadCliNoticed ==
    \A s \in SessionId, c \in ConnId :
        (s \in sessions /\ cliConnectionId[s] = c /\ (c \in late \/ readyState[c] = "CLOSING"))
            ~> (s \notin sessions \/ cliConnectionId[s] # c \/ (Reachable(c) /\ c \notin late))

\* A process that was told to stop stops.
ShutdownFinishes == stopping ~> ~stopping

(* What comments and documents say of the relay and the code does not do.  *)

\* sessionStore.ts:156, "iPhone disconnected, only undo the binding": no session
\* is bound to a connection that is gone.
PhoneUnboundOnDisconnect ==
    \A s \in sessions : iphoneConnectionId[s] # NoConn => iphoneConnectionId[s] \in connections

\* messageRouter.ts:168, "broadcast to all connections of the role": while its
\* session is bound to no phone, an output reaches every phone that has an open
\* connection and none that is closing, by one of its connections at least.
BroadcastReachesRole ==
    [][\A c \in ConnId : \A m \in Inbound(c) :
          /\ OnMessage(c, m)
          /\ RoleIs(c, Cli) /\ m.type \in CliType
          /\ m.sid \in sessions /\ iphoneConnectionId[m.sid] = NoConn
          => \A p \in Phone :
               LET mine == {d \in connections : auth[d] = p}
               IN mine # {} /\ (\A d \in mine : Reachable(d)) =>
                    \E x \in sent' : x.to \in mine]_vars
=============================================================================
