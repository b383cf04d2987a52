--------------------------- MODULE MessageRouter ----------------------------
(***************************************************************************)
(* relay/src/messageRouter.ts: what the relay does with one WebSocket      *)
(* message, and what it sends because of it.  A message is its type and    *)
(* the session it names; everything else in it is forwarded untouched.     *)
(***************************************************************************)
EXTENDS SessionStore

CONSTANT NoSession   \* a message without session_id

ASSUME NoSessionDistinct == NoSession \notin SessionId

VARIABLES
    readyState, \* readyState[c]: the relay's end of the socket ("NONE": not opened yet)
    sent        \* what the last step handed to sockets: records [to, via, msg]

routerVars == <<readyState, sent>>

ReadyState == {"NONE", "OPEN", "CLOSING", "CLOSED"}

\* Of the CLI's outputs the router tells three classes apart: those that end
\* the turn, those that show it running, and the rest.
CliType   == {"result", "assistant_chunk", "control_request"}
PhoneType == {"user", "interrupt", "control_response", "list_sessions"}
PingType  == {"heartbeat", "heartbeat_ack"}
ReplyType == {"heartbeat_ack", "cli_offline", "init"}

Message == [type : CliType \cup PhoneType \cup PingType \cup ReplyType,
            sid  : SessionId \cup {NoSession}]

SessionListMessage == [type : {"session_list"}, list : SUBSET SessionId]

Msg(type, sid) == [type |-> type, sid |-> sid]

RouterTypeOK ==
    /\ readyState \in [ConnId -> ReadyState]
    /\ sent \in SUBSET [to : ConnId, via : ConnId,
                       msg : Message \cup SessionListMessage]

RouterInit ==
    /\ readyState = [c \in ConnId |-> "NONE"]
    /\ sent = {}

-----------------------------------------------------------------------------
Reachable(c) == c \in connections /\ readyState[c] = "OPEN"

\* sendToConnection: nothing is sent to an unknown or no longer open connection,
\* and no caller looks at the result.
SendTo(c, msg) ==
    IF Reachable(c) THEN {[to |-> c, via |-> c, msg |-> msg]} ELSE {}

\* broadcastToRole: one send for each open connection of the role, but to the
\* connection that clientIdToConnId holds for its client ('' when it has none).
\* "via" tells the rounds of the loop apart.
BroadcastToRole_UncheckedTarget(role, msg) == \* faulty variant
    {[to |-> clientIdToConnId[auth[c]], via |-> c, msg |-> msg] :
        c \in {d \in connections : Reachable(d) /\ auth[d] \in role}}
BroadcastToRole_AnyRole(role, msg) == \* faulty variant
    {[to |-> clientIdToConnId[auth[c]], via |-> c, msg |-> msg] :
        c \in {d \in connections : Reachable(d) /\ Reachable(clientIdToConnId[auth[d]])}}
BroadcastToRole(role, msg) ==
    {[to |-> clientIdToConnId[auth[c]], via |-> c, msg |-> msg] :
        c \in {d \in connections : /\ Reachable(d)
                                   /\ auth[d] \in role
                                   /\ Reachable(clientIdToConnId[auth[d]])}}

HandleHeartbeat(c, m) ==
    /\ m.type \in PingType
    /\ UpdateHeartbeat(c)
    /\ sent' = IF m.type = "heartbeat" THEN SendTo(c, Msg("heartbeat_ack", NoSession)) ELSE {}
    /\ UNCHANGED <<connections, auth, sessionIds, clientIdToConnId, sessionVars>>

RouteFromCLI(m) ==
    /\ m.sid \in sessions
    /\ isBusy' = CASE m.type = "result"          -> [isBusy EXCEPT ![m.sid] = FALSE]
                   [] m.type = "assistant_chunk" -> [isBusy EXCEPT ![m.sid] = TRUE]
                   [] OTHER                      -> isBusy
    /\ sent' = IF iphoneConnectionId[m.sid] # NoConn
               THEN SendTo(iphoneConnectionId[m.sid], m)
               ELSE BroadcastToRole(Phone, m)
    /\ UNCHANGED <<connVars, sessions, cliConnectionId, iphoneConnectionId, status, owner>>

HandleSessionListRequest(c, m) ==
    /\ m.type = "list_sessions"
    /\ sent' = SendTo(c, [type |-> "session_list", list |-> sessions])
    /\ UNCHANGED storeVars

\* Binds the phone before looking the session up; a session that does not
\* exist is answered like one whose CLI is offline.
RouteFromIPhone(c, m) ==
    /\ m.type # "list_sessions"
    /\ m.sid # NoSession
    /\ BindIphone(m.sid, c)
    /\ CASE m.type = "user"      -> SetBusy(m.sid, TRUE)
         [] m.type = "interrupt" -> SetBusy(m.sid, FALSE)
         [] OTHER                -> UNCHANGED isBusy
    /\ sent' = IF m.sid \in sessions /\ cliConnectionId[m.sid] # NoConn
               THEN SendTo(cliConnectionId[m.sid], m)
               ELSE SendTo(c, Msg("cli_offline", m.sid))
    /\ UNCHANGED <<connVars, sessions, cliConnectionId, status, owner>>

\* The returns that ignore a message: its sender is unknown, it names no
\* session, or a CLI names one the relay does not have.
Drop(c, m) ==
    /\ \/ c \notin connections
       \/ /\ auth[c] \in Cli
          /\ m.type \notin PingType
          /\ m.sid \notin sessions
       \/ /\ auth[c] \in Phone
          /\ m.type \notin PingType \cup {"list_sessions"}
          /\ m.sid = NoSession
    /\ sent' = {}
    /\ UNCHANGED storeVars

HandleMessage(c, m) ==
    \/ Drop(c, m)
    \/ c \in connections /\ HandleHeartbeat(c, m)
    \/ RoleIs(c, Cli) /\ m.type \notin PingType /\ RouteFromCLI(m)
    \/ RoleIs(c, Phone) /\ HandleSessionListRequest(c, m)
    \/ RoleIs(c, Phone) /\ m.type \notin PingType /\ RouteFromIPhone(c, m)
=============================================================================
