---------------------------- MODULE SessionStore ----------------------------
(***************************************************************************)
(* relay/src/sessionStore.ts and the Maps of relay/src/types.ts: which     *)
(* connections are live, which sessions exist, and how the two are tied.   *)
(* The operators below are the store's methods; server.ts and              *)
(* messageRouter.ts (modules RelayServer and MessageRouter) call them.     *)
(*                                                                         *)
(* A connection or session identifier is a randomUUID(), so it is used     *)
(* once; a client may hold several connections at the same time.           *)
(***************************************************************************)
EXTENDS RelayTypes

CONSTANTS
    ConnId,     \* connection identifiers; bounds how many sockets are opened
    SessionId,  \* session identifiers; bounds how many sessions are created
    NoConn      \* null or undefined where a connection identifier may stand

ASSUME NoConnDistinct == NoConn \notin ConnId

VARIABLES
    connections,        \* the keys of state.connections
    auth,               \* auth[c]: the client conn.auth.clientId of c
    late,               \* connections whose lastHeartbeat has timed out
    sessionIds,         \* sessionIds[c]: conn.sessionIds of c
    clientIdToConnId,   \* state.clientIdToConnId
    sessions,           \* the keys of state.sessions
    cliConnectionId,    \* session.cliConnectionId
    iphoneConnectionId, \* session.iphoneConnectionId
    status,             \* session.status
    isBusy,             \* session.isBusy
    owner               \* history: the client that created the session

connVars    == <<connections, auth, late, sessionIds, clientIdToConnId>>
bindingVars == <<cliConnectionId, iphoneConnectionId, status, isBusy>>
sessionVars == <<sessions, bindingVars, owner>>
storeVars   == <<connVars, sessionVars>>

Status == {"active", "disconnected"}

StoreTypeOK ==
    /\ connections \in SUBSET ConnId
    /\ auth \in [ConnId -> Client \cup {NoClient}]
    /\ late \in SUBSET connections
    /\ sessionIds \in [ConnId -> SUBSET SessionId]
    /\ clientIdToConnId \in [Client -> ConnId \cup {NoConn}]
    /\ sessions \in SUBSET SessionId
    /\ cliConnectionId \in [SessionId -> ConnId \cup {NoConn}]
    /\ iphoneConnectionId \in [SessionId -> ConnId \cup {NoConn}]
    /\ status \in [SessionId -> Status]
    /\ isBusy \in [SessionId -> BOOLEAN]
    /\ owner \in [SessionId -> Cli \cup {NoClient}]

\* Entries of the functions outside the Maps' keys are meaningless; a fresh
\* process (StoreInit, Forget) has all of them at the same values.
StoreInit ==
    /\ connections = {}
    /\ auth = [c \in ConnId |-> NoClient]
    /\ late = {}
    /\ sessionIds = [c \in ConnId |-> {}]
    /\ clientIdToConnId = [u \in Client |-> NoConn]
    /\ sessions = {}
    /\ cliConnectionId = [s \in SessionId |-> NoConn]
    /\ iphoneConnectionId = [s \in SessionId |-> NoConn]
    /\ status = [s \in SessionId |-> "active"]
    /\ isBusy = [s \in SessionId |-> FALSE]
    /\ owner = [s \in SessionId |-> NoClient]

RoleIs(c, role) == c \in connections /\ auth[c] \in role
Minted == {s \in SessionId : owner[s] # NoClient}

-----------------------------------------------------------------------------
(* registerConnection: a client's newer connection takes over its entry in *)
(* clientIdToConnId; the older one, if any, stays in connections.          *)
RegisterConnection_RevivesSessions(c, u) == \* faulty variant
    LET mine == {s \in sessions : owner[s] = u}
    IN  /\ connections' = connections \cup {c}
        /\ auth' = [auth EXCEPT ![c] = u]
        /\ sessionIds' = [sessionIds EXCEPT ![c] = mine]
        /\ clientIdToConnId' = [clientIdToConnId EXCEPT ![u] = c]
        /\ cliConnectionId' = [s \in SessionId |-> IF s \in mine THEN c ELSE cliConnectionId[s]]
        /\ status' = [s \in SessionId |-> IF s \in mine THEN "active" ELSE status[s]]
        /\ UNCHANGED <<late, sessions, iphoneConnectionId, isBusy, owner>>
RegisterConnection(c, u) ==
    /\ connections' = connections \cup {c}
    /\ auth' = [auth EXCEPT ![c] = u]
    /\ sessionIds' = [sessionIds EXCEPT ![c] = {}]
    /\ clientIdToConnId' = [clientIdToConnId EXCEPT ![u] = c]
    /\ UNCHANGED <<late, sessionVars>>

\* The sessions that unregisterConnection walks for the connections in C.
Walked_SkipsBusy(C) == \* faulty variant
    {s \in sessions : ~isBusy[s] /\ \E c \in C : s \in sessionIds[c]}
Walked(C) == {s \in sessions : \E c \in C : s \in sessionIds[c]}

\* The clientIdToConnId entry of each client goes, whichever connection of the
\* client it names.
ClientMapWithout_KeepsEntry(gone) == clientIdToConnId \* faulty variant
ClientMapWithout(gone) ==
    [u \in Client |-> IF \E c \in gone : auth[c] = u THEN NoConn ELSE clientIdToConnId[u]]

(* unregisterConnection for every connection of C; identifiers that are    *)
(* not (or no longer) registered are skipped, as the early return does.    *)
UnregisterConnections(C) ==
    LET gone == C \cap connections
        lost == Walked({c \in gone : auth[c] \in Cli})
        left(s) == {c \in gone : auth[c] \in Phone /\ s \in Walked({c})}
    IN  /\ connections' = connections \ gone
        /\ late' = late \ gone
        /\ sessionIds' = [c \in ConnId |-> IF c \in gone THEN {} ELSE sessionIds[c]]
        /\ clientIdToConnId' = ClientMapWithout(gone)
        /\ cliConnectionId' = [s \in SessionId |-> IF s \in lost THEN NoConn ELSE cliConnectionId[s]]
        /\ status' = [s \in SessionId |-> IF s \in lost THEN "disconnected" ELSE status[s]]
        /\ iphoneConnectionId' = [s \in SessionId |->
               IF iphoneConnectionId[s] \in left(s) THEN NoConn ELSE iphoneConnectionId[s]]
        /\ UNCHANGED <<auth, sessions, isBusy, owner>>

(* createSession: ties the session to the connection that is current for   *)
(* the client, in both directions.                                         *)
CreateSession(s, c) ==
    /\ s \notin Minted
    /\ sessions' = sessions \cup {s}
    /\ cliConnectionId' = [cliConnectionId EXCEPT ![s] = c]
    /\ iphoneConnectionId' = [iphoneConnectionId EXCEPT ![s] = NoConn]
    /\ status' = [status EXCEPT ![s] = "active"]
    /\ isBusy' = [isBusy EXCEPT ![s] = FALSE]
    /\ owner' = [owner EXCEPT ![s] = auth[c]]
    /\ sessionIds' = [sessionIds EXCEPT ![c] = IF c \in connections THEN @ \cup {s} ELSE @]
    /\ UNCHANGED <<connections, auth, late, clientIdToConnId>>

\* setBusy and bindIphone: nothing happens to an unknown session.
SetBusy(s, busy) ==
    isBusy' = IF s \in sessions THEN [isBusy EXCEPT ![s] = busy] ELSE isBusy
BindIphone(s, c) ==
    iphoneConnectionId' =
        IF s \in sessions THEN [iphoneConnectionId EXCEPT ![s] = c]
                          ELSE iphoneConnectionId

\* updateHeartbeat; checkHeartbeats returns the set late.
UpdateHeartbeat(c) == late' = late \ {c}

\* Time passes without a heartbeat of c until now - lastHeartbeat > timeoutMs.
HeartbeatTimesOut(c) ==
    /\ c \in connections \ late
    /\ late' = late \cup {c}
    /\ UNCHANGED <<connections, auth, sessionIds, clientIdToConnId, sessionVars>>

\* The process ends and a new one starts: the Maps exist in memory only.
Forget ==
    /\ connections' = {}
    /\ late' = {}
    /\ sessionIds' = [c \in ConnId |-> {}]
    /\ clientIdToConnId' = [u \in Client |-> NoConn]
    /\ sessions' = {}
    /\ cliConnectionId' = [s \in SessionId |-> NoConn]
    /\ iphoneConnectionId' = [s \in SessionId |-> NoConn]
    /\ status' = [s \in SessionId |-> "active"]
    /\ isBusy' = [s \in SessionId |-> FALSE]
    /\ UNCHANGED <<auth, owner>>
=============================================================================
