------------------------ MODULE RelayConnectorProofs ------------------------
(***************************************************************************)
(* Theorems about RelayConnector for any set of sockets and any limit of   *)
(* the reconnect delay.  The three invariants the runs check need each     *)
(* other: one live socket at most is what makes the heartbeat of a new     *)
(* socket safe from the close event of an old one.                         *)
(***************************************************************************)
EXTENDS RelayConnector, TLAPS

\* Before connect() there is nothing to break.
NothingBeforeConnect ==
    ~started => Alive = {} /\ ws = NoSock /\ ~reconnectTimer /\ ~heartbeatTimer /\ ~isManualClose

\* The heartbeat runs only before disconnect(), and a manual close forgets ws.
ManualCloseForgets == isManualClose => ws = NoSock

ConnectorInv ==
    /\ TypeOK
    /\ OneSocket
    /\ HeartbeatMatchesSocket
    /\ QuietAfterDisconnect
    /\ NothingBeforeConnect
    /\ ManualCloseForgets

LEMMA InitEstablishes == Init => ConnectorInv
<1> SUFFICES ASSUME Init PROVE ConnectorInv
  OBVIOUS
<1>1. Alive = {}
  BY DEF Init, Alive
<1>2. TypeOK
  <2>1. reconnectAttempts \in 0 .. MaxReconnectIntervals
    BY IntervalsPositive DEF Init
  <2> QED BY <2>1 DEF Init, TypeOK
<1>3. HeartbeatMatchesSocket /\ QuietAfterDisconnect /\ NothingBeforeConnect /\ ManualCloseForgets
  BY <1>1 DEF Init, HeartbeatMatchesSocket, QuietAfterDisconnect, NothingBeforeConnect, ManualCloseForgets,
     Connected
<1>4. OneSocket
  BY <1>1 DEF OneSocket
<1> QED BY <1>2, <1>3, <1>4 DEF ConnectorInv

\* A reconnect attempt stays within the limit.
LEMMA AttemptsBounded ==
    ASSUME reconnectAttempts \in 0 .. MaxReconnectIntervals
    PROVE  OneMoreAttempt \in 0 .. MaxReconnectIntervals
BY IntervalsPositive DEF OneMoreAttempt

LEMMA NextPreserves == ConnectorInv /\ [Next]_vars => ConnectorInv'
<1> SUFFICES ASSUME ConnectorInv, [Next]_vars PROVE ConnectorInv'
  OBVIOUS
<1> USE NoSockDistinct, IntervalsPositive, AttemptsBounded
    DEF ConnectorInv, TypeOK, OneSocket, HeartbeatMatchesSocket, QuietAfterDisconnect,
        NothingBeforeConnect, ManualCloseForgets, Alive, Connected
<1>1. ASSUME Connect \/ ReconnectFires, UNCHANGED validUrl PROVE ConnectorInv'
  <2>1. Alive = {} /\ ~heartbeatTimer /\ ~isManualClose'
    BY <1>1 DEF Connect, ReconnectFires
  <2>2. ASSUME NEW s \in Sock, sock' = [sock EXCEPT ![s] = "CONNECTING"], ws' = s, reconnectTimer' = FALSE,
               UNCHANGED reconnectAttempts
        PROVE  ConnectorInv'
    <3>1. Alive' = {s}
      BY <2>1, <2>2
    <3>2. ~heartbeatTimer' /\ started' /\ ~isManualClose'
      BY <1>1, <2>1 DEF Connect, ReconnectFires
    <3> HIDE DEF Alive
    <3>3. TypeOK'
      <4>1. started' \in BOOLEAN /\ heartbeatTimer' \in BOOLEAN /\ isManualClose' \in BOOLEAN
        BY <1>1, <3>2 DEF Connect, ReconnectFires
      <4> QED BY <1>1, <2>2, <4>1
    <3>4. OneSocket'
      BY <2>2, <3>1
    <3>5. HeartbeatMatchesSocket' /\ QuietAfterDisconnect' /\ NothingBeforeConnect' /\ ManualCloseForgets'
      BY <2>2, <3>2
    <3> QED BY <3>3, <3>4, <3>5
  <2>3. ASSUME UNCHANGED <<sock, ws>>, reconnectTimer' = TRUE, reconnectAttempts' = OneMoreAttempt
        PROVE  ConnectorInv'
    <3>1. Alive' = {}
      BY <2>1, <2>3
    <3>2. ~heartbeatTimer' /\ started' /\ ~isManualClose'
      BY <1>1, <2>1 DEF Connect, ReconnectFires
    <3> HIDE DEF Alive
    <3>3. TypeOK'
      <4>1. started' \in BOOLEAN /\ heartbeatTimer' \in BOOLEAN /\ isManualClose' \in BOOLEAN
        BY <1>1, <3>2 DEF Connect, ReconnectFires
      <4> QED BY <1>1, <2>3, <4>1
    <3>4. OneSocket'
      BY <2>3, <3>1
    <3>5. HeartbeatMatchesSocket' /\ QuietAfterDisconnect' /\ NothingBeforeConnect' /\ ManualCloseForgets'
      BY <2>1, <2>3, <3>2
    <3> QED BY <3>3, <3>4, <3>5
  <2> QED BY <1>1, <2>2, <2>3 DEF Connect, ReconnectFires, DoConnect
<1>2. ASSUME NEW s \in Sock, OnOpen(s), UNCHANGED validUrl PROVE ConnectorInv'
  BY <1>2 DEF OnOpen
<1>3. ASSUME NEW s \in Sock, OnClose(s), UNCHANGED validUrl PROVE ConnectorInv'
  BY <1>3 DEF OnClose, ScheduleReconnect
<1>4. ASSUME NEW s \in Sock, StartsClosing(s), UNCHANGED validUrl PROVE ConnectorInv'
  BY <1>4 DEF StartsClosing, timerVars
<1>5. ASSUME Disconnect, UNCHANGED validUrl PROVE ConnectorInv'
  BY <1>5 DEF Disconnect
<1>6. CASE UNCHANGED vars
  BY <1>6 DEF vars, timerVars
<1> QED BY <1>1, <1>2, <1>3, <1>4, <1>5, <1>6 DEF Next

\* ConnectorInv holds in every reachable state.
THEOREM ConnectorInvariant == Spec => []ConnectorInv
BY InitEstablishes, NextPreserves, PTL DEF Spec

\* Every variable keeps its type; the attempts stay within the limit.
THEOREM TypeCorrect == Spec => []TypeOK
BY ConnectorInvariant, PTL DEF ConnectorInv

\* The CLI never has two sockets to the relay.
THEOREM OneSocketCorrect == Spec => []OneSocket
BY ConnectorInvariant, PTL DEF ConnectorInv

\* Heartbeats are sent exactly for the open socket.
THEOREM HeartbeatCorrect == Spec => []HeartbeatMatchesSocket
BY ConnectorInvariant, PTL DEF ConnectorInv

\* disconnect() is final.
THEOREM DisconnectIsFinal == Spec => []QuietAfterDisconnect
BY ConnectorInvariant, PTL DEF ConnectorInv

-----------------------------------------------------------------------------
\* Between connect() and disconnect() there is a socket whose close event will
\* schedule an attempt, or an attempt is scheduled, even if no URL can be parsed.
AlwaysTrying == started /\ ~isManualClose => Alive # {} \/ reconnectTimer

LEMMA StepKeepsTrying ==
    ASSUME ConnectorInv, AlwaysTrying, [Next]_vars
    PROVE  AlwaysTrying'
<1>0. sock \in [Sock -> {"CONNECTING", "OPEN", "CLOSING", "CLOSED"}]
  BY DEF ConnectorInv, TypeOK
<1>1. CASE DoConnect
  BY <1>0, <1>1 DEF DoConnect, AlwaysTrying, Alive
<1>2. ASSUME NEW s \in Sock, OnOpen(s) PROVE AlwaysTrying'
  BY <1>0, <1>2 DEF OnOpen, AlwaysTrying, Alive
<1>3. ASSUME NEW s \in Sock, OnClose(s) PROVE AlwaysTrying'
  BY <1>3 DEF OnClose, ScheduleReconnect, AlwaysTrying
<1>4. ASSUME NEW s \in Sock, StartsClosing(s) PROVE AlwaysTrying'
  BY <1>0, <1>4 DEF StartsClosing, AlwaysTrying, Alive
<1>5. CASE Disconnect
  BY <1>5 DEF Disconnect, AlwaysTrying
<1>6. CASE UNCHANGED vars
  BY <1>6 DEF vars, timerVars, AlwaysTrying, Alive
<1> QED BY <1>1, <1>2, <1>3, <1>4, <1>5, <1>6 DEF Next, Connect, ReconnectFires

\* NeverGivesUp's safety half: no order of close events, failed attempts and
\* timeouts leaves the CLI (relayConnector.ts) without a next attempt.
THEOREM TryingCorrect == Spec => []AlwaysTrying
<1>1. Init => AlwaysTrying
  BY DEF Init, AlwaysTrying
<1> QED BY <1>1, StepKeepsTrying, ConnectorInvariant, PTL DEF Spec

\* Once the user has disconnected no event of any socket and no timer opens another.
THEOREM NothingAfterDisconnect ==
    Spec => [][isManualClose => isManualClose' /\ Alive' \subseteq Alive]_vars
<1>1. ConnectorInv /\ [Next]_vars =>
        (isManualClose => isManualClose' /\ Alive' \subseteq Alive) \/ UNCHANGED vars
  <2> SUFFICES ASSUME ConnectorInv, Next, isManualClose
               PROVE  isManualClose' /\ Alive' \subseteq Alive
    OBVIOUS
  <2>0. /\ sock \in [Sock -> {"CONNECTING", "OPEN", "CLOSING", "CLOSED"}]
        /\ started /\ ~reconnectTimer
    BY DEF ConnectorInv, TypeOK, NothingBeforeConnect, QuietAfterDisconnect
  <2>1. ASSUME NEW s \in Sock, OnOpen(s) \/ OnClose(s) \/ StartsClosing(s)
        PROVE  isManualClose' /\ Alive' \subseteq Alive
    BY <2>0, <2>1 DEF OnOpen, OnClose, StartsClosing, Alive
  <2>2. CASE Disconnect
    BY <2>0, <2>2 DEF Disconnect, Alive
  <2> QED BY <2>0, <2>1, <2>2 DEF Next, Connect, ReconnectFires
<1> QED BY <1>1, ConnectorInvariant, PTL DEF Spec
=============================================================================
