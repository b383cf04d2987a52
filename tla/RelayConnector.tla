--------------------------- MODULE RelayConnector ---------------------------
(***************************************************************************)
(* restored-src/src/relay/relayConnector.ts: the CLI's WebSocket client    *)
(* with its heartbeat and reconnect timers.  remoteRelay.ts calls          *)
(* connect() once and disconnect() on SIGINT.                              *)
(*                                                                         *)
(* The event handlers of a socket stay attached after this.ws has moved on *)
(* to another socket, so sockets are told apart; a closed one is free to   *)
(* stand for a later one.                                                  *)
(***************************************************************************)
EXTENDS Naturals

CONSTANTS
    Sock,                 \* WebSocket objects
    NoSock,               \* null
    MaxReconnectIntervals \* MAX_RECONNECT_INTERVAL_MS in units of RECONNECT_INTERVAL_MS (12)

ASSUME NoSockDistinct == NoSock \notin Sock
ASSUME IntervalsPositive == MaxReconnectIntervals \in Nat \ {0}

VARIABLES
    ws,                \* this.ws
    sock,              \* sock[s]: readyState of s as the CLI sees it
    heartbeatTimer,    \* the interval is running
    reconnectTimer,    \* the timeout is pending
    reconnectAttempts, \* up to the limit, where Math.min stops the delay from growing
    isManualClose,
    started,           \* connect() has been called
    validUrl           \* this.wsUrl parses, so that new WebSocket does not throw

timerVars == <<heartbeatTimer, reconnectTimer, reconnectAttempts>>
vars == <<ws, sock, timerVars, isManualClose, started, validUrl>>

Alive == {s \in Sock : sock[s] \in {"CONNECTING", "OPEN", "CLOSING"}}
Connected == ws # NoSock /\ sock[ws] = "OPEN"

TypeOK ==
    /\ ws \in Sock \cup {NoSock}
    /\ sock \in [Sock -> {"CONNECTING", "OPEN", "CLOSING", "CLOSED"}]
    /\ heartbeatTimer \in BOOLEAN
    /\ reconnectTimer \in BOOLEAN
    /\ reconnectAttempts \in 0 .. MaxReconnectIntervals
    /\ isManualClose \in BOOLEAN
    /\ started \in BOOLEAN
    /\ validUrl \in BOOLEAN

Init ==
    /\ ws = NoSock
    /\ sock = [s \in Sock |-> "CLOSED"]
    /\ heartbeatTimer = FALSE
    /\ reconnectTimer = FALSE
    /\ reconnectAttempts = 0
    /\ isManualClose = FALSE
    /\ started = FALSE
    /\ validUrl \in BOOLEAN

-----------------------------------------------------------------------------
OneMoreAttempt_NoLimit == reconnectAttempts + 1 \* faulty variant
OneMoreAttempt ==
    IF reconnectAttempts < MaxReconnectIntervals THEN reconnectAttempts + 1
                                                 ELSE reconnectAttempts

(* scheduleReconnect: nothing while an attempt is already scheduled.       *)
ScheduleReconnect ==
    /\ reconnectTimer' = TRUE
    /\ reconnectAttempts' = IF reconnectTimer THEN reconnectAttempts ELSE OneMoreAttempt

(* doConnect: a new socket takes the place of this.ws, or the constructor  *)
(* throws and the next attempt is scheduled.                               *)
DoConnect ==
    \/ /\ validUrl
       /\ reconnectTimer' = FALSE
       /\ UNCHANGED reconnectAttempts
       /\ \E s \in Sock \ Alive :
             /\ sock' = [sock EXCEPT ![s] = "CONNECTING"]
             /\ ws' = s
    \/ /\ ~validUrl
       /\ reconnectTimer' = TRUE
       /\ reconnectAttempts' = OneMoreAttempt
       /\ UNCHANGED <<sock, ws>>

Connect ==
    /\ ~started
    /\ started' = TRUE
    /\ isManualClose' = FALSE
    /\ DoConnect
    /\ UNCHANGED heartbeatTimer

ReconnectFires ==
    /\ reconnectTimer
    /\ DoConnect
    /\ UNCHANGED <<heartbeatTimer, isManualClose, started>>

OnOpen(s) ==
    /\ sock[s] = "CONNECTING"
    /\ sock' = [sock EXCEPT ![s] = "OPEN"]
    /\ reconnectAttempts' = 0
    /\ heartbeatTimer' = TRUE
    /\ UNCHANGED <<ws, reconnectTimer, isManualClose, started>>

(* A socket closes because the attempt failed, the peer or the network     *)
(* ended it, or disconnect() did.                                          *)
OnClose_KeepsHeartbeat(s) == \* faulty variant
    /\ s \in Alive
    /\ sock' = [sock EXCEPT ![s] = "CLOSED"]
    /\ IF isManualClose THEN UNCHANGED <<reconnectTimer, reconnectAttempts>>
                        ELSE ScheduleReconnect
    /\ UNCHANGED <<heartbeatTimer, ws, isManualClose, started>>
OnClose_IgnoresManualClose(s) == \* faulty variant
    /\ s \in Alive
    /\ sock' = [sock EXCEPT ![s] = "CLOSED"]
    /\ heartbeatTimer' = FALSE
    /\ ScheduleReconnect
    /\ UNCHANGED <<ws, isManualClose, started>>
OnClose_GivesUp(s) == \* faulty variant
    /\ s \in Alive
    /\ sock' = [sock EXCEPT ![s] = "CLOSED"]
    /\ heartbeatTimer' = FALSE
    /\ IF isManualClose \/ sock[s] = "CONNECTING"
       THEN UNCHANGED <<reconnectTimer, reconnectAttempts>>
       ELSE ScheduleReconnect
    /\ UNCHANGED <<ws, isManualClose, started>>
OnClose(s) ==
    /\ s \in Alive
    /\ sock' = [sock EXCEPT ![s] = "CLOSED"]
    /\ heartbeatTimer' = FALSE
    /\ IF isManualClose THEN UNCHANGED <<reconnectTimer, reconnectAttempts>>
                        ELSE ScheduleReconnect
    /\ UNCHANGED <<ws, isManualClose, started>>

\* readyState changes before the close event is emitted.
StartsClosing_Reconnects(s) == \* faulty variant
    /\ sock[s] = "OPEN"
    /\ sock' = [sock EXCEPT ![s] = "CLOSING"]
    /\ ScheduleReconnect
    /\ UNCHANGED <<ws, heartbeatTimer, isManualClose, started>>
StartsClosing(s) ==
    /\ sock[s] = "OPEN"
    /\ sock' = [sock EXCEPT ![s] = "CLOSING"]
    /\ UNCHANGED <<ws, timerVars, isManualClose, started>>

Disconnect ==
    /\ started
    /\ isManualClose' = TRUE
    /\ heartbeatTimer' = FALSE
    /\ reconnectTimer' = FALSE
    /\ sock' = [s \in Sock |-> IF s = ws /\ s \in Alive THEN "CLOSING" ELSE sock[s]]
    /\ ws' = NoSock
    /\ UNCHANGED <<reconnectAttempts, started>>

Next ==
    /\ \/ Connect
       \/ ReconnectFires
       \/ \E s \in Sock : OnOpen(s) \/ OnClose(s) \/ StartsClosing(s)
       \/ Disconnect
    /\ UNCHANGED validUrl

\* The reconnect timeout fires, an attempt to connect succeeds or fails, and a
\* dying socket emits close.
Fairness ==
    /\ WF_vars(ReconnectFires /\ UNCHANGED validUrl)
    /\ \A s \in Sock : WF_vars(/\ sock[s] # "OPEN"
                               /\ OnOpen(s) \/ OnClose(s)
                               /\ UNCHANGED validUrl)

Spec == Init /\ [][Next]_vars
FairSpec == Spec /\ Fairness

-----------------------------------------------------------------------------
\* The CLI never has two sockets to the relay: until disconnect() the only live
\* one is this.ws, and while it lives no reconnect is scheduled, whatever order
\* the events of old and new sockets come in.
OneSocket ==
    /\ ~isManualClose => Alive \subseteq {ws}
    /\ \A s, t \in Alive : s = t
    /\ reconnectTimer => Alive = {}

\* Heartbeats are sent for as long as the socket is open, which is what keeps
\* the relay from evicting the CLI, and never for one that is gone.
HeartbeatMatchesSocket ==
    /\ Connected => heartbeatTimer
    /\ heartbeatTimer => ws # NoSock /\ sock[ws] \in {"OPEN", "CLOSING"}

\* After disconnect() nothing is left that would bring the connection back.
QuietAfterDisconnect ==
    isManualClose => ~reconnectTimer /\ ~heartbeatTimer /\ \A s \in Alive : sock[s] = "CLOSING"

\* A connection that is lost, or never came about, is tried again until the user
\* disconnects.
NeverGivesUp ==
    (started /\ validUrl /\ Alive = {}) ~> (Alive # {} \/ isManualClose)
=============================================================================
