---------------------- MODULE RemoteRelayHandlerProofs ----------------------
(* What follows, for any number of clients, connections and sessions, from *)
(* the order in which remoteRelayHandler asks the relay for things.        *)
EXTENDS RemoteRelayHandler, TLAPS

\* Until it runs, the command has no connection; and it never runs.
NoConnectionYet ==
    /\ clientIdToConnId \in [Client -> ConnId \cup {NoConn}]
    /\ phase # "running"
    /\ clientIdToConnId[Me] = NoConn

\* Nothing that others do gives the command a connection.
LEMMA OthersConnectOthers ==
    ASSUME Me \in Cli, NoConnectionYet, Others
    PROVE  /\ clientIdToConnId' \in [Client -> ConnId \cup {NoConn}]
           /\ clientIdToConnId'[Me] = NoConn
<1> USE DEF NoConnectionYet, Client
<1>1. CASE UNCHANGED clientIdToConnId
  BY <1>1
<1>2. ASSUME NEW C, UnregisterConnections(C)
      PROVE  /\ clientIdToConnId' \in [Client -> ConnId \cup {NoConn}]
             /\ clientIdToConnId'[Me] = NoConn
  BY <1>2 DEF UnregisterConnections, ClientMapWithout
<1>3. ASSUME NEW u \in Client \ {Me}, NEW c \in ConnId, Connection(u, c)
      PROVE  /\ clientIdToConnId' \in [Client -> ConnId \cup {NoConn}]
             /\ clientIdToConnId'[Me] = NoConn
  BY <1>3 DEF Connection, RegisterConnection
<1>4. CASE Restart
  BY <1>4 DEF Restart, Forget
<1>5. ASSUME NEW c \in ConnId, NEW m \in Inbound(c), OnMessage(c, m) PROVE UNCHANGED clientIdToConnId
  BY <1>5 DEF OnMessage, HandleMessage, Drop, HandleHeartbeat, RouteFromCLI, HandleSessionListRequest,
     RouteFromIPhone, storeVars, connVars
<1>6. CASE \/ \E u \in Cli \ {Me} : PostCliRegister(u)
           \/ \E u \in Cli \ {Me}, k \in PairCode : PostPairCodeGenerate(u, k)
           \/ \E u \in Cli \ {Me}, s \in SessionId : PostSessions(u, s)
  BY <1>1, <1>6 DEF PostCliRegister, PostPairCodeGenerate, PostSessions, Http, CreateSession, storeVars, connVars
<1>7. CASE \/ \E p \in Phone, k \in PairCode : PostIphonePair(p, k)
           \/ \E u \in Client \ {Me}, c \in ConnId : RejectConnection(u, c)
           \/ \E c \in ConnId : PeerCloses(c)
           \/ Sigint \/ TimePasses
  BY <1>1, <1>7 DEF PostIphonePair, Http, RejectConnection, PeerCloses, Sigint, TimePasses, HeartbeatTimesOut,
     storeVars, connVars
<1>8. CASE HeartbeatCheck \/ \E c \in ConnId : OnClose(c)
  BY <1>2, <1>8 DEF HeartbeatCheck, OnClose
<1> QED BY <1>1, <1>3, <1>4, <1>5, <1>6, <1>7, <1>8 DEF Others, Exit, Crash

LEMMA NoConnectionPreserved ==
    ASSUME Me \in Cli, NoConnectionYet, [HandlerNext]_handlerVars
    PROVE  NoConnectionYet'
<1>1. CASE Register \/ ShowPairCode
  BY <1>1 DEF NoConnectionYet, Register, ShowPairCode, Fail, GoTo, PostCliRegister, PostPairCodeGenerate, Http,
     vars, storeVars, connVars
<1>2. CASE CreateRelaySession
  BY <1>2 DEF NoConnectionYet, CreateRelaySession, PostSessions, Http, Fail, GoTo, vars, storeVars, connVars
<1>3. CASE ConnectorConnects
  BY <1>3 DEF NoConnectionYet, ConnectorConnects
<1>4. CASE Others
  BY <1>4, OthersConnectOthers DEF NoConnectionYet, Others
<1>5. CASE UNCHANGED handlerVars
  BY <1>5 DEF NoConnectionYet, handlerVars, vars, storeVars, connVars
<1> QED BY <1>1, <1>2, <1>3, <1>4, <1>5 DEF HandlerNext

\* "pa remote-relay" never gets as far as opening its connection: the session it
\* asks for first needs the connection it opens last.
THEOREM NeverRuns == ASSUME Me \in Cli PROVE HandlerSpec => [](phase # "running")
<1>1. HandlerInit => NoConnectionYet
  BY DEF HandlerInit, Init, StoreInit, NoConnectionYet, Client
<1>2. NoConnectionYet /\ [HandlerNext]_handlerVars => NoConnectionYet'
  BY NoConnectionPreserved
<1>3. NoConnectionYet => phase # "running"
  BY DEF NoConnectionYet
<1> QED BY <1>1, <1>2, <1>3, PTL DEF HandlerSpec
=============================================================================
