-------------------------- MODULE RelayServerProofs --------------------------
(***************************************************************************)
(* Theorems about RelayServer for any number of clients, connections,      *)
(* sessions and codes.                                                     *)
(*                                                                         *)
(* The argument has two layers.  StoreInv is preserved by every method of  *)
(* SessionStore (the lemmas of the first part); RelayInv adds what ties    *)
(* the store to the sockets and to what has been sent, and is preserved by *)
(* every action of the server (the second part).                           *)
(***************************************************************************)
EXTENDS RelayServer, TLAPS

\* Sessions in the store have an owner, registered connections have a client, and
\* whatever a session takes for its phone is, or was, a connection of a phone.
StoreLinks ==
    /\ sessions \subseteq Minted
    /\ \A c \in connections : auth[c] \in Client
    /\ \A s \in SessionId : iphoneConnectionId[s] # NoConn => auth[iphoneConnectionId[s]] \in Phone

StoreInv == StoreTypeOK /\ StoreLinks /\ ClientMapSound /\ SessionBindingSound

\* A connection identifier that occurs in the store has had its socket opened.
UsedAreOpened ==
    /\ \A c \in connections : readyState[c] # "NONE"
    /\ \A s \in SessionId : iphoneConnectionId[s] # NoConn => readyState[iphoneConnectionId[s]] # "NONE"

RelayInv == TypeOK /\ StoreInv /\ UsedAreOpened /\ DeliveredToParties

-----------------------------------------------------------------------------
(* Part 1: the methods of SessionStore.                                    *)

LEMMA StoreUnchanged ==
    ASSUME StoreInv, UNCHANGED storeVars
    PROVE  StoreInv'
BY DEF StoreInv, StoreTypeOK, StoreLinks, ClientMapSound, SessionBindingSound, RoleIs, Minted,
       storeVars, connVars, sessionVars, bindingVars

LEMMA RegisterConnectionPreserves ==
    ASSUME StoreInv, NEW c \in ConnId, NEW u \in Client, RegisterConnection(c, u),
           c \notin connections, \A s \in SessionId : iphoneConnectionId[s] # c
    PROVE  StoreInv'
<1> USE DEF RegisterConnection, storeVars, connVars, sessionVars, bindingVars
<1>1. StoreTypeOK'
  BY DEF StoreInv, StoreTypeOK
<1>2. StoreLinks'
  BY NoConnDistinct DEF StoreInv, StoreTypeOK, StoreLinks, Minted
<1>3. ClientMapSound'
  BY NoConnDistinct DEF StoreInv, StoreTypeOK, ClientMapSound, RoleIs
<1>4. SessionBindingSound'
  BY NoConnDistinct DEF StoreInv, StoreTypeOK, SessionBindingSound, RoleIs
<1> QED BY <1>1, <1>2, <1>3, <1>4 DEF StoreInv

\* The sessions lost with a set of connections are those served by one of them.
LEMMA LostSessions ==
    ASSUME StoreInv, NEW gone \in SUBSET connections, NEW s \in sessions
    PROVE  s \in Walked({c \in gone : auth[c] \in Cli}) <=> cliConnectionId[s] \in gone
BY NoConnDistinct DEF Walked, StoreInv, StoreTypeOK, StoreLinks, SessionBindingSound, RoleIs, Minted

LEMMA UnregisterConnectionsPreserves ==
    ASSUME StoreInv, NEW C \in SUBSET ConnId, UnregisterConnections(C)
    PROVE  StoreInv'
<1> DEFINE gone == C \cap connections
<1> USE DEF UnregisterConnections, ClientMapWithout, Walked, storeVars, connVars, sessionVars, bindingVars
<1>1. StoreTypeOK'
  BY DEF StoreInv, StoreTypeOK, Status
<1>2. StoreLinks'
  BY NoConnDistinct DEF StoreInv, StoreTypeOK, StoreLinks, Minted
<1>3. ClientMapSound'
  BY NoConnDistinct DEF StoreInv, StoreTypeOK, ClientMapSound, RoleIs
<1> DEFINE lost == Walked({c \in gone : auth[c] \in Cli})
<1>a. \A s \in sessions : s \in lost <=> cliConnectionId[s] \in gone
  BY LostSessions
<1>b. \A c \in connections \ gone : \A s \in sessionIds[c] : s \notin lost
  BY <1>a DEF StoreInv, SessionBindingSound
<1>c. ASSUME NEW s \in sessions
      PROVE  /\ (status[s] = "active" <=> cliConnectionId[s] # NoConn)'
             /\ (cliConnectionId[s] # NoConn =>
                   /\ RoleIs(cliConnectionId[s], {owner[s]})
                   /\ s \in sessionIds[cliConnectionId[s]])'
  <2>1. CASE s \in lost
    BY <2>1 DEF StoreInv, StoreTypeOK
  <2>2. CASE s \notin lost
    BY <1>a, <2>2 DEF StoreInv, StoreTypeOK, SessionBindingSound, RoleIs
  <2> QED BY <2>1, <2>2
<1>d. ASSUME NEW c \in connections', NEW s \in sessionIds'[c]
      PROVE  s \in sessions' /\ cliConnectionId'[s] = c
  BY <1>b DEF StoreInv, StoreTypeOK, SessionBindingSound
<1>4. SessionBindingSound'
  BY <1>c, <1>d DEF SessionBindingSound
<1> QED BY <1>1, <1>2, <1>3, <1>4 DEF StoreInv

LEMMA CreateSessionPreserves ==
    ASSUME StoreInv, NEW s \in SessionId, NEW c \in connections, auth[c] \in Cli, CreateSession(s, c)
    PROVE  StoreInv'
<1> USE DEF CreateSession
<1>1. StoreTypeOK'
  BY DEF StoreInv, StoreTypeOK, Status
<1>2. StoreLinks'
  BY NoConnDistinct, NoClientDistinct DEF StoreInv, StoreTypeOK, StoreLinks, Minted
<1>3. ClientMapSound'
  BY NoConnDistinct DEF StoreInv, StoreTypeOK, ClientMapSound, RoleIs
<1>4. SessionBindingSound'
  BY NoConnDistinct, NoClientDistinct DEF StoreInv, StoreTypeOK, StoreLinks, Minted, SessionBindingSound, RoleIs
<1> QED BY <1>1, <1>2, <1>3, <1>4 DEF StoreInv

LEMMA ForgetPreserves ==
    ASSUME StoreInv, Forget
    PROVE  StoreInv'
BY NoConnDistinct
   DEF StoreInv, Forget, StoreTypeOK, Status, StoreLinks, ClientMapSound, SessionBindingSound, RoleIs, Minted

LEMMA HeartbeatTimesOutPreserves ==
    ASSUME StoreInv, NEW c \in ConnId, HeartbeatTimesOut(c)
    PROVE  StoreInv'
BY DEF StoreInv, HeartbeatTimesOut, StoreTypeOK, StoreLinks, ClientMapSound, SessionBindingSound, RoleIs,
       Minted, sessionVars, bindingVars

-----------------------------------------------------------------------------
(* Part 2: the actions of the server.                                      *)

\* Every message a client sends is a Message of its role.
LEMMA InboundMessages ==
    ASSUME NEW c \in ConnId, NEW m \in Inbound(c), auth[c] \in Client
    PROVE  /\ m \in Message
           /\ auth[c] \in Cli /\ m.type \notin PingType => m.type \in CliType \ PhoneType
           /\ auth[c] \in Phone /\ m.type \notin PingType => m.type \in PhoneType \ CliType
BY RolesDisjoint
   DEF Inbound, Message, Msg, Minted, Client, CliType, PhoneType, PingType, ReplyType

\* What SendTo sends is well-typed and goes to the given connection.
LEMMA SendToTyped ==
    ASSUME StoreTypeOK, NEW c \in ConnId \cup {NoConn},
           NEW m \in Message \cup SessionListMessage
    PROVE  /\ SendTo(c, m) \in SUBSET [to : ConnId, via : ConnId, msg : Message \cup SessionListMessage]
           /\ \A d \in SendTo(c, m) : d.to = c /\ d.msg = m /\ c \in connections
BY DEF SendTo, Reachable, StoreTypeOK

LEMMA BroadcastTyped ==
    ASSUME StoreTypeOK, StoreLinks, ClientMapSound, NEW m \in Message
    PROVE  /\ BroadcastToRole(Phone, m) \in SUBSET [to : ConnId, via : ConnId, msg : Message \cup SessionListMessage]
           /\ \A d \in BroadcastToRole(Phone, m) : auth[d.to] \in Phone /\ d.msg = m
BY NoConnDistinct
   DEF BroadcastToRole, Reachable, StoreTypeOK, StoreLinks, ClientMapSound, RoleIs, Client

\* The four ways a message can change the store.
LEMMA HandleMessageKeepsStore ==
    ASSUME RelayInv, NEW c \in ConnId, NEW m \in Inbound(c), HandleMessage(c, m)
    PROVE  /\ StoreInv'
           /\ auth' = auth /\ connections' = connections /\ owner' = owner
           /\ \A s \in SessionId : iphoneConnectionId'[s] \in {iphoneConnectionId[s], c}
           /\ \A s \in SessionId : iphoneConnectionId'[s] # iphoneConnectionId[s] => c \in connections
<1> USE DEF RelayInv
<1> SUFFICES ASSUME StoreInv, StoreTypeOK PROVE
           /\ StoreInv'
           /\ auth' = auth /\ connections' = connections /\ owner' = owner
           /\ \A s \in SessionId : iphoneConnectionId'[s] \in {iphoneConnectionId[s], c}
           /\ \A s \in SessionId : iphoneConnectionId'[s] # iphoneConnectionId[s] => c \in connections
  BY DEF StoreInv
<1>1. CASE UNCHANGED storeVars
  BY <1>1, StoreUnchanged DEF storeVars, connVars, sessionVars, bindingVars
<1>2. CASE HandleHeartbeat(c, m)
  BY <1>2 DEF HandleHeartbeat, UpdateHeartbeat, StoreInv, StoreTypeOK, StoreLinks, ClientMapSound,
     SessionBindingSound, RoleIs, Minted, sessionVars, bindingVars
<1>3. CASE RouteFromCLI(m)
  BY <1>3 DEF RouteFromCLI, StoreInv, StoreTypeOK, StoreLinks, ClientMapSound,
     SessionBindingSound, RoleIs, Minted, connVars
<1>4. CASE RoleIs(c, Phone) /\ RouteFromIPhone(c, m)
  <2>1. isBusy' \in [SessionId -> BOOLEAN]
    BY <1>4 DEF RouteFromIPhone, SetBusy, StoreTypeOK
  <2>2. /\ iphoneConnectionId' \in [SessionId -> ConnId \cup {NoConn}]
        /\ \A s \in SessionId : iphoneConnectionId'[s] \in {iphoneConnectionId[s], c}
    BY <1>4 DEF RouteFromIPhone, BindIphone, StoreTypeOK
  <2>3. UNCHANGED <<connVars, sessions, cliConnectionId, status, owner>> /\ auth[c] \in Phone /\ c \in connections
    BY <1>4 DEF RouteFromIPhone, RoleIs
  <2> QED
    BY <2>1, <2>2, <2>3 DEF StoreInv, StoreTypeOK, StoreLinks, ClientMapSound, SessionBindingSound,
       RoleIs, Minted, connVars
<1> QED
  BY <1>1, <1>2, <1>3, <1>4 DEF HandleMessage, Drop, HandleSessionListRequest

\* What a message makes the relay send is well-typed and stays with the parties.
LEMMA HandleMessageSends ==
    ASSUME RelayInv, NEW c \in ConnId, NEW m \in Inbound(c), HandleMessage(c, m)
    PROVE  /\ sent' \in SUBSET [to : ConnId, via : ConnId, msg : Message \cup SessionListMessage]
           /\ \A d \in sent' : /\ d.msg.type \in PhoneType => auth[d.to] = owner[d.msg.sid]
                               /\ d.msg.type \in CliType   => auth[d.to] \in Phone
<1>0. StoreTypeOK /\ StoreLinks /\ ClientMapSound /\ SessionBindingSound
  BY DEF RelayInv, StoreInv
<1>1. CASE Drop(c, m)
  BY <1>1 DEF Drop
<1>2. CASE c \in connections /\ HandleHeartbeat(c, m)
  <2>1. Msg("heartbeat_ack", NoSession) \in Message
    BY DEF Msg, Message, ReplyType
  <2>2. Msg("heartbeat_ack", NoSession).type \notin PhoneType \cup CliType
    BY DEF Msg, PhoneType, CliType
  <2> QED BY <1>0, <1>2, <2>1, <2>2, SendToTyped DEF HandleHeartbeat
<1>3. CASE RoleIs(c, Cli) /\ m.type \notin PingType /\ RouteFromCLI(m)
  <2>1. m \in Message /\ m.type \in CliType \ PhoneType
    BY <1>3, InboundMessages DEF RoleIs, Client
  <2>2. CASE iphoneConnectionId[m.sid] # NoConn
    <3>1. m.sid \in SessionId /\ iphoneConnectionId[m.sid] \in ConnId /\ auth[iphoneConnectionId[m.sid]] \in Phone
      BY <1>0, <1>3, <2>2 DEF RouteFromCLI, StoreTypeOK, StoreLinks
    <3>2. sent' = SendTo(iphoneConnectionId[m.sid], m)
      BY <1>3, <2>2 DEF RouteFromCLI
    <3> QED BY <1>0, <2>1, <3>1, <3>2, SendToTyped
  <2>3. CASE iphoneConnectionId[m.sid] = NoConn
    <3>1. sent' = BroadcastToRole(Phone, m)
      BY <1>3, <2>3 DEF RouteFromCLI
    <3> QED BY <1>0, <2>1, <3>1, BroadcastTyped
  <2> QED BY <2>2, <2>3
<1>4. CASE RoleIs(c, Phone) /\ HandleSessionListRequest(c, m)
  <2>1. [type |-> "session_list", list |-> sessions] \in SessionListMessage
    BY <1>0 DEF SessionListMessage, StoreTypeOK
  <2>2. [type |-> "session_list", list |-> sessions].type \notin PhoneType \cup CliType
    BY DEF PhoneType, CliType
  <2> QED BY <1>0, <1>4, <2>1, <2>2, SendToTyped DEF HandleSessionListRequest
<1>5. CASE RoleIs(c, Phone) /\ m.type \notin PingType /\ RouteFromIPhone(c, m)
  <2>1. m \in Message /\ m.type \in PhoneType \ CliType
    BY <1>5, InboundMessages DEF RoleIs, Client
  <2>2. CASE m.sid \in sessions /\ cliConnectionId[m.sid] # NoConn
    <3>1. sent' = SendTo(cliConnectionId[m.sid], m)
      BY <1>5, <2>2 DEF RouteFromIPhone
    <3>2. cliConnectionId[m.sid] \in ConnId /\ auth[cliConnectionId[m.sid]] = owner[m.sid]
      BY <1>0, <2>2 DEF SessionBindingSound, RoleIs, StoreTypeOK
    <3> QED BY <1>0, <2>1, <3>1, <3>2, SendToTyped
  <2>3. CASE ~(m.sid \in sessions /\ cliConnectionId[m.sid] # NoConn)
    <3>1. sent' = SendTo(c, Msg("cli_offline", m.sid))
      BY <1>5, <2>3 DEF RouteFromIPhone
    <3>2. Msg("cli_offline", m.sid) \in Message /\ Msg("cli_offline", m.sid).type \notin PhoneType \cup CliType
      BY <2>1 DEF Msg, Message, ReplyType, PhoneType, CliType
    <3> QED BY <1>0, <3>1, <3>2, SendToTyped
  <2> QED BY <2>2, <2>3
<1> QED BY <1>1, <1>2, <1>3, <1>4, <1>5 DEF HandleMessage

\* The credentials and codes stay well-typed whatever auth.ts does.
AuthStep ==
    \/ \E u \in Cli : RegisterCLI(u)
    \/ \E u \in Cli, k \in PairCode : GeneratePairCode(u, k)
    \/ \E p \in Phone, k \in PairCode : PairIPhone(p, k)
    \/ CleanupExpiredPairCodes
    \/ \E u \in Client : TokenExpires(u)
    \/ \E k \in PairCode : PairCodeExpires(k)
    \/ ForgetCodes
    \/ UNCHANGED authVars

LEMMA AuthStepTyped ==
    ASSUME AuthTypeOK, AuthStep
    PROVE  AuthTypeOK'
<1> USE NoClientDistinct DEF AuthTypeOK, Live, Client
<1>1. ASSUME NEW u \in Cli, RegisterCLI(u) PROVE AuthTypeOK'
  BY <1>1 DEF RegisterCLI
<1>2. ASSUME NEW u \in Cli, NEW k \in PairCode, GeneratePairCode(u, k) PROVE AuthTypeOK'
  BY <1>2 DEF GeneratePairCode
<1>3. ASSUME NEW p \in Phone, NEW k \in PairCode, PairIPhone(p, k) PROVE AuthTypeOK'
  BY <1>3 DEF PairIPhone
<1>4. CASE CleanupExpiredPairCodes
  BY <1>4 DEF CleanupExpiredPairCodes
<1>5. ASSUME NEW u \in Client, TokenExpires(u) PROVE AuthTypeOK'
  BY <1>5 DEF TokenExpires
<1>6. ASSUME NEW k \in PairCode, PairCodeExpires(k) PROVE AuthTypeOK'
  BY <1>6 DEF PairCodeExpires
<1>7. CASE ForgetCodes
  BY <1>7 DEF ForgetCodes
<1>8. CASE UNCHANGED authVars
  BY <1>8 DEF authVars
<1> QED BY <1>1, <1>2, <1>3, <1>4, <1>5, <1>6, <1>7, <1>8 DEF AuthStep

LEMMA NextIsAuthStep ==
    ASSUME [Next]_vars
    PROVE  AuthStep
<1>1. ASSUME NEW c \in ConnId, NEW m, OnMessage(c, m) PROVE AuthStep
  BY <1>1 DEF OnMessage, AuthStep
<1>2. ASSUME NEW u \in Client, NEW c \in ConnId, Connection(u, c) \/ RejectConnection(u, c) PROVE AuthStep
  BY <1>2 DEF Connection, RejectConnection, AuthStep
<1>3. ASSUME NEW c \in ConnId, PeerCloses(c) \/ OnClose(c) PROVE AuthStep
  BY <1>3 DEF PeerCloses, OnClose, AuthStep
<1>4. CASE HeartbeatCheck \/ Sigint \/ Exit \/ Crash \/ TimePasses
  BY <1>4 DEF HeartbeatCheck, Sigint, Exit, Crash, Restart, TimePasses, AuthStep
<1>5. CASE \/ \E u \in Cli : PostCliRegister(u)
           \/ \E u \in Cli, k \in PairCode : PostPairCodeGenerate(u, k)
           \/ \E p \in Phone, k \in PairCode : PostIphonePair(p, k)
           \/ \E u \in Cli, s \in SessionId : PostSessions(u, s)
  BY <1>5 DEF PostCliRegister, PostPairCodeGenerate, PostIphonePair, PostSessions, Http, AuthStep
<1>6. CASE UNCHANGED vars
  BY <1>6 DEF vars, AuthStep
<1> QED BY <1>1, <1>2, <1>3, <1>4, <1>5, <1>6 DEF Next

\* A step that sends nothing, leaves opened sockets opened and leads to a good
\* store that uses no new connection identifier keeps the rest of RelayInv.
LEMMA QuietStep ==
    ASSUME RelayInv, AuthTypeOK', StoreInv',
           sent' = {},
           readyState' \in [ConnId -> ReadyState],
           \A c \in ConnId : readyState[c] # "NONE" => readyState'[c] # "NONE",
           stopping' \in BOOLEAN,
           connections' \subseteq connections,
           \A s \in SessionId : iphoneConnectionId'[s] \in {iphoneConnectionId[s], NoConn}
    PROVE  RelayInv'
<1>1. TypeOK'
  BY DEF TypeOK, StoreInv, RouterTypeOK
<1>2. UsedAreOpened'
  BY DEF RelayInv, UsedAreOpened, TypeOK, StoreTypeOK
<1>3. DeliveredToParties'
  BY DEF DeliveredToParties
<1> QED BY <1>1, <1>2, <1>3 DEF RelayInv

LEMMA InitEstablishes == Init => RelayInv
<1> SUFFICES ASSUME Init PROVE RelayInv
  OBVIOUS
<1> USE NoClientDistinct, NoConnDistinct DEF Init, StoreInit, RouterInit, AuthInit
<1>1. StoreTypeOK
  BY DEF StoreTypeOK, Status
<1>2. RouterTypeOK /\ stopping \in BOOLEAN
  BY DEF RouterTypeOK, ReadyState
<1>3. AuthTypeOK
  BY DEF AuthTypeOK, Client, Live
<1>4. StoreLinks /\ ClientMapSound /\ SessionBindingSound
  BY DEF StoreLinks, ClientMapSound, SessionBindingSound, RoleIs, Minted
<1>5. UsedAreOpened /\ DeliveredToParties
  BY DEF UsedAreOpened, DeliveredToParties
<1> QED BY <1>1, <1>2, <1>3, <1>4, <1>5 DEF RelayInv, StoreInv, TypeOK

LEMMA NextPreserves == RelayInv /\ [Next]_vars => RelayInv'
<1> SUFFICES ASSUME RelayInv, [Next]_vars PROVE RelayInv'
  OBVIOUS
<1> AuthTypeOK'
  BY NextIsAuthStep, AuthStepTyped DEF RelayInv, TypeOK
<1> StoreInv /\ StoreTypeOK /\ RouterTypeOK /\ stopping \in BOOLEAN
  BY DEF RelayInv, TypeOK
<1>1. ASSUME NEW u \in Cli, PostCliRegister(u) PROVE RelayInv'
  BY <1>1, StoreUnchanged, QuietStep
     DEF PostCliRegister, Http, storeVars, connVars, sessionVars, bindingVars, RouterTypeOK
<1>2. ASSUME NEW u \in Cli, NEW k \in PairCode, PostPairCodeGenerate(u, k) PROVE RelayInv'
  BY <1>2, StoreUnchanged, QuietStep
     DEF PostPairCodeGenerate, Http, storeVars, connVars, sessionVars, bindingVars, RouterTypeOK
<1>3. ASSUME NEW p \in Phone, NEW k \in PairCode, PostIphonePair(p, k) PROVE RelayInv'
  BY <1>3, StoreUnchanged, QuietStep
     DEF PostIphonePair, Http, storeVars, connVars, sessionVars, bindingVars, RouterTypeOK
<1>4. ASSUME NEW u \in Cli, NEW s \in SessionId, PostSessions(u, s) PROVE RelayInv'
  <2>1. clientIdToConnId[u] \in connections /\ auth[clientIdToConnId[u]] \in Cli
    BY <1>4 DEF PostSessions, Http, StoreInv, ClientMapSound, RoleIs, Client
  <2>2. CreateSession(s, clientIdToConnId[u]) /\ sent' = {} /\ UNCHANGED <<readyState, stopping>>
    BY <1>4 DEF PostSessions, Http
  <2>3. StoreInv'
    BY <2>1, <2>2, CreateSessionPreserves
  <2>4. connections' = connections /\ \A t \in SessionId : iphoneConnectionId'[t] \in {iphoneConnectionId[t], NoConn}
    BY <2>2 DEF CreateSession, StoreTypeOK
  <2> QED BY <2>2, <2>3, <2>4, QuietStep DEF RouterTypeOK
<1>5. ASSUME NEW u \in Client, NEW c \in ConnId, Connection(u, c) PROVE RelayInv'
  <2>1. /\ readyState[c] = "NONE" /\ RegisterConnection(c, u)
        /\ readyState' = [readyState EXCEPT ![c] = "OPEN"] /\ stopping' = stopping
        /\ sent' = {[to |-> c, via |-> c, msg |-> Msg("init", NoSession)]}
    BY <1>5 DEF Connection
  <2>2. c \notin connections /\ \A s \in SessionId : iphoneConnectionId[s] # c
    BY <2>1, NoConnDistinct DEF RelayInv, UsedAreOpened
  <2>3. StoreInv'
    BY <2>1, <2>2, RegisterConnectionPreserves
  <2>4. connections' = connections \cup {c} /\ iphoneConnectionId' = iphoneConnectionId
    BY <2>1 DEF RegisterConnection, sessionVars, bindingVars
  <2>5. UsedAreOpened'
    BY <2>1, <2>4, NoConnDistinct DEF RelayInv, UsedAreOpened, RouterTypeOK, StoreTypeOK
  <2>6. Msg("init", NoSession) \in Message /\ Msg("init", NoSession).type \notin PhoneType \cup CliType
    BY DEF Msg, Message, ReplyType, PhoneType, CliType
  <2>7. RouterTypeOK' /\ DeliveredToParties'
    BY <2>1, <2>6 DEF RouterTypeOK, ReadyState, DeliveredToParties
  <2> QED BY <2>1, <2>3, <2>5, <2>7 DEF RelayInv, TypeOK, StoreInv
<1>6. ASSUME NEW u \in Client, NEW c \in ConnId, RejectConnection(u, c) PROVE RelayInv'
  BY <1>6, StoreUnchanged, QuietStep
     DEF RejectConnection, storeVars, connVars, sessionVars, bindingVars, RouterTypeOK, ReadyState
<1>7. ASSUME NEW c \in ConnId, NEW m \in Inbound(c), OnMessage(c, m) PROVE RelayInv'
  <2>1. HandleMessage(c, m) /\ readyState' = readyState /\ stopping' = stopping
    BY <1>7 DEF OnMessage
  <2>2. /\ StoreInv' /\ auth' = auth /\ connections' = connections /\ owner' = owner
        /\ \A s \in SessionId : iphoneConnectionId'[s] \in {iphoneConnectionId[s], c}
        /\ \A s \in SessionId : iphoneConnectionId'[s] # iphoneConnectionId[s] => c \in connections
    BY <2>1, HandleMessageKeepsStore
  <2>3. RouterTypeOK' /\ DeliveredToParties'
    BY <2>1, <2>2, HandleMessageSends DEF RouterTypeOK, DeliveredToParties
  <2>4. UsedAreOpened'
    BY <2>1, <2>2 DEF RelayInv, UsedAreOpened
  <2> QED BY <2>1, <2>2, <2>3, <2>4 DEF RelayInv, TypeOK, StoreInv
<1>8. ASSUME NEW c \in ConnId, PeerCloses(c) PROVE RelayInv'
  BY <1>8, StoreUnchanged, QuietStep
     DEF PeerCloses, storeVars, connVars, sessionVars, bindingVars, RouterTypeOK, ReadyState
<1>9. ASSUME NEW C \in SUBSET ConnId, UnregisterConnections(C), sent' = {}, stopping' = stopping,
             readyState' \in [ConnId -> ReadyState],
             \A c \in ConnId : readyState[c] # "NONE" => readyState'[c] # "NONE"
      PROVE  RelayInv'
  <2>1. StoreInv'
    BY <1>9, UnregisterConnectionsPreserves
  <2>2. connections' \subseteq connections /\ \A s \in SessionId : iphoneConnectionId'[s] \in {iphoneConnectionId[s], NoConn}
    BY <1>9 DEF UnregisterConnections, StoreTypeOK
  <2> QED BY <1>9, <2>1, <2>2, QuietStep
<1>10. ASSUME NEW c \in ConnId, OnClose(c) PROVE RelayInv'
  BY <1>9, <1>10 DEF OnClose, RouterTypeOK, ReadyState
<1>11. CASE HeartbeatCheck
  BY <1>9, <1>11 DEF HeartbeatCheck, RouterTypeOK, ReadyState, StoreTypeOK
<1>12. CASE Sigint
  BY <1>12, StoreUnchanged, QuietStep
     DEF Sigint, storeVars, connVars, sessionVars, bindingVars, RouterTypeOK, ReadyState
<1>13. CASE Restart
  BY <1>13, ForgetPreserves, QuietStep DEF Restart, Forget, RouterTypeOK, ReadyState
<1>14. CASE TimePasses
  <2>1. StoreInv'
    BY <1>14, HeartbeatTimesOutPreserves, StoreUnchanged DEF TimePasses
  <2>2. UNCHANGED <<connections, iphoneConnectionId, readyState, stopping>> /\ sent' = {}
    BY <1>14 DEF TimePasses, HeartbeatTimesOut, storeVars, connVars, sessionVars, bindingVars
  <2> QED BY <2>1, <2>2, QuietStep DEF RouterTypeOK
<1>15. CASE UNCHANGED vars
  <2>1. StoreInv'
    BY <1>15, StoreUnchanged DEF vars
  <2>2. UNCHANGED <<auth, owner, connections, iphoneConnectionId, readyState, stopping, sent>>
    BY <1>15 DEF vars, routerVars, storeVars, connVars, sessionVars, bindingVars
  <2> QED BY <2>1, <2>2 DEF RelayInv, TypeOK, StoreInv, RouterTypeOK, UsedAreOpened, DeliveredToParties
<1> QED
  BY <1>1, <1>2, <1>3, <1>4, <1>5, <1>6, <1>7, <1>8, <1>10, <1>11, <1>12, <1>13, <1>14, <1>15
     DEF Next, Exit, Crash

-----------------------------------------------------------------------------
(* The theorems.                                                           *)

\* RelayInv holds in every reachable state.
THEOREM RelayInvariant == Spec => []RelayInv
BY InitEstablishes, NextPreserves, PTL DEF Spec

\* Every variable keeps its type.
THEOREM TypeCorrect == Spec => []TypeOK
BY RelayInvariant, PTL DEF RelayInv

\* clientIdToConnId points only at registered connections of the right client.
THEOREM ClientMapCorrect == Spec => []ClientMapSound
BY RelayInvariant, PTL DEF RelayInv, StoreInv

\* Sessions and CLI connections always agree about each other.
THEOREM SessionBindingCorrect == Spec => []SessionBindingSound
BY RelayInvariant, PTL DEF RelayInv, StoreInv

\* Messages reach only the parties of their session.
THEOREM DeliveryCorrect == Spec => []DeliveredToParties
BY RelayInvariant, PTL DEF RelayInv

-----------------------------------------------------------------------------
(* Pair codes.                                                             *)

LEMMA LatestCodePreserved ==
    ASSUME AuthTypeOK, OnlyLatestCodeWorks, AuthStep
    PROVE  OnlyLatestCodeWorks'
<1> USE NoClientDistinct DEF AuthTypeOK, OnlyLatestCodeWorks, Live, Client
<1>1. ASSUME NEW u \in Cli, RegisterCLI(u) PROVE OnlyLatestCodeWorks'
  BY <1>1 DEF RegisterCLI
<1>2. ASSUME NEW u \in Cli, NEW k \in PairCode, GeneratePairCode(u, k) PROVE OnlyLatestCodeWorks'
  BY <1>2 DEF GeneratePairCode
<1>3. ASSUME NEW p \in Phone, NEW k \in PairCode, PairIPhone(p, k) PROVE OnlyLatestCodeWorks'
  BY <1>3 DEF PairIPhone
<1>4. CASE CleanupExpiredPairCodes
  BY <1>4 DEF CleanupExpiredPairCodes
<1>5. ASSUME NEW u \in Client, TokenExpires(u) PROVE OnlyLatestCodeWorks'
  BY <1>5 DEF TokenExpires
<1>6. ASSUME NEW k \in PairCode, PairCodeExpires(k) PROVE OnlyLatestCodeWorks'
  BY <1>6 DEF PairCodeExpires
<1>7. CASE ForgetCodes
  BY <1>7 DEF ForgetCodes
<1>8. CASE UNCHANGED authVars
  BY <1>8 DEF authVars
<1> QED BY <1>1, <1>2, <1>3, <1>4, <1>5, <1>6, <1>7, <1>8 DEF AuthStep

\* An earlier code of a CLI never works again.
THEOREM LatestCodeOnly == Spec => []OnlyLatestCodeWorks
<1>1. Init => OnlyLatestCodeWorks
  BY DEF Init, AuthInit, OnlyLatestCodeWorks, Live
<1>2. TypeOK /\ OnlyLatestCodeWorks /\ [Next]_vars => OnlyLatestCodeWorks'
  BY NextIsAuthStep, LatestCodePreserved DEF TypeOK
<1> QED BY <1>1, <1>2, TypeCorrect, PTL DEF Spec

\* A phone is admitted by the latest code of a CLI, which it uses up.
THEOREM AdmittedByLatest == Spec => AdmittedByLatestCode
<1> DEFINE Admission == \A p \in Phone : token[p] = "none" /\ token'[p] = "valid" =>
                           \E u \in Cli : LET k == shown[u] IN
                              /\ k \in PairCode \ expiredCodes
                              /\ pairCodes[k] = u
                              /\ pairCodes'[k] = NoClient
<1>1. ASSUME AuthTypeOK, OnlyLatestCodeWorks, AuthStep PROVE Admission
  <2> SUFFICES ASSUME NEW p \in Phone, token[p] = "none", token'[p] = "valid"
               PROVE  \E u \in Cli : LET k == shown[u] IN
                              /\ k \in PairCode \ expiredCodes
                              /\ pairCodes[k] = u
                              /\ pairCodes'[k] = NoClient
    OBVIOUS
  <2>1. PICK q \in Phone, k \in PairCode : PairIPhone(q, k)
    BY <1>1, RolesDisjoint
       DEF AuthStep, RegisterCLI, GeneratePairCode, CleanupExpiredPairCodes, TokenExpires, PairCodeExpires,
           ForgetCodes, authVars, AuthTypeOK, Client
  <2>2. k \notin expiredCodes /\ Live(k) /\ pairCodes'[k] = NoClient
    BY <1>1, <2>1 DEF PairIPhone, AuthTypeOK
  <2>3. pairCodes[k] \in Cli /\ shown[pairCodes[k]] = k
    BY <1>1, <2>2 DEF AuthTypeOK, OnlyLatestCodeWorks, Live
  <2> QED BY <2>1, <2>2, <2>3
<1>2. TypeOK /\ OnlyLatestCodeWorks /\ [Next]_vars => [Admission]_vars
  BY <1>1, NextIsAuthStep DEF TypeOK
<1> QED BY <1>2, TypeCorrect, LatestCodeOnly, PTL DEF Spec, AdmittedByLatestCode

-----------------------------------------------------------------------------
(* The relay implements SessionLifecycle.                                  *)

LEMMA LifecycleInit == Init => Lifecycle!Init
BY NoClientDistinct DEF Init, StoreInit, Lifecycle!Init, Life, Minted

\* Steps that leave the sessions' status and owners alone are invisible.
LEMMA LifecycleStutter ==
    ASSUME UNCHANGED <<sessions, status, owner>>
    PROVE  UNCHANGED Lifecycle!lifeVars
BY DEF Lifecycle!lifeVars, Life, Minted

LEMMA LifecycleOpen ==
    ASSUME StoreInv, NEW s \in SessionId, NEW c \in connections, auth[c] \in Cli, CreateSession(s, c)
    PROVE  Lifecycle!Open(s, auth[c])
<1>1. s \notin Minted /\ s \notin sessions
  BY DEF CreateSession, StoreInv, StoreLinks
<1>2. sessions' = sessions \cup {s} /\ Minted' = Minted \cup {s}
  BY NoClientDistinct DEF CreateSession, Minted, StoreInv, StoreTypeOK
<1>3. status' = [status EXCEPT ![s] = "active"] /\ owner' = [owner EXCEPT ![s] = auth[c]]
  BY DEF CreateSession
<1>4. Life[s] = "unborn"
  BY <1>1 DEF Life
<1>5. Life'[s] = "served"
  BY <1>1, <1>2, <1>3 DEF Life, StoreInv, StoreTypeOK
<1>6. ASSUME NEW r \in SessionId \ {s} PROVE Life'[r] = Life[r]
  BY <1>2, <1>3 DEF Life, StoreInv, StoreTypeOK
<1>7. Life' = [Life EXCEPT ![s] = "served"]
  BY <1>5, <1>6 DEF Life
<1> QED BY <1>3, <1>4, <1>7 DEF Lifecycle!Open

LEMMA LifecycleOrphan ==
    ASSUME StoreInv, NEW C \in SUBSET ConnId, UnregisterConnections(C)
    PROVE  \E S \in SUBSET SessionId : Lifecycle!Orphan(S)
<1> DEFINE gone == C \cap connections
           lost == Walked({c \in gone : auth[c] \in Cli})
<1>1. lost \subseteq sessions /\ sessions \subseteq SessionId /\ sessions \subseteq Minted
  BY DEF Walked, StoreInv, StoreTypeOK, StoreLinks
<1>2. ASSUME NEW s \in lost PROVE status[s] = "active"
  <2>1. s \in sessions /\ gone \in SUBSET connections
    BY <1>1
  <2>2. cliConnectionId[s] \in gone
    BY <2>1, LostSessions
  <2>3. cliConnectionId[s] # NoConn
    BY <2>2, NoConnDistinct
  <2> QED BY <2>1, <2>3 DEF StoreInv, SessionBindingSound
<1>3. /\ UNCHANGED <<sessions, owner>>
      /\ status' = [s \in SessionId |-> IF s \in lost THEN "disconnected" ELSE status[s]]
  BY DEF UnregisterConnections
<1>4. Minted' = Minted
  BY <1>3 DEF Minted
<1>5. \A s \in lost : Life[s] = "served"
  BY <1>1, <1>2 DEF Life
<1>6. Life' = [s \in SessionId |-> IF s \in lost THEN "orphaned" ELSE Life[s]]
  BY <1>1, <1>3, <1>4 DEF Life
<1>7. lost \in SUBSET SessionId /\ Lifecycle!Orphan(lost)
  BY <1>1, <1>3, <1>5, <1>6 DEF Lifecycle!Orphan
<1> QED BY <1>7

LEMMA LifecycleForget ==
    ASSUME StoreInv, Forget
    PROVE  Lifecycle!ForgetAll
<1>1. Minted' = Minted /\ sessions' = {} /\ owner' = owner
  BY DEF Forget, Minted
<1>2. \A s \in SessionId : Life[s] = "unborn" <=> s \notin Minted
  BY DEF Life, StoreInv, StoreLinks
<1>3. Life' = [s \in SessionId |-> IF s \notin Minted THEN "unborn" ELSE "forgotten"]
  BY <1>1 DEF Life
<1> QED BY <1>1, <1>2, <1>3 DEF Lifecycle!ForgetAll

LEMMA LifecycleNext ==
    RelayInv /\ [Next]_vars => [Lifecycle!Next]_(Lifecycle!lifeVars)
<1> SUFFICES ASSUME RelayInv, [Next]_vars PROVE Lifecycle!Next \/ UNCHANGED Lifecycle!lifeVars
  OBVIOUS
<1> StoreInv
  BY DEF RelayInv
<1>1. ASSUME NEW u \in Cli, NEW s \in SessionId, PostSessions(u, s) PROVE Lifecycle!Next
  <2>1. /\ clientIdToConnId[u] \in connections /\ auth[clientIdToConnId[u]] \in Cli
        /\ CreateSession(s, clientIdToConnId[u])
    BY <1>1 DEF PostSessions, Http, StoreInv, ClientMapSound, RoleIs, Client
  <2> QED BY <2>1, LifecycleOpen DEF Lifecycle!Next
<1>2. ASSUME NEW C \in SUBSET ConnId, UnregisterConnections(C) PROVE Lifecycle!Next
  BY <1>2, LifecycleOrphan DEF Lifecycle!Next
<1>3. CASE HeartbeatCheck \/ \E c \in ConnId : OnClose(c)
  BY <1>2, <1>3 DEF HeartbeatCheck, OnClose, StoreInv, StoreTypeOK
<1>4. CASE Exit \/ Crash
  BY <1>4, LifecycleForget DEF Exit, Crash, Restart, Lifecycle!Next
<1>5. ASSUME NEW c \in ConnId, NEW m, OnMessage(c, m) PROVE UNCHANGED <<sessions, status, owner>>
  BY <1>5 DEF OnMessage, HandleMessage, Drop, HandleHeartbeat, RouteFromCLI, HandleSessionListRequest,
     RouteFromIPhone, storeVars, sessionVars, bindingVars
<1>6. CASE \/ \E u \in Cli : PostCliRegister(u)
           \/ \E u \in Cli, k \in PairCode : PostPairCodeGenerate(u, k)
           \/ \E p \in Phone, k \in PairCode : PostIphonePair(p, k)
           \/ \E u \in Client, c \in ConnId : Connection(u, c) \/ RejectConnection(u, c)
           \/ \E c \in ConnId : PeerCloses(c)
           \/ Sigint \/ TimePasses \/ UNCHANGED vars
  BY <1>6, LifecycleStutter
     DEF PostCliRegister, PostPairCodeGenerate, PostIphonePair, Http, Connection, RegisterConnection,
         RejectConnection, PeerCloses, Sigint, TimePasses, HeartbeatTimesOut, vars, storeVars, sessionVars,
         bindingVars
<1> QED BY <1>1, <1>3, <1>4, <1>5, <1>6, LifecycleStutter DEF Next

\* Every behaviour of the relay is one of SessionLifecycle.
THEOREM ImplementsLifecycle == Spec => LifecycleSpec
BY RelayInvariant, LifecycleInit, LifecycleNext, PTL DEF Spec, LifecycleSpec, Lifecycle!Spec

-----------------------------------------------------------------------------
(* What the liveness properties rest on.                                   *)

\* A registered connection has a socket that is open or whose close event is still
\* to come, an open socket is registered, and none is open once SIGINT has come.
SocketsInv ==
    /\ \A c \in connections : readyState[c] \in {"OPEN", "CLOSING"}
    /\ \A c \in ConnId : readyState[c] = "OPEN" => c \in connections
    /\ stopping => \A c \in ConnId : readyState[c] # "OPEN"

\* Between SIGINT and the exit sockets only go from closing to closed.
OnlyCloses ==
    stopping /\ stopping' =>
        \A c \in ConnId : readyState'[c] # readyState[c] =>
            readyState[c] = "CLOSING" /\ readyState'[c] = "CLOSED"

LEMMA StepOnSockets ==
    ASSUME RelayInv, SocketsInv, [Next]_vars
    PROVE  SocketsInv' /\ OnlyCloses
<1>0. /\ readyState \in [ConnId -> ReadyState] /\ connections \in SUBSET ConnId
      /\ late \in SUBSET connections
  BY DEF RelayInv, TypeOK, RouterTypeOK, StoreTypeOK
<1>1. ASSUME UNCHANGED <<connections, readyState, stopping>>
      PROVE  SocketsInv' /\ OnlyCloses
  BY <1>1 DEF SocketsInv, OnlyCloses
<1>2. ASSUME NEW u \in Client, NEW c \in ConnId, Connection(u, c) PROVE SocketsInv' /\ OnlyCloses
  <2>1. /\ connections' = connections \cup {c} /\ ~stopping' /\ ~stopping
        /\ readyState' = [readyState EXCEPT ![c] = "OPEN"]
    BY <1>2 DEF Connection, Listening, RegisterConnection
  <2> QED BY <1>0, <2>1 DEF SocketsInv, OnlyCloses
<1>3. ASSUME NEW u \in Client, NEW c \in ConnId, RejectConnection(u, c) PROVE SocketsInv' /\ OnlyCloses
  <2>1. /\ connections' = connections /\ ~stopping' /\ ~stopping /\ readyState[c] = "NONE"
        /\ readyState' = [readyState EXCEPT ![c] = "CLOSING"]
    BY <1>3 DEF RejectConnection, Listening, storeVars, connVars
  <2> QED BY <1>0, <2>1 DEF SocketsInv, OnlyCloses
<1>4. ASSUME NEW c \in ConnId, PeerCloses(c) PROVE SocketsInv' /\ OnlyCloses
  <2>1. /\ connections' = connections /\ stopping' = stopping /\ readyState[c] = "OPEN"
        /\ readyState' = [readyState EXCEPT ![c] = "CLOSING"]
    BY <1>4 DEF PeerCloses, storeVars, connVars
  <2> QED BY <1>0, <2>1 DEF SocketsInv, OnlyCloses
<1>5. ASSUME NEW c \in ConnId, OnClose(c) PROVE SocketsInv' /\ OnlyCloses
  <2>1. /\ connections' = connections \ ({c} \cap connections) /\ stopping' = stopping
        /\ readyState[c] = "CLOSING" /\ readyState' = [readyState EXCEPT ![c] = "CLOSED"]
    BY <1>5 DEF OnClose, UnregisterConnections
  <2> QED BY <1>0, <2>1 DEF SocketsInv, OnlyCloses
<1>6. CASE HeartbeatCheck
  <2>1. /\ connections' = connections \ (late \cap connections) /\ stopping' = stopping
        /\ readyState' = [c \in ConnId |->
               IF c \in late /\ readyState[c] = "OPEN" THEN "CLOSING" ELSE readyState[c]]
    BY <1>6 DEF HeartbeatCheck, UnregisterConnections
  <2> QED BY <1>0, <2>1 DEF SocketsInv, OnlyCloses
<1>7. CASE Sigint
  <2>1. /\ connections' = connections /\ ~stopping
        /\ readyState' = [c \in ConnId |-> IF Reachable(c) THEN "CLOSING" ELSE readyState[c]]
    BY <1>7 DEF Sigint, storeVars, connVars
  <2> QED BY <1>0, <2>1 DEF SocketsInv, OnlyCloses, Reachable
<1>8. CASE Exit \/ Crash
  <2>1. /\ connections' = {} /\ ~stopping'
        /\ readyState' = [c \in ConnId |-> IF readyState[c] = "NONE" THEN "NONE" ELSE "CLOSED"]
    BY <1>8 DEF Exit, Crash, Restart, Forget
  <2> QED BY <1>0, <2>1 DEF SocketsInv, OnlyCloses
<1>9. ASSUME NEW c \in ConnId, NEW m, OnMessage(c, m) PROVE SocketsInv' /\ OnlyCloses
  <2>1. connections' = connections
    BY <1>9 DEF OnMessage, HandleMessage, Drop, HandleHeartbeat, RouteFromCLI,
                HandleSessionListRequest, RouteFromIPhone, storeVars, connVars
  <2> QED BY <1>1, <1>9, <2>1 DEF OnMessage
<1>10. CASE \/ \E u \in Cli : PostCliRegister(u)
            \/ \E u \in Cli, k \in PairCode : PostPairCodeGenerate(u, k)
            \/ \E p \in Phone, k \in PairCode : PostIphonePair(p, k)
            \/ \E u \in Cli, s \in SessionId : PostSessions(u, s)
            \/ TimePasses \/ UNCHANGED vars
  <2>1. UNCHANGED <<connections, readyState, stopping>>
    BY <1>10 DEF PostCliRegister, PostPairCodeGenerate, PostIphonePair, PostSessions, Http, CreateSession,
                 TimePasses, HeartbeatTimesOut, vars, routerVars, storeVars, connVars
  <2> QED BY <1>1, <2>1
<1> QED BY <1>2, <1>3, <1>4, <1>5, <1>6, <1>7, <1>8, <1>9, <1>10 DEF Next

\* The store and the sockets agree after every event, signal, crash and restart
\* (server.ts): no open socket is unknown to the heartbeat check.
THEOREM SocketsInvariant == Spec => []SocketsInv
<1>1. Init => SocketsInv
  BY DEF Init, StoreInit, RouterInit, SocketsInv
<1> QED BY <1>1, StepOnSockets, RelayInvariant, PTL DEF Spec

\* DeadCliNoticed's safety half: an active session is tied to a registered connection
\* of its creator whose socket has not emitted close yet, so that the heartbeat check
\* or the close event (server.ts) is still to find out.
ActiveIsWatched ==
    \A s \in sessions : status[s] = "active" =>
        /\ RoleIs(cliConnectionId[s], {owner[s]})
        /\ readyState[cliConnectionId[s]] \in {"OPEN", "CLOSING"}

\* No session is active with nobody left to notice that its CLI has gone.
THEOREM ActiveIsWatchedCorrect == Spec => []ActiveIsWatched
<1>1. RelayInv /\ SocketsInv => ActiveIsWatched
  BY DEF RelayInv, StoreInv, SessionBindingSound, SocketsInv, ActiveIsWatched, RoleIs
<1> QED BY <1>1, RelayInvariant, SocketsInvariant, PTL

\* ShutdownFinishes' safety half: after SIGINT no socket is open or opens, so that
\* the last close event lets the process exit (server.ts, SIGINT handler).
THEOREM ShutdownOnlyCloses == Spec => [][OnlyCloses]_vars
BY StepOnSockets, RelayInvariant, SocketsInvariant, PTL DEF Spec

-----------------------------------------------------------------------------
\* The branch of unregisterConnection that should undo a phone's binding never runs
\* (sessionStore.ts): no phone's connection lists a session, and so a session that a
\* phone has once written to is never without one until the relay restarts.  This is
\* the extent of the divergence PhoneUnboundOnDisconnect shows on an instance.
NeverUnbound ==
    /\ \A c \in connections : auth[c] \in Phone => sessionIds[c] = {}
    /\ \A s \in sessions \cap sessions' :
          iphoneConnectionId[s] # NoConn => iphoneConnectionId'[s] # NoConn

LEMMA StepKeepsPhone ==
    ASSUME RelayInv, [Next]_vars
    PROVE  NeverUnbound
<1>0. /\ StoreInv /\ connections \in SUBSET ConnId /\ sessions \in SUBSET SessionId
      /\ late \in SUBSET ConnId /\ sessionIds \in [ConnId -> SUBSET SessionId]
      /\ iphoneConnectionId \in [SessionId -> ConnId \cup {NoConn}]
  BY DEF RelayInv, StoreInv, StoreTypeOK
<1>1. \A c \in connections : auth[c] \in Phone => sessionIds[c] = {}
  <2> SUFFICES ASSUME NEW c \in connections, auth[c] \in Phone, NEW s \in sessionIds[c] PROVE FALSE
    OBVIOUS
  <2>1. s \in sessions /\ cliConnectionId[s] = c
    BY <1>0 DEF StoreInv, SessionBindingSound
  <2>2. cliConnectionId[s] # NoConn
    BY <1>0, <2>1, NoConnDistinct
  <2>3. auth[c] = owner[s] /\ owner[s] # NoClient /\ s \in SessionId
    BY <1>0, <2>1, <2>2 DEF StoreInv, SessionBindingSound, RoleIs, StoreLinks, Minted
  <2>4. owner[s] \in Cli
    BY <1>0, <2>3 DEF StoreInv, StoreTypeOK
  <2> QED BY <2>3, <2>4, RolesDisjoint
<1> SUFFICES ASSUME NEW s \in sessions, s \in sessions', iphoneConnectionId[s] # NoConn
             PROVE  iphoneConnectionId'[s] # NoConn
  BY <1>1 DEF NeverUnbound
<1>2. ASSUME NEW C \in SUBSET ConnId, UnregisterConnections(C) PROVE iphoneConnectionId'[s] # NoConn
  <2> DEFINE left == {c \in C \cap connections : auth[c] \in Phone /\ s \in Walked({c})}
  <2>1. left = {}
    BY <1>1 DEF Walked
  <2>2. iphoneConnectionId'[s] = IF iphoneConnectionId[s] \in left THEN NoConn ELSE iphoneConnectionId[s]
    BY <1>0, <1>2 DEF UnregisterConnections
  <2> HIDE DEF left
  <2> QED BY <2>1, <2>2
<1>3. CASE HeartbeatCheck \/ \E c \in ConnId : OnClose(c)
  BY <1>0, <1>2, <1>3 DEF HeartbeatCheck, OnClose
<1>4. CASE Exit \/ Crash
  BY <1>4 DEF Exit, Crash, Restart, Forget
<1>5. ASSUME NEW u \in Cli, NEW r \in SessionId, PostSessions(u, r)
      PROVE  iphoneConnectionId'[s] # NoConn
  <2>1. r \notin Minted /\ iphoneConnectionId' = [iphoneConnectionId EXCEPT ![r] = NoConn]
    BY <1>5 DEF PostSessions, Http, CreateSession
  <2>2. s # r
    BY <1>0, <2>1 DEF StoreInv, StoreLinks
  <2> QED BY <1>0, <2>1, <2>2
<1>6. ASSUME NEW c \in ConnId, NEW m \in Inbound(c), OnMessage(c, m)
      PROVE  iphoneConnectionId'[s] # NoConn
  BY <1>0, <1>6, HandleMessageKeepsStore, NoConnDistinct DEF OnMessage, RelayInv
<1>7. CASE \/ \E u \in Cli : PostCliRegister(u)
           \/ \E u \in Cli, k \in PairCode : PostPairCodeGenerate(u, k)
           \/ \E p \in Phone, k \in PairCode : PostIphonePair(p, k)
           \/ \E u \in Client, c \in ConnId : Connection(u, c) \/ RejectConnection(u, c)
           \/ \E c \in ConnId : PeerCloses(c)
           \/ Sigint \/ TimePasses \/ UNCHANGED vars
  <2>1. iphoneConnectionId' = iphoneConnectionId
    BY <1>7 DEF PostCliRegister, PostPairCodeGenerate, PostIphonePair, Http, Connection, RegisterConnection,
                RejectConnection, PeerCloses, Sigint, TimePasses, HeartbeatTimesOut, vars, storeVars,
                sessionVars, bindingVars
  <2> QED BY <2>1
<1> QED BY <1>3, <1>4, <1>5, <1>6, <1>7 DEF Next

\* sessionStore.ts never unbinds a phone, whatever closes and in whatever order.
THEOREM PhoneNeverUnbound == Spec => [][NeverUnbound]_vars
BY StepKeepsPhone, RelayInvariant, PTL DEF Spec
=============================================================================
