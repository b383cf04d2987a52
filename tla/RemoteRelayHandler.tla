------------------------- MODULE RemoteRelayHandler -------------------------
(***************************************************************************)
(* restored-src/src/cli/handlers/remoteRelay.ts with relayAuth.ts: the     *)
(* steps of "pa remote-relay" against the relay.  Each await is one HTTP   *)
(* request; the relay and the other clients run in between.                *)
(***************************************************************************)
EXTENDS RelayServer

CONSTANT Me \* the clientId, a member of Cli, that this run of the command is given

VARIABLE phase \* where remoteRelayHandler stands: "registering", "pairing",
               \* "creating" the session, "running" or "exited"

handlerVars == <<vars, phase>>

HandlerInit == Init /\ phase = "registering" /\ token[Me] = "none"

GoTo(p) == phase' = p
Fail == GoTo("exited") /\ UNCHANGED vars

\* registerWithRelay fails while the relay does not answer.
Register ==
    /\ phase = "registering"
    /\ \/ PostCliRegister(Me) /\ \E pair \in BOOLEAN : GoTo(IF pair THEN "pairing" ELSE "creating")
       \/ stopping /\ Fail

ShowPairCode ==
    /\ phase = "pairing"
    /\ \/ \E k \in PairCode : PostPairCodeGenerate(Me, k) /\ GoTo("creating")
       \/ (stopping \/ ~Verified(Me)) /\ Fail

\* POST /api/sessions answers 400 without a connection of the client.
CreateRelaySession ==
    /\ phase = "creating"
    /\ \/ \E s \in SessionId : PostSessions(Me, s) /\ GoTo("running")
       \/ (stopping \/ ~Verified(Me) \/ clientIdToConnId[Me] = NoConn) /\ Fail

\* connector.connect(), and every reconnect after it.
ConnectorConnects ==
    /\ phase = "running"
    /\ \E c \in ConnId : Connection(Me, c)
    /\ UNCHANGED phase

\* The relay and its other clients.
Others ==
    /\ \/ \E u \in Cli \ {Me} : PostCliRegister(u)
       \/ \E u \in Client \ {Me}, c \in ConnId : Connection(u, c) \/ RejectConnection(u, c)
       \/ \E c \in ConnId : \E m \in Inbound(c) : OnMessage(c, m)
       \/ \E u \in Cli \ {Me}, s \in SessionId : PostSessions(u, s)
       \/ \E u \in Cli \ {Me}, k \in PairCode : PostPairCodeGenerate(u, k)
       \/ \E p \in Phone, k \in PairCode : PostIphonePair(p, k)
       \/ \E c \in ConnId : PeerCloses(c) \/ OnClose(c)
       \/ HeartbeatCheck
       \/ Sigint
       \/ Exit
       \/ Crash
       \/ TimePasses
    /\ UNCHANGED phase

HandlerNext == Register \/ ShowPairCode \/ CreateRelaySession \/ ConnectorConnects \/ Others

HandlerSpec == HandlerInit /\ [][HandlerNext]_handlerVars

-----------------------------------------------------------------------------
\* remoteRelay.ts:5, "connect to the relay, start the session": the command does
\* not give up while the relay is up and its registration is good.
SessionStarts ==
    [][phase # "exited" /\ phase' = "exited" => stopping \/ ~Verified(Me)]_handlerVars
=============================================================================
