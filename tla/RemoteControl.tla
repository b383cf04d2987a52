--------------------------- MODULE RemoteControl ---------------------------
(***************************************************************************)
(* A phone (ViewModels/ChatViewModel.swift, with the views that offer its  *)
(* operations) drives the agent of RelayAgent through the relay, which     *)
(* keeps the order of messages and, like the connections to it, loses some.*)
(* RelayServer models the relay in full; here it has one session, and of   *)
(* that whether it still names the two connections that matter.            *)
(***************************************************************************)
EXTENDS RelayAgent

CONSTANT MaxDrops \* bound: connections that break

ASSUME DropsAssumption == MaxDrops \in Nat

VARIABLES
    served,    \* session.cliConnectionId is the agent's connection
    linked,    \* the phone's connection to the relay works
    waiting,   \* isWaitingForResponse
    slot,      \* the request in pendingPermission, or 0
    toAgent,   \* messages on their way to the agent
    consent,   \* history: requests that were allowed on the phone
    sent,      \* number of user messages so far
    drops      \* number of connections that broke so far

vars == <<agentVars, served, linked, waiting, slot, toAgent, consent, sent, drops>>

PhoneMessage ==
    [type : {"user", "interrupt"}]
      \cup [type : {"control_response"}, id : Nat, behavior : Behavior]

TypeOK ==
    /\ AgentTypeOK
    /\ served \in BOOLEAN /\ linked \in BOOLEAN /\ waiting \in BOOLEAN
    /\ slot \in 0 .. asked
    /\ consent \in SUBSET (1 .. asked)
    /\ toAgent \in Seq(PhoneMessage)
    /\ sent \in Nat /\ drops \in Nat

Init ==
    /\ AgentInit
    /\ served = TRUE
    /\ linked = TRUE
    /\ waiting = FALSE
    /\ slot = 0
    /\ toAgent = <<>>
    /\ consent = {}
    /\ sent = 0
    /\ drops = 0

-----------------------------------------------------------------------------
(* The phone says something, and routeFromIPhone binds the session to its  *)
(* connection and passes it on.  The notice that the agent is offline adds *)
(* to the phone's list of messages only.  A connection that does not work  *)
(* loses the message, whether or not the phone has noticed.                *)
Transmit(message) ==
    /\ bound' = (bound \/ linked)
    /\ toAgent' = IF linked /\ served THEN Append(toAgent, message) ELSE toAgent
    /\ UNCHANGED <<runs, history, pending, asked, ran, agentUp, toPhone>>

(* A sheet shows pendingPermission and covers the rest of the screen; to   *)
(* swipe it away clears the binding without a call to respondToPermission. *)
SendMessage ==
    /\ slot = 0
    /\ sent < MaxMessages
    /\ sent' = sent + 1
    /\ waiting' = TRUE
    /\ Transmit([type |-> "user"])
    /\ UNCHANGED <<served, linked, slot, consent, drops>>

SendInterrupt ==
    /\ slot = 0 /\ waiting
    /\ waiting' = FALSE
    /\ Transmit([type |-> "interrupt"])
    /\ UNCHANGED <<served, linked, slot, consent, sent, drops>>

\* The slot is cleared whether or not the answer gets anywhere.
RespondToPermission(behavior) ==
    /\ slot # 0
    /\ slot' = 0
    /\ consent' = IF behavior = "allow" THEN consent \cup {slot} ELSE consent
    /\ Transmit([type |-> "control_response", id |-> slot, behavior |-> behavior])
    /\ UNCHANGED <<served, linked, waiting, sent, drops>>

Dismiss ==
    /\ slot # 0
    /\ slot' = 0
    /\ UNCHANGED <<agentVars, served, linked, waiting, toAgent, consent, sent, drops>>

(* handleMessage: a request replaces the one in the slot, answered or not. *)
HandleResult_OnlyWithoutSheet(m) == \* faulty variant
    IF m.type = "result" /\ slot = 0 THEN FALSE ELSE waiting
HandleResult(m) == IF m.type = "result" THEN FALSE ELSE waiting

HandleControlRequest(m) == IF m.type = "control_request" THEN m.id ELSE slot

HandleMessage ==
    /\ toPhone # <<>>
    /\ waiting' = HandleResult(Head(toPhone))
    /\ slot' = HandleControlRequest(Head(toPhone))
    /\ toPhone' = Tail(toPhone)
    /\ UNCHANGED <<runs, history, pending, asked, ran, agentUp, bound>>
    /\ UNCHANGED <<served, linked, toAgent, consent, sent, drops>>

-----------------------------------------------------------------------------
(* The agent's connector hands a message to the handler of its type.       *)
AgentReceives ==
    /\ toAgent # <<>>
    /\ LET m == Head(toAgent)
       IN  \/ m.type = "user" /\ OnUserMessage
           \/ m.type = "interrupt" /\ OnInterrupt
           \/ m.type = "control_response" /\ OnControlResponse(m.id, m.behavior)
    /\ toAgent' = Tail(toAgent)
    /\ UNCHANGED <<served, linked, waiting, slot, consent, sent, drops>>

(* Connections break, with what is under way, and come back.  The session  *)
(* does not take the agent's new connection; the phone's is bound again by *)
(* its next message.                                                       *)
PhoneDrops ==
    /\ linked /\ drops < MaxDrops
    /\ drops' = drops + 1
    /\ linked' = FALSE
    /\ bound' = FALSE
    /\ toPhone' = <<>>
    /\ UNCHANGED <<runs, history, pending, asked, ran, agentUp>>
    /\ UNCHANGED <<served, waiting, slot, toAgent, consent, sent>>

PhoneReconnects ==
    /\ ~linked
    /\ linked' = TRUE
    /\ UNCHANGED <<agentVars, served, waiting, slot, toAgent, consent, sent, drops>>

AgentDrops ==
    /\ agentUp /\ drops < MaxDrops
    /\ drops' = drops + 1
    /\ agentUp' = FALSE
    /\ served' = FALSE
    /\ toAgent' = <<>>
    /\ UNCHANGED <<runs, history, pending, asked, ran, bound, toPhone>>
    /\ UNCHANGED <<linked, waiting, slot, consent, sent>>

AgentReconnects ==
    /\ ~agentUp
    /\ agentUp' = TRUE
    /\ UNCHANGED <<runs, history, pending, asked, ran, bound, toPhone>>
    /\ UNCHANGED <<served, linked, waiting, slot, toAgent, consent, sent, drops>>

-----------------------------------------------------------------------------
AgentStep ==
    /\ \/ \E r \in Thinking :
             \/ \E asks \in Asks : ToolReply(r, asks)
             \/ \E kind \in {"text", "tool_use"} : FinalReply(r, kind)
             \/ CallFails(r)
       \/ \E id \in pending : TimerFires(id)
    /\ UNCHANGED <<served, linked, waiting, slot, toAgent, consent, sent, drops>>

Next ==
    \/ SendMessage \/ SendInterrupt \/ Dismiss
    \/ \E behavior \in Behavior : RespondToPermission(behavior)
    \/ HandleMessage \/ AgentReceives
    \/ PhoneDrops \/ PhoneReconnects \/ AgentDrops \/ AgentReconnects
    \/ AgentStep

Spec == Init /\ [][Next]_vars

\* Messages travel while the connections hold, and each call of the model and
\* each timeout ends.  Nobody has to answer a question or to reconnect.
Fairness ==
    /\ WF_vars(HandleMessage)
    /\ WF_vars(AgentReceives)
    /\ WF_vars(AgentStep)

FairSpec == Spec /\ Fairness

-----------------------------------------------------------------------------
\* Requests are pending exactly while a call of processMessage waits for them,
\* each in its own call, although a new message or an interrupt leaves the old
\* call waiting and its request in the map.
PendingExact ==
    /\ pending = {runs[r].ask : r \in Asking}
    /\ \A r, q \in Asking : runs[r].ask = runs[q].ask => r = q

\* A dangerous tool has been executed only if Allow was pressed while the sheet
\* showed the request of that very tool: not a request that replaced it in the
\* slot, nor one whose answer came late, or that another call waits for.
RanWithConsent == ran \subseteq consent

\* What one call of processMessage has put into the history that all calls share
\* is a conversation by itself: the message, and only it, comes first; each tool
\* use is followed by its results, and they follow nothing else; after an answer
\* nothing comes.  It ends as far as the call has come: a tool use lacks its
\* results only while the call still asks, or if the model ended its turn with it.
MayFollow(kind, next) ==
    IF kind = "tool_use" THEN next = "tool_result"
                         ELSE kind # "text" /\ next \in {"text", "tool_use"}

\* The entries of one run, of which others may stand in between.
InOrder(h) ==
    \A j \in DOMAIN h :
        LET before == {i \in 1 .. j - 1 : h[i].run = h[j].run}
        IN  /\ h[j].kind = "user" <=> before = {}
            /\ \A i \in before :
                  (\A k \in i + 1 .. j - 1 : k \notin before) => MayFollow(h[i].kind, h[j].kind)

EndsWith(h, r, kinds) ==
    \E i \in DOMAIN h :
        /\ h[i].run = r /\ h[i].kind \in kinds
        /\ \A k \in i + 1 .. Len(h) : h[k].run # r

LastEntry(pc) ==
    CASE pc = "asking"  -> {"tool_use"}
      [] pc = "success" -> {"text", "tool_use", "tool_result"}
      [] OTHER          -> {"user", "tool_result"}

ResultsFollowCalls ==
    /\ InOrder(history)
    /\ \A r \in DOMAIN runs : EndsWith(history, r, LastEntry(runs[r].pc))

Answered(q) ==
    IF q \in ran THEN "allow"
    ELSE IF q \in pending THEN "waiting"
    ELSE IF q \in 1 .. asked THEN "deny" ELSE "none"

\* Request r as a question by itself: one step may answer a request and put the
\* next one of the same call.
Decision(r) ==
    INSTANCE PermissionDecision WITH
        Req      <- {r},
        decision <- [q \in {r} |-> Answered(q)],
        consent  <- [q \in {r} |-> IF q \in consent THEN {"allow"} ELSE {}]

\* The agent implements PermissionDecision for every request, and more narrowly
\* than the CLI's bridge: no request is decided before it was put to the phone, its
\* one answer stands whatever comes late, and it is "allow" only by consent.
AnswersStand ==
    [][\A r \in 1 .. asked' :
          [\/ Decision(r)!Ask(r)
           \/ Decision(r)!Decide(r)
           \/ Decision(r)!Consent(r, "allow")]_(Decision(r)!decisionVars)]_vars

\* Every message the agent has received is brought to a result: each call ends,
\* also one that was interrupted in the middle of a question nobody answers, and
\* also one whose socket has gone.
MessageEnds ==
    \A r \in 1 .. MaxMessages :
        (r \in DOMAIN runs) ~> (r \in DOMAIN runs /\ runs[r].pc \in Outcome)

\* The phone stops waiting if no connection breaks.
WaitingEnds == waiting ~> (~waiting \/ drops > 0)

\* "Interrupt current request if running": a call that has been interrupted
\* executes no more dangerous tools.
NoToolAfterInterrupt ==
    [][\A r \in Asking : runs[r].aborted => runs[r].ask \notin ran' \ ran]_vars
=============================================================================
