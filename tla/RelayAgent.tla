----------------------------- MODULE RelayAgent -----------------------------
(***************************************************************************)
(* restored-src/src/entrypoints/relay-cli.ts from the moment the relay     *)
(* serves its session: an agent loop started by each message of the phone, *)
(* and SimplePermissionBridge.  How the agent gets a session is not        *)
(* modelled: it registers at addresses this relay does not have.           *)
(*                                                                         *)
(* One action is the code between two awaits.  Tools run synchronously, so *)
(* processMessage waits in two places only: for the model, and for the     *)
(* phone's consent to a dangerous tool.  Of a response only the number of  *)
(* dangerous tools is kept, and of what the agent says only what changes   *)
(* more than the phone's display.                                          *)
(***************************************************************************)
EXTENDS Naturals, Sequences

CONSTANTS
    MaxMessages, \* bound: user messages
    MaxTurns,    \* maxTurns
    Asks         \* how many dangerous tools a response may have

ASSUME BoundsAssumption ==
    MaxMessages \in Nat /\ MaxTurns \in Nat \ {0} /\ Asks \in SUBSET Nat

VARIABLES
    runs,     \* the calls of processMessage; the last one holds currentAbortController
    history,  \* messageHistory, which they share
    pending,  \* the keys of SimplePermissionBridge.pending
    asked,    \* request identifiers drawn so far
    ran,      \* requests whose tool has been executed
    agentUp,  \* the agent's connection to the relay works
    bound,    \* session.iphoneConnectionId is the phone's connection
    toPhone   \* messages on their way to the phone

agentVars == <<runs, history, pending, asked, ran, agentUp, bound, toPhone>>

Outcome == {"success", "error", "interrupted"} \* of sendResult
Behavior == {"allow", "deny"}

Run == [pc : {"thinking", "asking"} \cup Outcome, aborted : BOOLEAN,
        turn : 0 .. MaxTurns, left : Nat, ask : Nat]
Entry == [kind : {"user", "text", "tool_use", "tool_result"}, run : Nat]
AgentMessage == [type : {"control_request"}, id : Nat] \cup [type : {"result"}]

Asking == {r \in DOMAIN runs : runs[r].pc = "asking"}
Thinking == {r \in DOMAIN runs : runs[r].pc = "thinking"}

AgentTypeOK ==
    /\ runs \in Seq(Run)
    /\ history \in Seq(Entry)
    /\ pending \in SUBSET (1 .. asked)
    /\ asked \in Nat
    /\ ran \in SUBSET (1 .. asked)
    /\ agentUp \in BOOLEAN
    /\ bound \in BOOLEAN
    /\ toPhone \in Seq(AgentMessage)

AgentInit ==
    /\ runs = <<>>
    /\ history = <<>>
    /\ pending = {}
    /\ asked = 0
    /\ ran = {}
    /\ agentUp = TRUE
    /\ bound = FALSE
    /\ toPhone = <<>>

-----------------------------------------------------------------------------
NewEntry(kind, r) == [kind |-> kind, run |-> r]

\* send, and routeFromCLI in the relay: nothing is kept for later.
Say(messages) == toPhone' = IF agentUp /\ bound THEN toPhone \o messages ELSE toPhone

\* Of a call that has returned nothing is left but its outcome.
NewRun(pc, aborted, turn, left, ask) ==
    [pc |-> pc, aborted |-> aborted, turn |-> turn, left |-> left, ask |-> ask]
Returned(outcome) == NewRun(outcome, FALSE, 0, 0, 0)

(* The head of the loop, with every tool of the last turn done.            *)
NextTurn(run) ==
    IF run.turn = MaxTurns THEN Returned("success")
    ELSE IF run.aborted THEN Returned("interrupted")
    ELSE NewRun("thinking", FALSE, run.turn + 1, 0, 0)

(* The rest of the response: up to the question about the next dangerous   *)
(* tool, or, after the last tool, to the results and the next turn.        *)
RunTools_DropsLastResult(r, run, left) == \* faulty variant
    LET now == IF left = 0 THEN NextTurn(run)
               ELSE NewRun("asking", run.aborted, run.turn, left, asked + 1)
    IN  [run   |-> now,
         entry |-> IF left = 0 /\ run.pc = "thinking" THEN <<NewEntry("tool_result", r)>> ELSE <<>>,
         asks  |-> IF left = 0 THEN {} ELSE {asked + 1},
         says  |-> IF left > 0 THEN <<[type |-> "control_request", id |-> asked + 1]>>
                   ELSE IF now.pc \in Outcome THEN <<[type |-> "result"]>> ELSE <<>>]
RunTools(r, run, left) ==
    LET now == IF left = 0 THEN NextTurn(run)
               ELSE NewRun("asking", run.aborted, run.turn, left, asked + 1)
    IN  [run   |-> now,
         entry |-> IF left = 0 THEN <<NewEntry("tool_result", r)>> ELSE <<>>,
         asks  |-> IF left = 0 THEN {} ELSE {asked + 1},
         says  |-> IF left > 0 THEN <<[type |-> "control_request", id |-> asked + 1]>>
                   ELSE IF now.pc \in Outcome THEN <<[type |-> "result"]>> ELSE <<>>]

Proceed_ReusesId(r, left, entries, waiting) == \* faulty variant
    LET next == RunTools(r, runs[r], left)
    IN  /\ runs' = [runs EXCEPT ![r] = next.run]
        /\ history' = history \o entries \o next.entry
        /\ pending' = waiting \cup next.asks
        /\ asked' = asked
        /\ Say(next.says)
        /\ UNCHANGED <<agentUp, bound>>
Proceed(r, left, entries, waiting) ==
    LET next == RunTools(r, runs[r], left)
    IN  /\ runs' = [runs EXCEPT ![r] = next.run]
        /\ history' = history \o entries \o next.entry
        /\ pending' = waiting \cup next.asks
        /\ asked' = IF left = 0 THEN asked ELSE asked + 1
        /\ Say(next.says)
        /\ UNCHANGED <<agentUp, bound>>

(* createMessage returns a response with tools to execute.                 *)
ToolReply(r, asks) ==
    /\ r \in Thinking
    /\ ~runs[r].aborted
    /\ Proceed(r, asks, <<NewEntry("tool_use", r)>>, pending)
    /\ UNCHANGED ran

Finish(r, outcome) ==
    /\ runs' = [runs EXCEPT ![r] = Returned(outcome)]
    /\ Say(<<[type |-> "result"]>>)
    /\ UNCHANGED <<pending, asked, ran, agentUp, bound>>

(* It returns one that ends the turn, which need not be free of tools: a   *)
(* stop reason of end_turn goes first.                                     *)
FinalReply(r, kind) ==
    /\ r \in Thinking
    /\ ~runs[r].aborted
    /\ history' = Append(history, NewEntry(kind, r))
    /\ Finish(r, "success")

(* It throws.  The error of an aborted call is the SDKs' APIUserAbortError,*)
(* whose name is not AbortError (utils/errors.ts:25).                      *)
CallFails(r) ==
    /\ r \in Thinking
    /\ Finish(r, "error")
    /\ UNCHANGED history

-----------------------------------------------------------------------------
Abort ==
    [r \in DOMAIN runs |-> IF r = Len(runs) /\ runs[r].pc \notin Outcome
                           THEN [runs[r] EXCEPT !.aborted = TRUE]
                           ELSE runs[r]]

(* onUserMessage aborts the current run and starts a new one beside it.    *)
OnUserMessage ==
    /\ runs' = Append(Abort, NextTurn(NewRun("thinking", FALSE, 0, 0, 0)))
    /\ history' = Append(history, NewEntry("user", Len(runs) + 1))
    /\ UNCHANGED <<pending, asked, ran, agentUp, bound, toPhone>>

OnInterrupt ==
    /\ runs' = Abort
    /\ UNCHANGED <<history, pending, asked, ran, agentUp, bound, toPhone>>

(* A request is decided: its tool is executed or not, and the run goes on. *)
Decided_AnyAsking(id, behavior) == \* faulty variant
    \E r \in Asking :
        /\ ran' = IF behavior = "allow" THEN ran \cup {runs[r].ask} ELSE ran
        /\ Proceed(r, runs[r].left - 1, <<>>, pending \ {runs[r].ask})
Decided_EntryStays(id, behavior) == \* faulty variant
    \E r \in Asking :
        /\ runs[r].ask = id
        /\ ran' = IF behavior = "allow" THEN ran \cup {id} ELSE ran
        /\ Proceed(r, runs[r].left - 1, <<>>, pending)
Decided(id, behavior) ==
    \E r \in Asking :
        /\ runs[r].ask = id
        /\ ran' = IF behavior = "allow" THEN ran \cup {id} ELSE ran
        /\ Proceed(r, runs[r].left - 1, <<>>, pending \ {id})

OnControlResponse_LateAllowRuns(id, behavior) == \* faulty variant
    \/ id \in pending /\ Decided(id, behavior)
    \/ /\ id \notin pending
       /\ ran' = IF behavior = "allow" THEN ran \cup {id} ELSE ran
       /\ UNCHANGED <<runs, history, pending, asked, agentUp, bound, toPhone>>
OnControlResponse(id, behavior) ==
    \/ id \in pending /\ Decided(id, behavior)
    \/ id \notin pending /\ UNCHANGED agentVars

TimerFires_OnlyWhileUp(id) == id \in pending /\ agentUp /\ Decided(id, "deny") \* faulty variant
TimerFires(id) == id \in pending /\ Decided(id, "deny")
=============================================================================
