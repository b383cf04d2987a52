-------------------------- MODULE PermissionBridge --------------------------
(***************************************************************************)
(* restored-src/src/relay/relayPermissionBridge.ts and relayCanUseTool.ts: *)
(* the CLI asks the phone before a tool runs.  Several tools may ask at    *)
(* the same time.  A request identifier is a randomUUID(), one per call.   *)
(*                                                                         *)
(* Everything between the two ends (connector, relay, phone) is reduced to *)
(* a socket that is open or not and to answers that travel in any order or *)
(* are lost; a phone may answer a request more than once, because it may   *)
(* have been shown it on two connections.                                  *)
(***************************************************************************)
CONSTANT Req \* permission checks

VARIABLES
    call,    \* call[r]: where the promise of canUseTool stands
    pending, \* the keys of this.pending
    timer,   \* timer[r]: the setTimeout of requestPermission
    open,    \* the connector's socket is OPEN
    asked,   \* control requests the socket has accepted
    answers, \* control responses on their way to the CLI
    consent  \* history: what has been answered on the phone

vars == <<call, pending, timer, open, asked, answers, consent>>

Behavior == {"allow", "deny"}

\* A response of subtype "error" carries no behavior.
ControlResponse == [req : Req, subtype : {"success"}, behavior : Behavior]
                     \cup [req : Req, subtype : {"error"}]

TypeOK ==
    /\ call \in [Req -> {"idle", "forced", "checking", "asking", "unresolved"} \cup Behavior]
    /\ pending \in SUBSET Req
    /\ timer \in [Req -> {"off", "armed", "fired"}]
    /\ open \in BOOLEAN
    /\ asked \in SUBSET Req
    /\ answers \in SUBSET ControlResponse
    /\ consent \in [Req -> SUBSET Behavior]

Init ==
    /\ call = [r \in Req |-> "idle"]
    /\ pending = {}
    /\ timer = [r \in Req |-> "off"]
    /\ open \in BOOLEAN
    /\ asked = {}
    /\ answers = {}
    /\ consent = [r \in Req |-> {}]

-----------------------------------------------------------------------------
(* relayCanUseTool: the local rules are consulted first, which takes an    *)
(* await; with a forced decision there is nothing else.                    *)
CanUseTool(r, forceDecision) ==
    /\ call[r] = "idle"
    /\ call' = [call EXCEPT ![r] = IF forceDecision THEN "forced" ELSE "checking"]
    /\ UNCHANGED <<pending, timer, open, asked, answers, consent>>

LocalDecision(r, behavior) ==
    /\ call[r] \in {"forced", "checking"}
    /\ call' = [call EXCEPT ![r] = behavior]
    /\ UNCHANGED <<pending, timer, open, asked, answers, consent>>

\* A forced "ask" comes back as the permission function given to the wrapper
\* returns it; the phone never sees it.
ForcedAsk(r) ==
    /\ call[r] = "forced"
    /\ call' = [call EXCEPT ![r] = "unresolved"]
    /\ UNCHANGED <<pending, timer, open, asked, answers, consent>>

(* The local rules say "ask": requestPermission runs up to its await.  The *)
(* timer is armed before the send is tried and stays armed if it fails.    *)
RequestPermission_KeepsUnsent(r) == \* faulty variant
    /\ call[r] = "checking"
    /\ timer' = [timer EXCEPT ![r] = "armed"]
    /\ pending' = pending \cup {r}
    /\ asked' = IF open THEN asked \cup {r} ELSE asked
    /\ call' = [call EXCEPT ![r] = IF open THEN "asking" ELSE "deny"]
    /\ UNCHANGED <<open, answers, consent>>
RequestPermission_ReturnsAsk(r) == \* faulty variant
    /\ call[r] = "checking"
    /\ call' = [call EXCEPT ![r] = "ask"]
    /\ UNCHANGED <<pending, timer, open, asked, answers, consent>>
RequestPermission(r) ==
    /\ call[r] = "checking"
    /\ timer' = [timer EXCEPT ![r] = "armed"]
    /\ pending' = IF open THEN pending \cup {r} ELSE pending
    /\ asked' = IF open THEN asked \cup {r} ELSE asked
    /\ call' = [call EXCEPT ![r] = IF open THEN "asking" ELSE "deny"]
    /\ UNCHANGED <<open, answers, consent>>

(* onControlResponse resolves the request that the response names, if it   *)
(* is still pending; a response of subtype "error" is ignored.             *)
ResolvedBy_AnyPending(m) == IF m.subtype = "success" THEN pending ELSE {} \* faulty variant
ResolvedBy(m) == IF m.subtype = "success" THEN pending \cap {m.req} ELSE {}

OnControlResponse(m) ==
    /\ open
    /\ m \in answers
    /\ answers' = answers \ {m}
    /\ call' = [r \in Req |-> IF r \in ResolvedBy(m) THEN m.behavior ELSE call[r]]
    /\ pending' = pending \ ResolvedBy(m)
    /\ UNCHANGED <<timer, open, asked, consent>>

(* The timeout denies a request that is still pending.                     *)
TimerFires_OnlyWhileOpen(r) == \* faulty variant
    /\ timer[r] = "armed"
    /\ timer' = [timer EXCEPT ![r] = "fired"]
    /\ pending' = IF open THEN pending \ {r} ELSE pending
    /\ call' = IF open /\ r \in pending THEN [call EXCEPT ![r] = "deny"] ELSE call
    /\ UNCHANGED <<open, asked, answers, consent>>
TimerFires(r) ==
    /\ timer[r] = "armed"
    /\ timer' = [timer EXCEPT ![r] = "fired"]
    /\ pending' = pending \ {r}
    /\ call' = IF r \in pending THEN [call EXCEPT ![r] = "deny"] ELSE call
    /\ UNCHANGED <<open, asked, answers, consent>>

-----------------------------------------------------------------------------
(* The world between the bridge and the phone.                             *)
PhoneAnswers(r, behavior) ==
    /\ r \in asked
    /\ consent' = [consent EXCEPT ![r] = @ \cup {behavior}]
    /\ answers' = answers \cup {[req |-> r, subtype |-> "success", behavior |-> behavior]}
    /\ UNCHANGED <<call, pending, timer, open, asked>>

PhoneFails(r) ==
    /\ r \in asked
    /\ answers' = answers \cup {[req |-> r, subtype |-> "error"]}
    /\ UNCHANGED <<call, pending, timer, open, asked, consent>>

AnswerLost(m) ==
    /\ m \in answers
    /\ answers' = answers \ {m}
    /\ UNCHANGED <<call, pending, timer, open, asked, consent>>

SocketChanges ==
    /\ open' = ~open
    /\ UNCHANGED <<call, pending, timer, asked, answers, consent>>

Next ==
    \/ \E r \in Req :
          \/ \E forceDecision \in BOOLEAN : CanUseTool(r, forceDecision)
          \/ \E b \in Behavior : LocalDecision(r, b)
          \/ ForcedAsk(r)
          \/ RequestPermission(r)
          \/ TimerFires(r)
          \/ \E b \in Behavior : PhoneAnswers(r, b)
          \/ PhoneFails(r)
    \/ \E m \in answers : OnControlResponse(m) \/ AnswerLost(m)
    \/ SocketChanges

Spec == Init /\ [][Next]_vars

\* An armed timer fires, whether or not anything else works.
FairSpec == Spec /\ \A r \in Req : WF_vars(TimerFires(r))

-----------------------------------------------------------------------------
\* A resolver is in the map exactly while its call waits for the phone, and then
\* the timeout that would end the wait is armed: no entry outlives its call (what
\* hasPendingRequests and getPendingCount report is true) and no call waits
\* without a way out, whichever of answer, timeout, failed send and reconnect
\* come first.
PendingExact ==
    /\ pending = {r \in Req : call[r] = "asking"}
    /\ \A r \in pending : timer[r] = "armed"

decisionBar ==
    [r \in Req |-> CASE call[r] \in {"idle", "forced", "checking"} -> "none"
                     [] call[r] = "asking" -> "waiting"
                     [] OTHER -> call[r]]

Decision == INSTANCE PermissionDecision WITH decision <- decisionBar

\* The bridge implements PermissionDecision: one answer per call for good, late,
\* repeated and misdirected responses included, and "allow" for a request that
\* was put to the phone only if the phone answered that very request with it.
DecisionSpec == Decision!Spec

\* Every request that waits for the phone is decided (docs/DEPLOYMENT_GUIDE.md:678, no
\* answer within two minutes denies), even if the connection never comes back.
RequestDecided ==
    \A r \in Req : call[r] = "asking" ~> call[r] \in Behavior
=============================================================================
