----------------------- MODULE PermissionBridgeProofs -----------------------
(* Theorems about PermissionBridge for any number of concurrent requests. *)
EXTENDS PermissionBridge, TLAPS

\* Every answer on its way was given on the phone, to a question that was put to
\* it; and only calls past the local rules have been put to it.
AnswersAreGiven ==
    /\ \A m \in answers : m.subtype = "success" => m.behavior \in consent[m.req]
    /\ \A r \in asked : call[r] \notin {"idle", "forced", "checking"}

BridgeInv == TypeOK /\ PendingExact /\ AnswersAreGiven

LEMMA InitEstablishes == Init => BridgeInv
BY DEF Init, BridgeInv, TypeOK, PendingExact, AnswersAreGiven

LEMMA NextPreserves == BridgeInv /\ [Next]_vars => BridgeInv'
<1> SUFFICES ASSUME BridgeInv, [Next]_vars PROVE BridgeInv'
  OBVIOUS
<1> USE DEF BridgeInv, TypeOK, PendingExact, AnswersAreGiven, Behavior
<1>1. ASSUME NEW r \in Req, NEW f \in BOOLEAN, CanUseTool(r, f) PROVE BridgeInv'
  BY <1>1 DEF CanUseTool
<1>2. ASSUME NEW r \in Req, NEW b \in Behavior, LocalDecision(r, b) PROVE BridgeInv'
  BY <1>2 DEF LocalDecision
<1>3. ASSUME NEW r \in Req, RequestPermission(r) PROVE BridgeInv'
  BY <1>3 DEF RequestPermission
<1>4. ASSUME NEW r \in Req, TimerFires(r) PROVE BridgeInv'
  BY <1>4 DEF TimerFires
<1>5. ASSUME NEW r \in Req, NEW b \in Behavior, PhoneAnswers(r, b) PROVE BridgeInv'
  BY <1>5 DEF PhoneAnswers, ControlResponse
<1>6. ASSUME NEW r \in Req, PhoneFails(r) PROVE BridgeInv'
  BY <1>6 DEF PhoneFails, ControlResponse
<1>7. ASSUME NEW m \in answers, OnControlResponse(m) PROVE BridgeInv'
  BY <1>7 DEF OnControlResponse, ResolvedBy, ControlResponse
<1>8. ASSUME NEW m \in answers, AnswerLost(m) PROVE BridgeInv'
  BY <1>8 DEF AnswerLost
<1>9. CASE SocketChanges \/ \E r \in Req : ForcedAsk(r)
  BY <1>9 DEF SocketChanges, ForcedAsk
<1>10. CASE UNCHANGED vars
  BY <1>10 DEF vars
<1> HIDE DEF BridgeInv, Behavior
<1> QED BY <1>1, <1>2, <1>3, <1>4, <1>5, <1>6, <1>7, <1>8, <1>9, <1>10 DEF Next

\* BridgeInv holds in every reachable state.
THEOREM BridgeInvariant == Spec => []BridgeInv
BY InitEstablishes, NextPreserves, PTL DEF Spec

\* Every variable keeps its type; in particular a call the phone was asked about ends
\* in allow or deny.
THEOREM TypeCorrect == Spec => []TypeOK
BY BridgeInvariant, PTL DEF BridgeInv

\* Pending entries, waiting calls and armed timeouts always belong together.
THEOREM PendingCorrect == Spec => []PendingExact
BY BridgeInvariant, PTL DEF BridgeInv

-----------------------------------------------------------------------------
(* The bridge implements PermissionDecision.                               *)

LEMMA DecisionInit == Init => Decision!Init
BY DEF Init, Decision!Init, decisionBar

\* A step that moves one call on moves one decision on.
LEMMA DecisionMoves ==
    ASSUME BridgeInv, NEW r \in Req, NEW v, call' = [call EXCEPT ![r] = v]
    PROVE  decisionBar' = [decisionBar EXCEPT ![r] =
               CASE v \in {"idle", "forced", "checking"} -> "none"
                 [] v = "asking" -> "waiting"
                 [] OTHER -> v]
BY DEF decisionBar, BridgeInv, TypeOK

LEMMA DecisionNext == BridgeInv /\ [Next]_vars => [Decision!Next]_(Decision!decisionVars)
<1> SUFFICES ASSUME BridgeInv, [Next]_vars
             PROVE  Decision!Next \/ UNCHANGED <<decisionBar, consent>>
  BY DEF Decision!decisionVars, decisionBar
<1>1. ASSUME NEW r \in Req, NEW f \in BOOLEAN, CanUseTool(r, f)
      PROVE  UNCHANGED <<decisionBar, consent>>
  BY <1>1 DEF CanUseTool, decisionBar, BridgeInv, TypeOK
<1>2. ASSUME NEW r \in Req, NEW b \in Behavior, LocalDecision(r, b) PROVE Decision!DecideLocally(r, b)
  <2>1. decisionBar[r] = "none"
    BY <1>2 DEF LocalDecision, decisionBar
  <2>2. decisionBar' = [decisionBar EXCEPT ![r] = b]
    BY <1>2, DecisionMoves DEF LocalDecision, Behavior
  <2> QED BY <1>2, <2>1, <2>2 DEF LocalDecision, Decision!DecideLocally, decisionBar
<1>9. ASSUME NEW r \in Req, ForcedAsk(r) PROVE Decision!DecideLocally(r, "unresolved")
  <2>1. decisionBar[r] = "none"
    BY <1>9 DEF ForcedAsk, decisionBar
  <2>2. decisionBar' = [decisionBar EXCEPT ![r] = "unresolved"]
    BY <1>9, DecisionMoves DEF ForcedAsk
  <2> QED BY <1>9, <2>1, <2>2 DEF ForcedAsk, Decision!DecideLocally, decisionBar
<1>3. ASSUME NEW r \in Req, RequestPermission(r) PROVE Decision!Ask(r) \/ Decision!DecideLocally(r, "deny")
  <2>1. decisionBar[r] = "none"
    BY <1>3 DEF RequestPermission, decisionBar
  <2>2. decisionBar' = [decisionBar EXCEPT ![r] = IF open THEN "waiting" ELSE "deny"]
    BY <1>3, DecisionMoves DEF RequestPermission
  <2> QED BY <1>3, <2>1, <2>2 DEF RequestPermission, Decision!Ask, Decision!DecideLocally, decisionBar
\* The only pending request that is taken out is decided, by a consent or by deny.
<1>4. ASSUME NEW r \in pending, NEW b \in consent[r] \cup {"deny"},
             call' = [call EXCEPT ![r] = b], UNCHANGED consent
      PROVE  Decision!Decide(r)
  <2>1. r \in Req /\ call[r] = "asking" /\ b \in Behavior
    BY DEF BridgeInv, PendingExact, TypeOK, Behavior
  <2>2. decisionBar[r] = "waiting"
    BY <2>1 DEF decisionBar
  <2>3. decisionBar' = [decisionBar EXCEPT ![r] = b]
    BY <1>4, <2>1, DecisionMoves DEF Behavior
  <2> QED BY <1>4, <2>1, <2>2, <2>3 DEF Decision!Decide, decisionBar
<1>5. ASSUME NEW r \in Req, TimerFires(r)
      PROVE  Decision!Decide(r) \/ UNCHANGED <<decisionBar, consent>>
  <2>1. CASE r \in pending
    BY <1>4, <1>5, <2>1 DEF TimerFires
  <2>2. CASE r \notin pending
    BY <1>5, <2>2 DEF TimerFires, decisionBar
  <2> QED BY <2>1, <2>2
<1>6. ASSUME NEW m \in answers, OnControlResponse(m)
      PROVE  (\E r \in Req : Decision!Decide(r)) \/ UNCHANGED <<decisionBar, consent>>
  <2>1. CASE m.subtype = "success" /\ m.req \in pending
    <3>1. m.behavior \in consent[m.req] /\ m.req \in Req
      BY <2>1 DEF BridgeInv, AnswersAreGiven, PendingExact
    <3>2. call' = [call EXCEPT ![m.req] = m.behavior] /\ UNCHANGED consent
      BY <1>6, <2>1 DEF OnControlResponse, ResolvedBy, BridgeInv, TypeOK
    <3> QED BY <1>4, <2>1, <3>1, <3>2
  <2>2. CASE ResolvedBy(m) = {}
    <3>1. call' = call
      BY <1>6, <2>2 DEF OnControlResponse, BridgeInv, TypeOK
    <3> QED BY <1>6, <3>1 DEF OnControlResponse, decisionBar
  <2> QED BY <2>1, <2>2 DEF ResolvedBy
<1>7. ASSUME NEW r \in Req, NEW b \in Behavior, PhoneAnswers(r, b) PROVE Decision!Consent(r, b)
  <2>1. decisionBar[r] # "none" /\ decisionBar' = decisionBar
    BY <1>7 DEF PhoneAnswers, decisionBar, BridgeInv, AnswersAreGiven, TypeOK, Behavior
  <2> QED BY <1>7, <2>1 DEF PhoneAnswers, Decision!Consent, decisionBar
<1>8. CASE \/ \E r \in Req : PhoneFails(r)
           \/ \E m \in answers : AnswerLost(m)
           \/ SocketChanges
           \/ UNCHANGED vars
  BY <1>8 DEF PhoneFails, AnswerLost, SocketChanges, vars, decisionBar
<1> QED
  BY <1>1, <1>2, <1>3, <1>5, <1>6, <1>7, <1>8, <1>9
     DEF Next, Decision!Next, Behavior, Decision!Answer

\* Every behaviour of the bridge is one of PermissionDecision.
THEOREM ImplementsDecision == Spec => DecisionSpec
BY BridgeInvariant, DecisionInit, DecisionNext, PTL DEF Spec, DecisionSpec, Decision!Spec

\* What PermissionDecision promises, read back in the bridge's own terms: an answer
\* is never taken back or given twice, and "allow" to a call that waits for the phone
\* has been given on the phone for this very call (relayPermissionBridge.ts).
AnswerIsFinal ==
    \A r \in Req :
        /\ call[r] \in {"allow", "deny", "unresolved"} => call'[r] = call[r]
        /\ call[r] = "asking" /\ call'[r] = "allow" => "allow" \in consent[r]

\* Each answer of the bridge is final, and an "allow" the phone was asked for is
\* the phone's (relayPermissionBridge.ts, requestPermission).
THEOREM AnswersFinal == Spec => [][AnswerIsFinal]_vars
<1>1. ASSUME BridgeInv, BridgeInv', [Decision!Next]_(Decision!decisionVars)
      PROVE  AnswerIsFinal
  <2>1. /\ call \in [Req -> {"idle", "forced", "checking", "asking", "unresolved"} \cup Behavior]
        /\ call' \in [Req -> {"idle", "forced", "checking", "asking", "unresolved"} \cup Behavior]
    BY <1>1 DEF BridgeInv, TypeOK
  <2> SUFFICES ASSUME NEW r \in Req
               PROVE  /\ call[r] \in {"allow", "deny", "unresolved"} => call'[r] = call[r]
                      /\ call[r] = "asking" /\ call'[r] = "allow" => "allow" \in consent[r]
    BY DEF AnswerIsFinal
  <2>2. /\ call[r] \in {"allow", "deny", "unresolved"} => decisionBar[r] = call[r]
        /\ call[r] = "asking" => decisionBar[r] = "waiting"
        /\ call'[r] = "allow" => decisionBar'[r] = "allow"
        /\ decisionBar'[r] \in {"allow", "deny", "unresolved"} => call'[r] = decisionBar'[r]
    BY <2>1 DEF decisionBar, Behavior
  <2>3. decisionBar[r] \notin {"none", "waiting"} => decisionBar'[r] = decisionBar[r]
    BY <1>1 DEF Decision!Next, Decision!decisionVars, Decision!Ask, Decision!Decide,
                Decision!DecideLocally, Decision!Consent, decisionBar
  <2>4. decisionBar[r] = "waiting" /\ decisionBar'[r] = "allow" => "allow" \in consent[r]
    BY <1>1 DEF Decision!Next, Decision!decisionVars, Decision!Ask, Decision!Decide,
                Decision!DecideLocally, Decision!Consent, decisionBar
  <2> QED BY <2>2, <2>3, <2>4
<1>2. BridgeInv /\ BridgeInv' /\ [Next]_vars => [AnswerIsFinal]_vars
  BY <1>1, DecisionNext
<1> QED BY <1>2, BridgeInvariant, PTL DEF Spec
=============================================================================
