------------------------ MODULE RemoteControlProofs ------------------------
(***************************************************************************)
(* Proofs about RemoteControl, for any number of messages, turns, dangerous*)
(* tools in a response and broken connections.                             *)
(***************************************************************************)
EXTENDS RemoteControl, TLAPS

\* A question is about one of the tools that are left.
SomeLeft == \A r \in Asking : runs[r].left # 0

\* A request on its way to the phone has been drawn; an answer on its way to the
\* agent was given on the phone.
RequestsDrawn ==
    \A i \in DOMAIN toPhone : toPhone[i].type = "control_request" => toPhone[i].id \in 1 .. asked
AnswersGiven ==
    \A i \in DOMAIN toAgent : toAgent[i].type = "control_response" =>
        /\ toAgent[i].id \in 1 .. asked
        /\ toAgent[i].behavior = "allow" => toAgent[i].id \in consent

RemoteInv ==
    TypeOK /\ PendingExact /\ SomeLeft /\ RequestsDrawn /\ AnswersGiven /\ RanWithConsent

-----------------------------------------------------------------------------
\* Starting or ending a turn leaves a run that is not asking.
LEMMA NextTurnType ==
    ASSUME NEW run \in Run
    PROVE  /\ NextTurn(run) \in Run
           /\ NextTurn(run).pc # "asking"
  BY BoundsAssumption DEF NextTurn, Returned, NewRun, Run, Outcome

\* Messages are said to the phone or lost.
LEMMA SayType ==
    ASSUME toPhone \in Seq(AgentMessage), NEW ms \in Seq(AgentMessage), Say(ms)
    PROVE  /\ toPhone' \in Seq(AgentMessage)
           /\ \A i \in DOMAIN toPhone' :
                 \/ i \in DOMAIN toPhone /\ toPhone'[i] = toPhone[i]
                 \/ \E j \in DOMAIN ms : toPhone'[i] = ms[j]
<1>1. CASE toPhone' = toPhone
  BY <1>1
<1>2. CASE toPhone' = toPhone \o ms
  <2>1. toPhone' \in Seq(AgentMessage) /\ Len(toPhone') = Len(toPhone) + Len(ms)
    BY <1>2
  <2>2. ASSUME NEW i \in DOMAIN toPhone', i \notin DOMAIN toPhone
        PROVE  i - Len(toPhone) \in DOMAIN ms /\ toPhone'[i] = ms[i - Len(toPhone)]
    BY <1>2, <2>1, <2>2
  <2>3. \A i \in DOMAIN toPhone : toPhone'[i] = toPhone[i]
    BY <1>2
  <2> QED BY <2>1, <2>2, <2>3
<1> QED BY <1>1, <1>2 DEF Say

\* What a step of processMessage keeps: the parts of the invariant that are about
\* the agent, and the identifiers drawn before.
AgentInv ==
    AgentTypeOK /\ PendingExact /\ SomeLeft /\ RequestsDrawn

\* One run goes on and waits for the model or for the next request, or returns.
LEMMA ProceedPreserves ==
    ASSUME AgentInv, ran' \in SUBSET (1 .. asked),
           NEW r \in DOMAIN runs, NEW left \in Nat, NEW entries \in Seq(Entry),
           NEW rest, rest = {runs[q].ask : q \in Asking \ {r}},
           Proceed(r, left, entries, rest)
    PROVE  AgentInv' /\ asked' \in {asked, asked + 1} /\ bound' = bound /\ agentUp' = agentUp
<1> DEFINE next == RunTools(r, runs[r], left)
<1>0. /\ runs \in Seq(Run) /\ runs[r] \in Run /\ asked \in Nat /\ r \in Nat
      /\ history \in Seq(Entry) /\ toPhone \in Seq(AgentMessage)
  BY DEF AgentInv, AgentTypeOK
<1>1. /\ runs' = [runs EXCEPT ![r] = next.run]
      /\ history' = history \o entries \o next.entry
      /\ pending' = rest \cup next.asks
      /\ asked' = IF left = 0 THEN asked ELSE asked + 1
      /\ Say(next.says)
      /\ agentUp' = agentUp /\ bound' = bound
  BY DEF Proceed
<1>2. /\ next.run \in Run
      /\ next.run.pc = "asking" <=> left # 0
      /\ left # 0 => next.run.ask = asked + 1 /\ next.run.left = left
      /\ next.entry \in Seq(Entry)
      /\ next.asks = IF left = 0 THEN {} ELSE {asked + 1}
  <2>1. CASE left = 0
    BY <1>0, <2>1, NextTurnType DEF RunTools, NewEntry, Entry
  <2>2. CASE left # 0
    BY <1>0, <2>2 DEF RunTools, NewRun, Run
  <2> QED BY <2>1, <2>2
<1>3. /\ next.says \in Seq(AgentMessage)
      /\ \A i \in DOMAIN next.says :
            next.says[i].type = "control_request" => left # 0 /\ next.says[i].id = asked + 1
  <2>1. CASE left = 0
    <3>1. next.says \in {<<[type |-> "result"]>>, <<>>}
      BY <2>1 DEF RunTools
    <3>2. [type |-> "result"] \in AgentMessage
      BY DEF AgentMessage
    <3>3. <<[type |-> "result"]>> \in Seq(AgentMessage) /\ <<>> \in Seq(AgentMessage)
      BY <3>2
    <3>4. \A i \in DOMAIN next.says : next.says[i].type = "result"
      BY <3>1
    <3> QED BY <3>1, <3>3, <3>4
  <2>2. CASE left # 0
    <3>1. next.says = <<[type |-> "control_request", id |-> asked + 1]>>
      BY <1>0, <2>2 DEF RunTools
    <3> QED BY <1>0, <2>2, <3>1 DEF AgentMessage
  <2> QED BY <2>1, <2>2
<1> HIDE DEF next
<1>4. runs' \in Seq(Run) /\ DOMAIN runs' = DOMAIN runs /\ runs'[r] = next.run
      /\ \A q \in DOMAIN runs : q # r => runs'[q] = runs[q]
  BY <1>0, <1>1, <1>2
<1>5. Asking' = (Asking \ {r}) \cup (IF left = 0 THEN {} ELSE {r})
  BY <1>2, <1>4 DEF Asking
<1>6. \A q \in Asking \ {r} : runs'[q].ask = runs[q].ask /\ runs'[q].left = runs[q].left
                             /\ runs[q].ask \in 1 .. asked
  BY <1>4 DEF Asking, AgentInv, AgentTypeOK, PendingExact
<1>7. asked' \in Nat /\ asked' \in {asked, asked + 1} /\ 1 .. asked \subseteq 1 .. asked'
  BY <1>0, <1>1
<1>8. PendingExact' /\ pending' \in SUBSET (1 .. asked')
  <2>1. CASE left = 0
    <3>1. Asking' = Asking \ {r} /\ pending' = rest
      BY <1>1, <1>2, <1>5, <2>1
    <3>2. pending' = {runs'[q].ask : q \in Asking'}
      BY <1>6, <3>1
    <3>3. \A p, q \in Asking' : runs'[p].ask = runs'[q].ask => p = q
      BY <1>6, <3>1 DEF AgentInv, PendingExact
    <3> QED BY <1>6, <1>7, <3>1, <3>2, <3>3 DEF PendingExact
  <2>2. CASE left # 0
    <3>1. Asking' = (Asking \ {r}) \cup {r} /\ pending' = rest \cup {asked + 1}
          /\ runs'[r].ask = asked + 1 /\ asked' = asked + 1
      BY <1>1, <1>2, <1>4, <1>5, <2>2
    <3>2. pending' = {runs'[q].ask : q \in Asking'}
      <4>1. rest = {runs'[q].ask : q \in Asking \ {r}}
        BY <1>6
      <4> QED BY <3>1, <4>1
    <3>3. \A q \in Asking \ {r} : runs'[q].ask # asked + 1
      BY <1>0, <1>6
    <3>4. \A p, q \in Asking' : runs'[p].ask = runs'[q].ask => p = q
      BY <1>6, <3>1, <3>3 DEF AgentInv, PendingExact
    <3>5. PendingExact'
      BY <3>2, <3>4 DEF PendingExact
    <3>6. \A id \in rest : id \in 1 .. asked
      BY <1>6
    <3>7. pending' \in SUBSET (1 .. asked')
      <4>1. asked + 1 \in 1 .. asked + 1 /\ \A id \in 1 .. asked : id \in 1 .. asked + 1
        BY <1>0
      <4> QED BY <3>1, <3>6, <4>1
    <3> QED BY <3>5, <3>7
  <2> QED BY <2>1, <2>2
<1>9. SomeLeft'
  BY <1>2, <1>4, <1>5, <1>6 DEF SomeLeft, AgentInv
<1>10. toPhone' \in Seq(AgentMessage) /\ RequestsDrawn'
  <2>1. /\ toPhone' \in Seq(AgentMessage)
        /\ \A i \in DOMAIN toPhone' :
              \/ i \in DOMAIN toPhone /\ toPhone'[i] = toPhone[i]
              \/ \E j \in DOMAIN next.says : toPhone'[i] = next.says[j]
    BY <1>0, <1>1, <1>3, SayType
  <2>2. ASSUME NEW i \in DOMAIN toPhone', toPhone'[i].type = "control_request"
        PROVE  toPhone'[i].id \in 1 .. asked'
    <3>1. CASE i \in DOMAIN toPhone /\ toPhone'[i] = toPhone[i]
      BY <1>7, <2>2, <3>1 DEF AgentInv, RequestsDrawn
    <3>2. CASE \E j \in DOMAIN next.says : toPhone'[i] = next.says[j]
      <4>1. left # 0 /\ toPhone'[i].id = asked + 1
        BY <1>3, <2>2, <3>2
      <4> QED BY <1>0, <1>1, <4>1
    <3> QED BY <2>1, <3>1, <3>2
  <2> QED BY <2>1, <2>2 DEF RequestsDrawn
<1>11. history' \in Seq(Entry) /\ ran' \in SUBSET (1 .. asked') /\ agentUp' \in BOOLEAN /\ bound' \in BOOLEAN
  <2>1. history \o entries \in Seq(Entry)
    BY <1>0
  <2> QED BY <1>1, <1>2, <1>7, <2>1 DEF AgentInv, AgentTypeOK
<1> QED BY <1>1, <1>4, <1>7, <1>8, <1>9, <1>10, <1>11 DEF AgentInv, AgentTypeOK

\* A request is decided, by an answer or by its timeout.
LEMMA DecidedPreserves ==
    ASSUME AgentInv, ran \subseteq consent, NEW id \in pending, NEW behavior \in Behavior,
           Decided(id, behavior), behavior = "allow" => id \in consent, consent' = consent
    PROVE  AgentInv' /\ RanWithConsent' /\ asked' \in {asked, asked + 1}
           /\ bound' = bound /\ agentUp' = agentUp
<1>1. PICK r \in Asking :
        /\ runs[r].ask = id
        /\ ran' = IF behavior = "allow" THEN ran \cup {id} ELSE ran
        /\ Proceed(r, runs[r].left - 1, <<>>, pending \ {id})
  BY DEF Decided
<1>2. runs[r] \in Run /\ r \in DOMAIN runs /\ runs[r].left # 0
  BY DEF Asking, AgentInv, AgentTypeOK, SomeLeft
<1>3. runs[r].left - 1 \in Nat
  BY <1>2 DEF Run
<1>4. pending \ {id} = {runs[q].ask : q \in Asking \ {r}}
  BY <1>1 DEF AgentInv, PendingExact
<1>5. ran' \in SUBSET (1 .. asked) /\ ran' \subseteq consent'
  BY <1>1 DEF AgentInv, AgentTypeOK
<1>6. <<>> \in Seq(Entry)
  OBVIOUS
<1> QED BY <1>1, <1>2, <1>3, <1>4, <1>5, <1>6, ProceedPreserves DEF RanWithConsent

\* The current run is aborted.
LEMMA AbortType ==
    ASSUME AgentInv
    PROVE  /\ Abort \in Seq(Run) /\ Len(Abort) = Len(runs) /\ DOMAIN Abort = DOMAIN runs
           /\ \A r \in DOMAIN runs : /\ Abort[r].pc = runs[r].pc
                                     /\ Abort[r].ask = runs[r].ask
                                     /\ Abort[r].left = runs[r].left
<1>1. runs \in Seq(Run) /\ \A r \in DOMAIN runs : runs[r] \in Run
  BY DEF AgentInv, AgentTypeOK
<1>2. \A r \in DOMAIN runs : [runs[r] EXCEPT !.aborted = TRUE] \in Run
  <2> TAKE r \in DOMAIN runs
  <2>1. runs[r] \in Run
    BY <1>1
  <2> QED BY <2>1 DEF Run
<1>3. \A r \in 1 .. Len(runs) : Abort[r] \in Run
  BY <1>1, <1>2 DEF Abort
<1>4. Abort \in [1 .. Len(runs) -> Run]
  <2>1. DOMAIN runs = 1 .. Len(runs)
    BY <1>1
  <2>2. Abort = [r \in 1 .. Len(runs) |-> Abort[r]]
    BY <2>1 DEF Abort
  <2> QED BY <1>3, <2>2
<1>5. Abort \in Seq(Run) /\ Len(Abort) = Len(runs) /\ DOMAIN Abort = DOMAIN runs
  BY <1>1, <1>4
<1> QED BY <1>1, <1>5 DEF Abort, Run

\* Runs that change in nothing the questions depend on keep the agent's invariant.
LEMMA SameQuestions ==
    ASSUME AgentInv, runs' \in Seq(Run), history' \in Seq(Entry),
           UNCHANGED <<pending, asked, ran, agentUp, bound, toPhone>>,
           Asking' = Asking,
           \A r \in Asking : runs'[r].ask = runs[r].ask /\ runs'[r].left = runs[r].left
    PROVE  AgentInv'
<1>1. AgentTypeOK' /\ RequestsDrawn'
  BY DEF AgentInv, AgentTypeOK, RequestsDrawn
<1>2. SomeLeft'
  BY DEF AgentInv, SomeLeft
<1>3. {runs'[r].ask : r \in Asking'} = {runs[r].ask : r \in Asking}
  OBVIOUS
<1>4. \A r, q \in Asking' : runs'[r].ask = runs'[q].ask => r = q
  BY DEF AgentInv, PendingExact
<1>5. PendingExact'
  BY <1>3, <1>4 DEF AgentInv, PendingExact
<1> QED BY <1>1, <1>2, <1>5 DEF AgentInv
-----------------------------------------------------------------------------
\* What a step at the phone's end keeps of the agent: at most the phone's messages
\* get fewer.
LEMMA AgentKept ==
    ASSUME AgentInv, UNCHANGED <<runs, history, pending, asked, ran>>,
           agentUp' \in BOOLEAN, bound' \in BOOLEAN,
           toPhone' \in {toPhone, <<>>} \/ (toPhone # <<>> /\ toPhone' = Tail(toPhone))
    PROVE  AgentInv'
<1>1. toPhone \in Seq(AgentMessage)
  BY DEF AgentInv, AgentTypeOK
<1>2. toPhone' \in Seq(AgentMessage)
  <2>1. <<>> \in Seq(AgentMessage) /\ (toPhone # <<>> => Tail(toPhone) \in Seq(AgentMessage))
    BY <1>1
  <2> QED BY <1>1, <2>1
<1>3. \A i \in DOMAIN toPhone' : \E j \in DOMAIN toPhone : toPhone'[i] = toPhone[j]
  <2>1. CASE toPhone' \in {toPhone, <<>>}
    BY <2>1
  <2>2. CASE toPhone # <<>> /\ toPhone' = Tail(toPhone)
    <3>1. \A i \in DOMAIN toPhone' : i + 1 \in DOMAIN toPhone /\ toPhone'[i] = toPhone[i + 1]
      BY <1>1, <2>2
    <3> QED BY <3>1
  <2> QED BY <2>1, <2>2
<1>4. RequestsDrawn'
  BY <1>3 DEF AgentInv, RequestsDrawn
<1>5. AgentTypeOK'
  BY <1>2 DEF AgentInv, AgentTypeOK
<1>6. PendingExact' /\ SomeLeft'
  BY DEF AgentInv, PendingExact, SomeLeft, Asking
<1> QED BY <1>4, <1>5, <1>6 DEF AgentInv

\* What the phone says is under way or lost.
LEMMA TransmitType ==
    ASSUME toAgent \in Seq(PhoneMessage), NEW m \in PhoneMessage, Transmit(m)
    PROVE  /\ toAgent' \in Seq(PhoneMessage)
           /\ \A i \in DOMAIN toAgent' :
                 (i \in DOMAIN toAgent /\ toAgent'[i] = toAgent[i]) \/ toAgent'[i] = m
  BY DEF Transmit

\* The part of the invariant the agent's steps disturb only through asked.
PhoneInv ==
    /\ served \in BOOLEAN /\ linked \in BOOLEAN /\ waiting \in BOOLEAN
    /\ slot \in 0 .. asked
    /\ consent \in SUBSET (1 .. asked)
    /\ toAgent \in Seq(PhoneMessage)
    /\ sent \in Nat /\ drops \in Nat
    /\ AnswersGiven

LEMMA InvParts == RemoteInv <=> AgentInv /\ PhoneInv /\ RanWithConsent
  BY DEF RemoteInv, TypeOK, AgentInv, PhoneInv

LEMMA NextInvParts == RemoteInv' <=> AgentInv' /\ PhoneInv' /\ RanWithConsent'
  BY DEF RemoteInv, TypeOK, AgentInv, PhoneInv

LEMMA PhoneKept ==
    ASSUME PhoneInv, asked \in Nat, asked' \in {asked, asked + 1},
           UNCHANGED <<served, linked, waiting, slot, consent, sent, drops>>,
           toAgent' = toAgent \/ (toAgent # <<>> /\ toAgent' = Tail(toAgent))
    PROVE  PhoneInv'
<1>1. toAgent' \in Seq(PhoneMessage)
  BY DEF PhoneInv
<1>2. \A i \in DOMAIN toAgent' : \E j \in DOMAIN toAgent : toAgent'[i] = toAgent[j]
  <2>1. CASE toAgent # <<>> /\ toAgent' = Tail(toAgent)
    <3>1. \A i \in DOMAIN toAgent' : i + 1 \in DOMAIN toAgent /\ toAgent'[i] = toAgent[i + 1]
      BY <2>1 DEF PhoneInv
    <3> QED BY <3>1
  <2> QED BY <2>1
<1>3. 0 .. asked \subseteq 0 .. asked' /\ 1 .. asked \subseteq 1 .. asked'
  OBVIOUS
<1>4. AnswersGiven'
  BY <1>2, <1>3 DEF PhoneInv, AnswersGiven
<1> QED BY <1>1, <1>3, <1>4 DEF PhoneInv

LEMMA InitEstablishes == Init => RemoteInv
<1> SUFFICES ASSUME Init PROVE RemoteInv
  OBVIOUS
<1>1. /\ runs = <<>> /\ history = <<>> /\ toPhone = <<>> /\ toAgent = <<>>
      /\ pending = {} /\ asked = 0 /\ ran = {} /\ agentUp = TRUE /\ bound = FALSE
      /\ served = TRUE /\ linked = TRUE /\ waiting = FALSE /\ slot = 0 /\ consent = {}
      /\ sent = 0 /\ drops = 0
  BY DEF Init, AgentInit
<1>2. /\ runs \in Seq(Run) /\ history \in Seq(Entry) /\ toPhone \in Seq(AgentMessage)
      /\ toAgent \in Seq(PhoneMessage)
  BY <1>1
<1>3. Asking = {} /\ DOMAIN toPhone = {} /\ DOMAIN toAgent = {}
  BY <1>1 DEF Asking
<1>4. TypeOK
  <2>1. AgentTypeOK
    BY <1>1, <1>2 DEF AgentTypeOK
  <2>2. served \in BOOLEAN /\ linked \in BOOLEAN /\ waiting \in BOOLEAN
    BY <1>1
  <2>3. slot \in 0 .. asked /\ sent \in Nat /\ drops \in Nat
    BY <1>1
  <2>4. consent \in SUBSET (1 .. asked)
    BY <1>1
  <2> QED BY <1>2, <2>1, <2>2, <2>3, <2>4 DEF TypeOK
<1>5. PendingExact /\ SomeLeft /\ RequestsDrawn /\ AnswersGiven /\ RanWithConsent
  BY <1>1, <1>3 DEF PendingExact, SomeLeft, RequestsDrawn, AnswersGiven, RanWithConsent
<1> QED BY <1>4, <1>5 DEF RemoteInv

-----------------------------------------------------------------------------
\* A call that returns asks nothing any more, and did not while it was thinking.
LEMMA FinishPreserves ==
    ASSUME AgentInv, NEW r \in Thinking, NEW outcome \in Outcome, Finish(r, outcome),
           history' \in Seq(Entry)
    PROVE  AgentInv'
<1>1. /\ runs \in Seq(Run) /\ r \in DOMAIN runs /\ runs[r].pc = "thinking"
      /\ toPhone \in Seq(AgentMessage)
  BY DEF Thinking, AgentInv, AgentTypeOK
<1>2. Returned(outcome) \in Run /\ Returned(outcome).pc # "asking"
  BY BoundsAssumption DEF Returned, NewRun, Run, Outcome
<1>3. /\ runs' \in Seq(Run) /\ DOMAIN runs' = DOMAIN runs /\ runs'[r].pc # "asking"
      /\ \A q \in DOMAIN runs : q # r => runs'[q] = runs[q]
  BY <1>1, <1>2 DEF Finish
<1>4. Asking' = Asking /\ \A q \in Asking : runs'[q] = runs[q]
  BY <1>1, <1>3 DEF Asking
<1>5. [type |-> "result"] \in AgentMessage
  BY DEF AgentMessage
<1>6. <<[type |-> "result"]>> \in Seq(AgentMessage)
  BY <1>5
<1>7. /\ toPhone' \in Seq(AgentMessage)
      /\ \A i \in DOMAIN toPhone' :
            \/ i \in DOMAIN toPhone /\ toPhone'[i] = toPhone[i]
            \/ toPhone'[i] = [type |-> "result"]
  <2>1. Say(<<[type |-> "result"]>>)
    BY DEF Finish
  <2>2. \A j \in DOMAIN <<[type |-> "result"]>> : <<[type |-> "result"]>>[j] = [type |-> "result"]
    OBVIOUS
  <2> QED BY <1>1, <1>6, <2>1, <2>2, SayType
<1>8. RequestsDrawn'
  <2>1. asked' = asked
    BY DEF Finish
  <2>2. \A i \in DOMAIN toPhone' : toPhone'[i].type = "control_request" =>
          i \in DOMAIN toPhone /\ toPhone'[i] = toPhone[i]
    BY <1>7
  <2> QED BY <2>1, <2>2 DEF AgentInv, RequestsDrawn
<1>9. AgentTypeOK'
  BY <1>3, <1>7 DEF AgentInv, AgentTypeOK, Finish
<1>10. SomeLeft'
  BY <1>4 DEF AgentInv, SomeLeft
<1>11. PendingExact'
  <2>1. {runs'[q].ask : q \in Asking'} = {runs[q].ask : q \in Asking}
    BY <1>4
  <2>2. \A p, q \in Asking' : runs'[p].ask = runs'[q].ask => p = q
    BY <1>4 DEF AgentInv, PendingExact
  <2> QED BY <2>1, <2>2 DEF AgentInv, PendingExact, Finish
<1> QED BY <1>8, <1>9, <1>10, <1>11 DEF AgentInv

LEMMA ToolReplyPreserves ==
    ASSUME AgentInv, NEW r, NEW asks \in Nat, ToolReply(r, asks)
    PROVE  AgentInv' /\ asked' \in {asked, asked + 1} /\ ran' = ran
<1>1. r \in DOMAIN runs /\ r \notin Asking /\ ran' = ran
  BY DEF ToolReply, Thinking, Asking
<1>2. r \in Nat
  BY <1>1 DEF AgentInv, AgentTypeOK
<1>3. <<NewEntry("tool_use", r)>> \in Seq(Entry)
  <2>1. NewEntry("tool_use", r) \in Entry
    BY <1>2 DEF NewEntry, Entry
  <2> QED BY <2>1
<1>4. pending = {runs[q].ask : q \in Asking \ {r}}
  <2>1. Asking \ {r} = Asking
    BY <1>1
  <2> QED BY <2>1 DEF AgentInv, PendingExact
<1>5. Proceed(r, asks, <<NewEntry("tool_use", r)>>, pending)
  BY DEF ToolReply
<1>6. ran' \in SUBSET (1 .. asked)
  BY <1>1 DEF AgentInv, AgentTypeOK
<1> QED BY <1>1, <1>3, <1>4, <1>5, <1>6, ProceedPreserves

\* The handlers of what the phone says, whichever.
LEMMA OnUserMessagePreserves ==
    ASSUME AgentInv, OnUserMessage
    PROVE  AgentInv'
<1>1. /\ Abort \in Seq(Run) /\ Len(Abort) = Len(runs) /\ DOMAIN Abort = DOMAIN runs
      /\ \A r \in DOMAIN runs : /\ Abort[r].pc = runs[r].pc
                                /\ Abort[r].ask = runs[r].ask
                                /\ Abort[r].left = runs[r].left
  BY AbortType
<1> DEFINE new == NextTurn(NewRun("thinking", FALSE, 0, 0, 0))
<1>2. new \in Run /\ new.pc # "asking"
  <2>1. NewRun("thinking", FALSE, 0, 0, 0) \in Run
    BY BoundsAssumption DEF NewRun, Run
  <2> QED BY <2>1, NextTurnType
<1>3. runs' = Append(Abort, new) /\ UNCHANGED <<pending, asked, ran, agentUp, bound, toPhone>>
  BY DEF OnUserMessage
<1> HIDE DEF new
<1>4. runs \in Seq(Run) /\ Len(runs) \in Nat /\ DOMAIN runs = 1 .. Len(runs)
  BY DEF AgentInv, AgentTypeOK
<1>5. /\ runs' \in Seq(Run) /\ DOMAIN runs' = 1 .. Len(runs) + 1 /\ runs'[Len(runs) + 1] = new
      /\ \A r \in DOMAIN runs : runs'[r] = Abort[r]
  BY <1>1, <1>2, <1>3, <1>4
<1>6. Asking' = Asking
  BY <1>1, <1>2, <1>4, <1>5 DEF Asking
<1>7. \A r \in Asking : runs'[r].ask = runs[r].ask /\ runs'[r].left = runs[r].left
  BY <1>1, <1>5 DEF Asking
<1>8. history' \in Seq(Entry)
  <2>1. NewEntry("user", Len(runs) + 1) \in Entry
    BY <1>4 DEF NewEntry, Entry
  <2> QED BY <2>1 DEF OnUserMessage, AgentInv, AgentTypeOK
<1> QED BY <1>3, <1>5, <1>6, <1>7, <1>8, SameQuestions

LEMMA OnInterruptPreserves ==
    ASSUME AgentInv, OnInterrupt
    PROVE  AgentInv'
<1>1. runs' = Abort /\ UNCHANGED <<history, pending, asked, ran, agentUp, bound, toPhone>>
  BY DEF OnInterrupt
<1>2. Asking' = Asking
  BY <1>1, AbortType DEF Asking
<1>3. \A r \in Asking : runs'[r].ask = runs[r].ask /\ runs'[r].left = runs[r].left
  BY <1>1, AbortType DEF Asking
<1>4. runs' \in Seq(Run) /\ history' \in Seq(Entry)
  BY <1>1, AbortType DEF AgentInv, AgentTypeOK
<1> QED BY <1>1, <1>2, <1>3, <1>4, SameQuestions
-----------------------------------------------------------------------------
\* A handler of the agent's connector, with the message it was called for.
LEMMA AgentReceivesPreserves ==
    ASSUME RemoteInv, AgentReceives
    PROVE  RemoteInv'
<1>1. AgentInv /\ PhoneInv /\ RanWithConsent /\ asked \in Nat
  BY InvParts DEF AgentInv, AgentTypeOK
<1> DEFINE m == Head(toAgent)
<1>2. toAgent # <<>> /\ m \in PhoneMessage /\ 1 \in DOMAIN toAgent /\ m = toAgent[1]
  BY <1>1 DEF AgentReceives, PhoneInv
<1>3. m.type = "control_response" =>
        m.behavior \in Behavior /\ (m.behavior = "allow" => m.id \in consent)
  BY <1>1, <1>2 DEF PhoneInv, AnswersGiven, PhoneMessage
<1>4. /\ toAgent' = Tail(toAgent)
      /\ UNCHANGED <<served, linked, waiting, slot, consent, sent, drops>>
  BY DEF AgentReceives
<1>5. AgentInv' /\ RanWithConsent' /\ asked' \in {asked, asked + 1}
  <2>1. CASE m.type = "user" /\ OnUserMessage
    <3>1. ran' = ran /\ asked' = asked
      BY <2>1 DEF OnUserMessage
    <3> QED BY <1>1, <1>4, <2>1, <3>1, OnUserMessagePreserves DEF RanWithConsent
  <2>2. CASE m.type = "interrupt" /\ OnInterrupt
    <3>1. ran' = ran /\ asked' = asked
      BY <2>2 DEF OnInterrupt
    <3> QED BY <1>1, <1>4, <2>2, <3>1, OnInterruptPreserves DEF RanWithConsent
  <2>3. CASE m.type = "control_response" /\ OnControlResponse(m.id, m.behavior)
    <3>1. CASE m.id \in pending /\ Decided(m.id, m.behavior)
      <4> DEFINE id == m.id
                 behavior == m.behavior
      <4>1. /\ id \in pending /\ behavior \in Behavior /\ Decided(id, behavior)
            /\ behavior = "allow" => id \in consent
        BY <1>3, <2>3, <3>1
      <4> HIDE DEF id, behavior
      <4> QED BY <1>1, <1>4, <4>1, DecidedPreserves DEF RanWithConsent
    <3>2. CASE UNCHANGED agentVars
      BY <1>1, <1>4, <3>2 DEF agentVars, AgentInv, AgentTypeOK, PendingExact, SomeLeft,
                              RequestsDrawn, RanWithConsent, Asking
    <3> QED BY <2>3, <3>1, <3>2 DEF OnControlResponse
  <2> QED BY <2>1, <2>2, <2>3 DEF AgentReceives
<1>6. PhoneInv'
  BY <1>1, <1>2, <1>4, <1>5, PhoneKept
<1> QED BY <1>5, <1>6, NextInvParts
-----------------------------------------------------------------------------
\* An answer that is given records the consent it carries.
LEMMA RespondPreserves ==
    ASSUME RemoteInv, NEW behavior \in Behavior, RespondToPermission(behavior)
    PROVE  RemoteInv'
<1> DEFINE m == [type |-> "control_response", id |-> slot, behavior |-> behavior]
<1>1. AgentInv /\ PhoneInv /\ RanWithConsent
  BY InvParts
<1>2. slot \in 1 .. asked /\ asked \in Nat
  BY <1>1 DEF RespondToPermission, PhoneInv, AgentInv, AgentTypeOK
<1>3. /\ m \in PhoneMessage /\ m.type = "control_response" /\ m.id = slot /\ m.behavior = behavior
  BY <1>2 DEF PhoneMessage
<1>4. /\ Transmit(m)
      /\ consent' = IF behavior = "allow" THEN consent \cup {slot} ELSE consent
      /\ slot' = 0
      /\ UNCHANGED <<served, linked, waiting, sent, drops>>
  BY DEF RespondToPermission
<1> HIDE DEF m
<1>5. /\ toAgent' \in Seq(PhoneMessage)
      /\ \A i \in DOMAIN toAgent' :
            (i \in DOMAIN toAgent /\ toAgent'[i] = toAgent[i]) \/ toAgent'[i] = m
  BY <1>1, <1>3, <1>4, TransmitType DEF PhoneInv
<1>6. /\ UNCHANGED <<runs, history, pending, asked, ran, agentUp, toPhone>>
      /\ bound' \in BOOLEAN /\ agentUp' \in BOOLEAN
  BY <1>1, <1>4 DEF Transmit, AgentInv, AgentTypeOK, PhoneInv
<1>7. AgentInv'
  BY <1>1, <1>6, AgentKept
<1>8. consent' \in SUBSET (1 .. asked) /\ consent \subseteq consent'
      /\ (behavior = "allow" => slot \in consent')
  BY <1>1, <1>2, <1>4 DEF PhoneInv
<1>9. AnswersGiven'
  BY <1>1, <1>2, <1>3, <1>5, <1>6, <1>8 DEF PhoneInv, AnswersGiven
<1>10. PhoneInv'
  <2>1. slot' \in 0 .. asked'
    BY <1>2, <1>4, <1>6
  <2> QED BY <1>1, <1>4, <1>5, <1>6, <1>8, <1>9, <2>1 DEF PhoneInv
<1>11. RanWithConsent'
  BY <1>1, <1>6, <1>8 DEF RanWithConsent
<1> QED BY <1>7, <1>10, <1>11, NextInvParts

\* A message or an interrupt carries no consent.
LEMMA SayingPreserves ==
    ASSUME RemoteInv, NEW type \in {"user", "interrupt"}, Transmit([type |-> type]),
           UNCHANGED <<served, linked, slot, consent, drops>>,
           waiting' \in BOOLEAN, sent' \in Nat
    PROVE  RemoteInv'
<1> DEFINE m == [type |-> type]
<1>1. AgentInv /\ PhoneInv /\ RanWithConsent
  BY InvParts
<1>2. m \in PhoneMessage /\ m.type # "control_response" /\ Transmit(m)
  BY DEF PhoneMessage
<1> HIDE DEF m
<1>3. /\ toAgent' \in Seq(PhoneMessage)
      /\ \A i \in DOMAIN toAgent' :
            (i \in DOMAIN toAgent /\ toAgent'[i] = toAgent[i]) \/ toAgent'[i] = m
  BY <1>1, <1>2, TransmitType DEF PhoneInv
<1>4. /\ UNCHANGED <<runs, history, pending, asked, ran, agentUp, toPhone>>
      /\ bound' \in BOOLEAN /\ agentUp' \in BOOLEAN
  BY <1>1, <1>2 DEF Transmit, AgentInv, AgentTypeOK, PhoneInv
<1>5. AgentInv'
  BY <1>1, <1>4, AgentKept
<1>6. AnswersGiven'
  BY <1>1, <1>2, <1>3, <1>4 DEF PhoneInv, AnswersGiven
<1>7. PhoneInv' /\ RanWithConsent'
  BY <1>1, <1>3, <1>4, <1>6 DEF PhoneInv, RanWithConsent
<1> QED BY <1>5, <1>7, NextInvParts

\* The phone takes a message: a request it takes has been drawn.
LEMMA HandleMessagePreserves ==
    ASSUME RemoteInv, HandleMessage
    PROVE  RemoteInv'
<1> DEFINE m == Head(toPhone)
<1>1. AgentInv /\ PhoneInv /\ RanWithConsent
  BY InvParts
<1>2. /\ toPhone # <<>> /\ toPhone' = Tail(toPhone) /\ slot' = HandleControlRequest(m)
      /\ waiting' = HandleResult(m)
      /\ UNCHANGED <<runs, history, pending, asked, ran, agentUp, bound>>
      /\ UNCHANGED <<served, linked, toAgent, consent, sent, drops>>
  BY DEF HandleMessage
<1>3. 1 \in DOMAIN toPhone /\ m = toPhone[1]
  BY <1>1, <1>2 DEF AgentInv, AgentTypeOK
<1>4. m.type = "control_request" => m.id \in 1 .. asked
  BY <1>1, <1>3 DEF AgentInv, RequestsDrawn
<1>5. slot' \in 0 .. asked
  BY <1>1, <1>2, <1>4 DEF HandleControlRequest, PhoneInv, AgentInv, AgentTypeOK
<1>6. waiting' \in BOOLEAN
  BY <1>1, <1>2 DEF HandleResult, PhoneInv
<1>7. AgentInv'
  BY <1>1, <1>2, AgentKept DEF AgentInv, AgentTypeOK
<1>8. PhoneInv' /\ RanWithConsent'
  BY <1>1, <1>2, <1>5, <1>6 DEF PhoneInv, AnswersGiven, RanWithConsent
<1> QED BY <1>7, <1>8, NextInvParts

\* Connections break and come back.
LEMMA ConnectionsPreserve ==
    ASSUME RemoteInv, PhoneDrops \/ PhoneReconnects \/ AgentDrops \/ AgentReconnects
    PROVE  RemoteInv'
<1>1. AgentInv /\ PhoneInv /\ RanWithConsent
  BY InvParts
<1> DEFINE types == /\ agentUp \in BOOLEAN /\ bound \in BOOLEAN
                    /\ served \in BOOLEAN /\ linked \in BOOLEAN
<1>2. types /\ drops \in Nat
  BY <1>1 DEF AgentInv, AgentTypeOK, PhoneInv
<1>3. /\ UNCHANGED <<runs, history, pending, asked, ran, waiting, slot, consent, sent>>
      /\ agentUp' \in BOOLEAN /\ bound' \in BOOLEAN /\ served' \in BOOLEAN /\ linked' \in BOOLEAN
      /\ toPhone' \in {toPhone, <<>>} /\ toAgent' \in {toAgent, <<>>}
  <2>1. CASE PhoneDrops
    BY <1>2, <2>1 DEF PhoneDrops
  <2>2. CASE PhoneReconnects
    BY <1>2, <2>2 DEF PhoneReconnects, agentVars
  <2>3. CASE AgentDrops
    BY <1>2, <2>3 DEF AgentDrops
  <2>4. CASE AgentReconnects
    BY <1>2, <2>4 DEF AgentReconnects
  <2> QED BY <2>1, <2>2, <2>3, <2>4
<1>4. drops' \in Nat
  BY <1>2 DEF PhoneDrops, PhoneReconnects, AgentDrops, AgentReconnects
<1>5. AgentInv'
  BY <1>1, <1>3, AgentKept
<1>6. toAgent' \in Seq(PhoneMessage) /\ AnswersGiven'
  <2>1. CASE toAgent' = toAgent
    BY <1>1, <1>3, <2>1 DEF PhoneInv, AnswersGiven
  <2>2. CASE toAgent' = <<>>
    BY <2>2 DEF AnswersGiven
  <2> QED BY <1>3, <2>1, <2>2
<1>7. PhoneInv' /\ RanWithConsent'
  BY <1>1, <1>3, <1>6, <1>4 DEF PhoneInv, RanWithConsent
<1> QED BY <1>5, <1>7, NextInvParts

\* The model answers, or a timeout fires.
LEMMA AgentStepPreserves ==
    ASSUME RemoteInv, AgentStep
    PROVE  RemoteInv'
<1>1. AgentInv /\ PhoneInv /\ RanWithConsent /\ asked \in Nat /\ history \in Seq(Entry)
  BY InvParts DEF AgentInv, AgentTypeOK
<1>2. UNCHANGED <<served, linked, waiting, slot, toAgent, consent, sent, drops>>
  BY DEF AgentStep
<1>3. AgentInv' /\ RanWithConsent' /\ asked' \in {asked, asked + 1}
  <2>1. ASSUME NEW r \in Thinking, NEW asks \in Asks, ToolReply(r, asks)
        PROVE  AgentInv' /\ RanWithConsent' /\ asked' \in {asked, asked + 1}
    <3>1. asks \in Nat
      BY BoundsAssumption
    <3> QED BY <1>1, <1>2, <2>1, <3>1, ToolReplyPreserves DEF RanWithConsent
  <2>2. ASSUME NEW r \in Thinking, NEW kind \in {"text", "tool_use"}, FinalReply(r, kind)
        PROVE  AgentInv' /\ RanWithConsent' /\ asked' \in {asked, asked + 1}
    <3>1. NewEntry(kind, r) \in Entry
      BY <1>1 DEF NewEntry, Entry, Thinking, AgentInv, AgentTypeOK
    <3>2. history' \in Seq(Entry) /\ Finish(r, "success")
      BY <1>1, <2>2, <3>1 DEF FinalReply
    <3> QED BY <1>1, <1>2, <3>2, FinishPreserves DEF Outcome, Finish, RanWithConsent
  <2>3. ASSUME NEW r \in Thinking, CallFails(r)
        PROVE  AgentInv' /\ RanWithConsent' /\ asked' \in {asked, asked + 1}
    <3>1. history' \in Seq(Entry) /\ Finish(r, "error")
      BY <1>1, <2>3 DEF CallFails
    <3> QED BY <1>1, <1>2, <3>1, FinishPreserves DEF Outcome, Finish, RanWithConsent
  <2>4. ASSUME NEW id \in pending, TimerFires(id)
        PROVE  AgentInv' /\ RanWithConsent' /\ asked' \in {asked, asked + 1}
    <3>1. Decided(id, "deny") /\ "deny" \in Behavior /\ "deny" # "allow"
      BY <2>4 DEF TimerFires, Behavior
    <3>2. ran \subseteq consent
      BY <1>1 DEF RanWithConsent
    <3> QED BY <1>1, <1>2, <3>1, <3>2, DecidedPreserves
  <2> QED BY <2>1, <2>2, <2>3, <2>4 DEF AgentStep
<1>4. PhoneInv'
  BY <1>1, <1>2, <1>3, PhoneKept
<1> QED BY <1>3, <1>4, NextInvParts

LEMMA NextPreserves == RemoteInv /\ [Next]_vars => RemoteInv'
<1> SUFFICES ASSUME RemoteInv, [Next]_vars PROVE RemoteInv'
  OBVIOUS
<1>1. CASE SendMessage
  BY <1>1, SayingPreserves DEF SendMessage, RemoteInv, TypeOK
<1>2. CASE SendInterrupt
  BY <1>2, SayingPreserves DEF SendInterrupt, RemoteInv, TypeOK
<1>3. ASSUME NEW behavior \in Behavior, RespondToPermission(behavior) PROVE RemoteInv'
  BY <1>3, RespondPreserves
<1>4. CASE Dismiss
  <2>1. AgentInv /\ PhoneInv /\ RanWithConsent /\ asked \in Nat
    BY InvParts DEF AgentInv, AgentTypeOK
  <2>2. slot' = 0 /\ UNCHANGED <<runs, history, pending, asked, ran, agentUp, bound, toPhone>>
        /\ UNCHANGED <<served, linked, waiting, toAgent, consent, sent, drops>>
    BY <1>4 DEF Dismiss, agentVars
  <2>3. AgentInv'
    BY <2>1, <2>2, AgentKept DEF AgentInv, AgentTypeOK
  <2>4. PhoneInv' /\ RanWithConsent'
    BY <2>1, <2>2 DEF PhoneInv, AnswersGiven, RanWithConsent
  <2> QED BY <2>3, <2>4, NextInvParts
<1>5. CASE HandleMessage
  BY <1>5, HandleMessagePreserves
<1>6. CASE AgentReceives
  BY <1>6, AgentReceivesPreserves
<1>7. CASE PhoneDrops \/ PhoneReconnects \/ AgentDrops \/ AgentReconnects
  BY <1>7, ConnectionsPreserve
<1>8. CASE AgentStep
  BY <1>8, AgentStepPreserves
<1>9. CASE UNCHANGED vars
  BY <1>9 DEF vars, agentVars, RemoteInv, TypeOK, AgentTypeOK, PendingExact, SomeLeft,
              RequestsDrawn, AnswersGiven, RanWithConsent, Asking
<1> QED BY <1>1, <1>2, <1>3, <1>4, <1>5, <1>6, <1>7, <1>8, <1>9 DEF Next

-----------------------------------------------------------------------------
(* The history.  An entry is appended where the entries of its run allow   *)
(* it, and those of the other runs are not concerned.                      *)

LEMMA ExtendInOrder ==
    ASSUME NEW h \in Seq(Entry), NEW e \in Entry, InOrder(h), e.kind # "user",
           NEW kinds, EndsWith(h, e.run, kinds), \A kind \in kinds : MayFollow(kind, e.kind)
    PROVE  InOrder(Append(h, e))
<1> DEFINE g == Append(h, e)
           n == Len(h) + 1
           before(s, j) == {i \in 1 .. j - 1 : s[i].run = s[j].run}
<1>1. /\ n \in Nat /\ DOMAIN g = 1 .. n /\ g[n] = e /\ DOMAIN h = 1 .. n - 1
      /\ \A i \in 1 .. n - 1 : g[i] = h[i]
  OBVIOUS
<1> HIDE DEF g
<1>2. ASSUME NEW j \in 1 .. n - 1
      PROVE  /\ g[j].kind = "user" <=> before(g, j) = {}
             /\ \A i \in before(g, j) :
                   (\A k \in i + 1 .. j - 1 : k \notin before(g, j)) => MayFollow(g[i].kind, g[j].kind)
  <2>1. before(g, j) = before(h, j) /\ \A i \in before(g, j) : i \in 1 .. n - 1
    BY <1>1
  <2>2. /\ h[j].kind = "user" <=> before(h, j) = {}
        /\ \A i \in before(h, j) :
              (\A k \in i + 1 .. j - 1 : k \notin before(h, j)) => MayFollow(h[i].kind, h[j].kind)
    BY <1>1 DEF InOrder
  <2> HIDE DEF before
  <2> QED BY <1>1, <2>1, <2>2
<1>3. PICK l \in 1 .. n - 1 : /\ h[l].run = e.run /\ h[l].kind \in kinds
                              /\ \A k \in l + 1 .. n - 1 : h[k].run # e.run
  BY <1>1 DEF EndsWith
<1>4. before(g, n) = {i \in 1 .. n - 1 : h[i].run = e.run} /\ l \in before(g, n)
  BY <1>1, <1>3
<1>5. ASSUME NEW i \in before(g, n), \A k \in i + 1 .. n - 1 : k \notin before(g, n)
      PROVE  i = l
  <2>1. i \in 1 .. n - 1 /\ g[i].run = e.run /\ h[i].run = e.run
    BY <1>1, <1>4
  <2>2. ~(i < l)
    BY <1>4, <1>5, <2>1
  <2>3. ~(l < i)
    BY <1>3, <2>1
  <2> QED BY <2>1, <2>2, <2>3
<1>6. \A i \in before(g, n) :
        (\A k \in i + 1 .. n - 1 : k \notin before(g, n)) => MayFollow(g[i].kind, g[n].kind)
  BY <1>1, <1>3, <1>5
<1>7. g[n].kind # "user" /\ before(g, n) # {}
  BY <1>1, <1>4
<1> QED
  <2> SUFFICES ASSUME NEW j \in DOMAIN g
               PROVE  /\ g[j].kind = "user" <=> before(g, j) = {}
                      /\ \A i \in before(g, j) :
                            (\A k \in i + 1 .. j - 1 : k \notin before(g, j))
                              => MayFollow(g[i].kind, g[j].kind)
    BY DEF InOrder, g
  <2> HIDE DEF before
  <2> QED BY <1>1, <1>2, <1>6, <1>7

LEMMA EndsNow ==
    ASSUME NEW h \in Seq(Entry), NEW e \in Entry, NEW kinds, e.kind \in kinds
    PROVE  EndsWith(Append(h, e), e.run, kinds)
<1>1. /\ Len(h) + 1 \in DOMAIN Append(h, e) /\ Append(h, e)[Len(h) + 1] = e
      /\ Len(Append(h, e)) = Len(h) + 1 /\ Len(h) \in Nat
  OBVIOUS
<1>2. \A k \in Len(h) + 1 + 1 .. Len(Append(h, e)) : Append(h, e)[k].run # e.run
  BY <1>1
<1> QED BY <1>1, <1>2 DEF EndsWith

LEMMA EndsKept ==
    ASSUME NEW h \in Seq(Entry), NEW e \in Entry, NEW r, r # e.run,
           NEW kinds, EndsWith(h, r, kinds)
    PROVE  EndsWith(Append(h, e), r, kinds)
<1>1. PICK i \in DOMAIN h : /\ h[i].run = r /\ h[i].kind \in kinds
                           /\ \A k \in i + 1 .. Len(h) : h[k].run # r
  BY DEF EndsWith
<1>2. /\ i \in DOMAIN Append(h, e) /\ Append(h, e)[i] = h[i]
      /\ \A k \in i + 1 .. Len(Append(h, e)) : Append(h, e)[k].run # r
  BY <1>1
<1> QED BY <1>1, <1>2 DEF EndsWith

\* An entry of a run that has none yet is its message.
LEMMA BeginInOrder ==
    ASSUME NEW h \in Seq(Entry), NEW e \in Entry, InOrder(h), e.kind = "user",
           \A i \in DOMAIN h : h[i].run # e.run
    PROVE  InOrder(Append(h, e))
<1> DEFINE g == Append(h, e)
           n == Len(h) + 1
           before(s, j) == {i \in 1 .. j - 1 : s[i].run = s[j].run}
<1>1. /\ n \in Nat /\ DOMAIN g = 1 .. n /\ g[n] = e /\ DOMAIN h = 1 .. n - 1
      /\ \A i \in 1 .. n - 1 : g[i] = h[i]
  OBVIOUS
<1> HIDE DEF g
<1>2. ASSUME NEW j \in 1 .. n - 1
      PROVE  /\ g[j].kind = "user" <=> before(g, j) = {}
             /\ \A i \in before(g, j) :
                   (\A k \in i + 1 .. j - 1 : k \notin before(g, j)) => MayFollow(g[i].kind, g[j].kind)
  <2>1. before(g, j) = before(h, j) /\ \A i \in before(g, j) : i \in 1 .. n - 1
    BY <1>1
  <2>2. /\ h[j].kind = "user" <=> before(h, j) = {}
        /\ \A i \in before(h, j) :
              (\A k \in i + 1 .. j - 1 : k \notin before(h, j)) => MayFollow(h[i].kind, h[j].kind)
    BY <1>1 DEF InOrder
  <2> HIDE DEF before
  <2> QED BY <1>1, <2>1, <2>2
<1>3. before(g, n) = {} /\ g[n].kind = "user"
  BY <1>1
<1> QED
  <2> SUFFICES ASSUME NEW j \in DOMAIN g
               PROVE  /\ g[j].kind = "user" <=> before(g, j) = {}
                      /\ \A i \in before(g, j) :
                            (\A k \in i + 1 .. j - 1 : k \notin before(g, j))
                              => MayFollow(g[i].kind, g[j].kind)
    BY DEF InOrder, g
  <2> HIDE DEF before
  <2> QED BY <1>1, <1>2, <1>3

\* Every entry belongs to a call there has been.
EntriesOwned == \A i \in DOMAIN history : history[i].run \in DOMAIN runs

HistoryInv == ResultsFollowCalls /\ EntriesOwned

\* A call goes on after a tool use, which the history has by then.
LEMMA ProceedHistory ==
    ASSUME AgentInv, NEW r \in DOMAIN runs, NEW left \in Nat, NEW entries \in Seq(Entry), NEW rest,
           Proceed(r, left, entries, rest),
           NEW h \in Seq(Entry), h = history \o entries, InOrder(h), EndsWith(h, r, {"tool_use"}),
           \A q \in DOMAIN runs \ {r} : EndsWith(h, q, LastEntry(runs[q].pc)),
           \A i \in DOMAIN h : h[i].run \in DOMAIN runs
    PROVE  HistoryInv'
<1> DEFINE next == RunTools(r, runs[r], left)
           e == NewEntry("tool_result", r)
<1>0. runs \in Seq(Run) /\ r \in Nat
  BY DEF AgentInv, AgentTypeOK
<1>1. /\ runs' = [runs EXCEPT ![r] = next.run]
      /\ history' = h \o next.entry
  BY DEF Proceed
<1>2. /\ DOMAIN runs' = DOMAIN runs /\ runs'[r] = next.run
      /\ \A q \in DOMAIN runs \ {r} : runs'[q] = runs[q]
  BY <1>0, <1>1
<1>3. e \in Entry /\ e.run = r /\ e.kind = "tool_result" /\ MayFollow("tool_use", e.kind)
  BY <1>0 DEF NewEntry, Entry, MayFollow
<1>4. CASE left # 0
  <2>1. next.run.pc = "asking" /\ history' = h
    BY <1>1, <1>4 DEF RunTools, NewRun
  <2>2. EndsWith(h, r, LastEntry(next.run.pc))
    BY <2>1 DEF LastEntry
  <2> QED BY <1>2, <2>1, <2>2 DEF HistoryInv, ResultsFollowCalls, EntriesOwned
<1>5. CASE left = 0
  <2>1. next.entry = <<e>> /\ next.run.pc \in {"thinking", "success", "interrupted"}
    BY <1>5 DEF RunTools, NextTurn, Returned, NewRun
  <2>2. history' = Append(h, e)
    BY <1>1, <1>3, <2>1
  <2>3. e.kind \in LastEntry(next.run.pc)
    BY <1>3, <2>1 DEF LastEntry
  <2> HIDE DEF e, next
  <2>4. InOrder(Append(h, e))
    <3> DEFINE kinds == {"tool_use"}
    <3>1. e.kind # "user" /\ EndsWith(h, e.run, kinds) /\ \A kind \in kinds : MayFollow(kind, e.kind)
      BY <1>3
    <3> HIDE DEF kinds
    <3> QED BY <1>3, <3>1, ExtendInOrder
  <2>5. EndsWith(Append(h, e), r, LastEntry(next.run.pc))
    BY <1>3, <2>3, EndsNow
  <2>6. \A q \in DOMAIN runs \ {r} : EndsWith(Append(h, e), q, LastEntry(runs[q].pc))
    BY <1>3, EndsKept
  <2>7. \A i \in DOMAIN Append(h, e) : Append(h, e)[i].run \in DOMAIN runs
    BY <1>3
  <2> QED BY <1>2, <2>2, <2>4, <2>5, <2>6, <2>7 DEF HistoryInv, ResultsFollowCalls, EntriesOwned
<1> QED BY <1>4, <1>5

LEMMA DecidedHistory ==
    ASSUME AgentInv, HistoryInv, NEW id, NEW behavior, Decided(id, behavior)
    PROVE  HistoryInv'
<1>1. PICK r \in Asking : Proceed(r, runs[r].left - 1, <<>>, pending \ {id})
  BY DEF Decided
<1>2. r \in DOMAIN runs /\ runs[r].pc = "asking" /\ runs[r].left - 1 \in Nat
  <2>1. runs[r] \in Run /\ runs[r].left # 0 /\ r \in DOMAIN runs /\ runs[r].pc = "asking"
    BY DEF Asking, AgentInv, AgentTypeOK, SomeLeft
  <2>2. runs[r].left \in Nat
    BY <2>1 DEF Run
  <2> QED BY <2>1, <2>2
<1>3. <<>> \in Seq(Entry) /\ history = history \o <<>> /\ history \in Seq(Entry)
  BY DEF AgentInv, AgentTypeOK
<1>4. EndsWith(history, r, {"tool_use"})
  BY <1>2 DEF HistoryInv, ResultsFollowCalls, LastEntry
<1> QED BY <1>1, <1>2, <1>3, <1>4, ProceedHistory DEF HistoryInv, ResultsFollowCalls, EntriesOwned

\* A thinking call adds an entry that is neither its message nor results.
LEMMA ReplyHistory ==
    ASSUME AgentInv, HistoryInv, NEW r \in Thinking, NEW kind \in {"text", "tool_use"},
           NEW h, h = Append(history, NewEntry(kind, r))
    PROVE  /\ h \in Seq(Entry) /\ InOrder(h) /\ EndsWith(h, r, {kind})
           /\ \A q \in DOMAIN runs \ {r} : EndsWith(h, q, LastEntry(runs[q].pc))
           /\ \A i \in DOMAIN h : h[i].run \in DOMAIN runs
<1> DEFINE e == NewEntry(kind, r)
<1>1. /\ r \in DOMAIN runs /\ runs[r].pc = "thinking" /\ r \in Nat /\ history \in Seq(Entry)
  BY DEF Thinking, AgentInv, AgentTypeOK
<1>2. e \in Entry /\ e.run = r /\ e.kind = kind /\ e.kind # "user"
      /\ \A k \in {"user", "tool_result"} : MayFollow(k, e.kind)
  BY <1>1 DEF NewEntry, Entry, MayFollow
<1>3. h = Append(history, e)
  OBVIOUS
<1> HIDE DEF e
<1>4. EndsWith(history, r, {"user", "tool_result"}) /\ InOrder(history)
  BY <1>1 DEF HistoryInv, ResultsFollowCalls, LastEntry
<1>5. InOrder(h)
  BY <1>1, <1>2, <1>3, <1>4, ExtendInOrder
<1>6. EndsWith(h, r, {kind})
  BY <1>1, <1>2, <1>3, EndsNow
<1>7. \A q \in DOMAIN runs \ {r} : EndsWith(h, q, LastEntry(runs[q].pc))
  BY <1>1, <1>2, <1>3, EndsKept DEF HistoryInv, ResultsFollowCalls
<1>8. \A i \in DOMAIN h : h[i].run \in DOMAIN runs
  BY <1>1, <1>2, <1>3 DEF HistoryInv, EntriesOwned
<1> QED BY <1>1, <1>2, <1>3, <1>5, <1>6, <1>7, <1>8

LEMMA FinishHistory ==
    ASSUME AgentInv, HistoryInv, NEW r \in Thinking,
           CallFails(r) \/ \E kind \in {"text", "tool_use"} : FinalReply(r, kind)
    PROVE  HistoryInv'
<1>1. runs \in Seq(Run) /\ r \in DOMAIN runs /\ runs[r].pc = "thinking"
  BY DEF Thinking, AgentInv, AgentTypeOK
<1>2. CASE CallFails(r)
  <2>1. /\ DOMAIN runs' = DOMAIN runs /\ runs'[r].pc = "error" /\ history' = history
        /\ \A q \in DOMAIN runs \ {r} : runs'[q] = runs[q]
    BY <1>1, <1>2 DEF CallFails, Finish, Returned, NewRun
  <2>2. LastEntry("thinking") = LastEntry("error")
    BY DEF LastEntry
  <2> QED BY <1>1, <2>1, <2>2 DEF HistoryInv, ResultsFollowCalls, EntriesOwned
<1>3. ASSUME NEW kind \in {"text", "tool_use"}, FinalReply(r, kind)
      PROVE  HistoryInv'
  <2>1. /\ DOMAIN runs' = DOMAIN runs /\ runs'[r].pc = "success"
        /\ history' = Append(history, NewEntry(kind, r))
        /\ \A q \in DOMAIN runs \ {r} : runs'[q] = runs[q]
    BY <1>1, <1>3 DEF FinalReply, Finish, Returned, NewRun
  <2> DEFINE h == Append(history, NewEntry(kind, r))
  <2> HIDE DEF h
  <2>2. /\ h \in Seq(Entry) /\ InOrder(h) /\ EndsWith(h, r, {kind})
        /\ \A q \in DOMAIN runs \ {r} : EndsWith(h, q, LastEntry(runs[q].pc))
        /\ \A i \in DOMAIN h : h[i].run \in DOMAIN runs
    BY ReplyHistory DEF h
  <2>3. EndsWith(h, r, LastEntry("success"))
    BY <2>2 DEF EndsWith, LastEntry
  <2>4. history' = h
    BY <2>1 DEF h
  <2> QED BY <2>1, <2>2, <2>3, <2>4 DEF HistoryInv, ResultsFollowCalls, EntriesOwned
<1> QED BY <1>2, <1>3

LEMMA ToolReplyHistory ==
    ASSUME AgentInv, HistoryInv, NEW r, NEW asks \in Nat, ToolReply(r, asks)
    PROVE  HistoryInv'
<1> DEFINE e == NewEntry("tool_use", r)
           h == Append(history, e)
<1>1. r \in Thinking /\ r \in DOMAIN runs /\ r \in Nat /\ history \in Seq(Entry)
      /\ Proceed(r, asks, <<e>>, pending)
  BY DEF ToolReply, Thinking, AgentInv, AgentTypeOK
<1>2. e \in Entry
  BY <1>1 DEF NewEntry, Entry
<1>3. /\ h \in Seq(Entry) /\ InOrder(h) /\ EndsWith(h, r, {"tool_use"})
      /\ \A q \in DOMAIN runs \ {r} : EndsWith(h, q, LastEntry(runs[q].pc))
      /\ \A i \in DOMAIN h : h[i].run \in DOMAIN runs
  BY <1>1, ReplyHistory
<1>4. <<e>> \in Seq(Entry) /\ h = history \o <<e>>
  <2> HIDE DEF e
  <2> QED BY <1>1, <1>2
<1> HIDE DEF e, h
<1> QED BY <1>1, <1>3, <1>4, ProceedHistory

\* A message begins the history of its call, and Abort ends no call.
LEMMA OnUserMessageHistory ==
    ASSUME AgentInv, HistoryInv, OnUserMessage
    PROVE  HistoryInv'
<1> DEFINE n == Len(runs) + 1
           e == NewEntry("user", n)
           h == Append(history, e)
           new == NextTurn(NewRun("thinking", FALSE, 0, 0, 0))
<1>1. /\ runs \in Seq(Run) /\ n \in Nat /\ DOMAIN runs = 1 .. n - 1 /\ history \in Seq(Entry)
      /\ e \in Entry /\ e.run = n /\ e.kind = "user"
  BY DEF AgentInv, AgentTypeOK, NewEntry, Entry
<1>2. new.pc \in {"thinking", "success", "interrupted"} /\ MaxTurns # 0
  BY BoundsAssumption DEF NextTurn, Returned, NewRun
<1>3. new.pc = "thinking"
  BY <1>2 DEF NextTurn, NewRun
<1>4. /\ Abort \in Seq(Run) /\ Len(Abort) = n - 1
      /\ \A r \in DOMAIN runs : Abort[r].pc = runs[r].pc
  BY <1>1, AbortType
<1>5. runs' = Append(Abort, new) /\ history' = h
  BY DEF OnUserMessage
<1> HIDE DEF n, e, new
<1>6. /\ DOMAIN runs' = 1 .. n /\ runs'[n] = new /\ n \in DOMAIN runs'
      /\ \A r \in DOMAIN runs : runs'[r] = Abort[r]
  BY <1>1, <1>4, <1>5
<1>7. InOrder(h)
  <2>1. \A i \in DOMAIN history : history[i].run # e.run
    BY <1>1 DEF HistoryInv, EntriesOwned
  <2> QED BY <1>1, <2>1, BeginInOrder DEF HistoryInv, ResultsFollowCalls
<1>8. EndsWith(h, n, LastEntry("thinking"))
  <2>1. e.kind \in LastEntry("thinking")
    BY <1>1 DEF LastEntry
  <2> QED BY <1>1, <2>1, EndsNow
<1>9. \A r \in DOMAIN runs : EndsWith(h, r, LastEntry(runs'[r].pc))
  <2> TAKE r \in DOMAIN runs
  <2>1. r # e.run /\ EndsWith(history, r, LastEntry(runs[r].pc))
    BY <1>1 DEF HistoryInv, ResultsFollowCalls
  <2>2. EndsWith(h, r, LastEntry(runs[r].pc))
    BY <1>1, <2>1, EndsKept
  <2> QED BY <1>4, <1>6, <2>2
<1>10. \A i \in DOMAIN h : h[i].run \in DOMAIN runs'
  BY <1>1, <1>6 DEF HistoryInv, EntriesOwned
<1> HIDE DEF h
<1>11. \A r \in DOMAIN runs' : EndsWith(h, r, LastEntry(runs'[r].pc))
  <2> TAKE r \in DOMAIN runs'
  <2>1. CASE r = n
    BY <1>3, <1>6, <1>8, <2>1
  <2>2. CASE r # n
    <3>1. r \in DOMAIN runs
      BY <1>1, <1>6, <2>2
    <3> QED BY <1>9, <3>1
  <2> QED BY <2>1, <2>2
<1> QED BY <1>5, <1>7, <1>10, <1>11 DEF HistoryInv, ResultsFollowCalls, EntriesOwned

LEMMA SameHistory ==
    ASSUME HistoryInv, history' = history, DOMAIN runs' = DOMAIN runs,
           \A r \in DOMAIN runs : runs'[r].pc = runs[r].pc
    PROVE  HistoryInv'
  BY DEF HistoryInv, ResultsFollowCalls, EntriesOwned

LEMMA NextHistory == RemoteInv /\ HistoryInv /\ [Next]_vars => HistoryInv'
<1> SUFFICES ASSUME RemoteInv, HistoryInv, [Next]_vars PROVE HistoryInv'
  OBVIOUS
<1>1. AgentInv
  BY InvParts
<1>2. CASE runs' = runs /\ history' = history
  BY <1>2, SameHistory
<1>3. CASE AgentReceives
  <2>1. CASE OnUserMessage
    BY <1>1, <2>1, OnUserMessageHistory
  <2>2. CASE OnInterrupt
    BY <1>1, <2>2, AbortType, SameHistory DEF OnInterrupt
  <2>3. ASSUME NEW id, NEW behavior, Decided(id, behavior) PROVE HistoryInv'
    BY <1>1, <2>3, DecidedHistory
  <2> QED BY <1>2, <1>3, <2>1, <2>2, <2>3 DEF AgentReceives, OnControlResponse, agentVars
<1>4. CASE AgentStep
  <2>1. ASSUME NEW r \in Thinking, NEW asks \in Asks, ToolReply(r, asks) PROVE HistoryInv'
    <3>1. asks \in Nat
      BY BoundsAssumption
    <3> QED BY <1>1, <2>1, <3>1, ToolReplyHistory
  <2>2. ASSUME NEW r \in Thinking,
               CallFails(r) \/ \E kind \in {"text", "tool_use"} : FinalReply(r, kind)
        PROVE  HistoryInv'
    BY <1>1, <2>2, FinishHistory
  <2>3. ASSUME NEW id \in pending, TimerFires(id) PROVE HistoryInv'
    BY <1>1, <2>3, DecidedHistory DEF TimerFires
  <2> QED BY <1>4, <2>1, <2>2, <2>3 DEF AgentStep
<1>5. [Next]_vars => (runs' = runs /\ history' = history) \/ AgentReceives \/ AgentStep
  BY DEF Next, vars, agentVars, SendMessage, SendInterrupt, RespondToPermission, Dismiss, Transmit,
         HandleMessage, PhoneDrops, PhoneReconnects, AgentDrops, AgentReconnects
<1> QED BY <1>2, <1>3, <1>4, <1>5

-----------------------------------------------------------------------------
(* Each request as a question by itself, whichever.                        *)

\* A step that answers request id, or none (id 0), and may put the next one.
AnswersAndAsks(id) ==
    /\ asked' \in {asked, asked + 1}
    /\ pending' = (pending \ {id}) \cup (1 .. asked' \ 1 .. asked)
    /\ ran' \in {ran, ran \cup {id}}
    /\ ran' # ran => id \in consent
    /\ id \in pending \cup {0} /\ (id = 0 => ran' = ran)
    /\ consent' = consent

LEMMA ProceedAsks ==
    ASSUME asked \in Nat, NEW r, NEW left \in Nat, NEW entries, NEW rest,
           Proceed(r, left, entries, rest)
    PROVE  asked' \in {asked, asked + 1} /\ pending' = rest \cup (1 .. asked' \ 1 .. asked)
<1>1. asked' = (IF left = 0 THEN asked ELSE asked + 1)
      /\ pending' = rest \cup (IF left = 0 THEN {} ELSE {asked + 1})
  BY DEF Proceed, RunTools
<1>2. 1 .. asked \ 1 .. asked = {} /\ 1 .. asked + 1 \ 1 .. asked = {asked + 1}
  OBVIOUS
<1> QED BY <1>1, <1>2

LEMMA DecidedAsks ==
    ASSUME AgentInv, NEW id \in pending, NEW behavior, Decided(id, behavior),
           behavior = "allow" => id \in consent, consent' = consent
    PROVE  AnswersAndAsks(id)
<1>1. PICK r \in Asking : /\ ran' = IF behavior = "allow" THEN ran \cup {id} ELSE ran
                          /\ Proceed(r, runs[r].left - 1, <<>>, pending \ {id})
  BY DEF Decided
<1>2. runs[r] \in Run /\ runs[r].left # 0 /\ asked \in Nat /\ id \in 1 .. asked
  BY DEF Asking, AgentInv, AgentTypeOK, SomeLeft
<1>3. runs[r].left - 1 \in Nat
  BY <1>2 DEF Run
<1>4. asked' \in {asked, asked + 1} /\ pending' = (pending \ {id}) \cup (1 .. asked' \ 1 .. asked)
  BY <1>1, <1>2, <1>3, ProceedAsks
<1> QED BY <1>1, <1>2, <1>4 DEF AnswersAndAsks

\* What a step does to the questions: it answers one and puts one, or it records
\* consent to the one in the phone's slot.
LEMMA StepOnQuestions ==
    ASSUME RemoteInv, [Next]_vars
    PROVE  \/ \E id \in pending \cup {0} : AnswersAndAsks(id)
           \/ /\ UNCHANGED <<ran, pending, asked>>
              /\ slot \in 1 .. asked /\ consent' = consent \cup {slot}
<1>1. AgentInv /\ PhoneInv /\ RanWithConsent /\ asked \in Nat /\ pending \in SUBSET (1 .. asked)
  BY InvParts DEF AgentInv, AgentTypeOK
<1>2. UNCHANGED <<ran, pending, asked, consent>> => AnswersAndAsks(0)
  <2>1. pending \ {0} = pending /\ 1 .. asked \ 1 .. asked = {}
    BY <1>1
  <2> QED BY <1>1, <2>1 DEF AnswersAndAsks
<1>3. ASSUME NEW behavior \in Behavior, RespondToPermission(behavior)
      PROVE  /\ UNCHANGED <<ran, pending, asked>>
             /\ consent' = consent \/ (slot \in 1 .. asked /\ consent' = consent \cup {slot})
  <2>1. slot \in 1 .. asked
    BY <1>1, <1>3 DEF RespondToPermission, PhoneInv
  <2> QED BY <1>3, <2>1 DEF RespondToPermission, Transmit
<1>4. CASE AgentReceives
  <2> DEFINE m == Head(toAgent)
  <2>1. m \in PhoneMessage /\ m = toAgent[1] /\ 1 \in DOMAIN toAgent /\ consent' = consent
    BY <1>1, <1>4 DEF AgentReceives, PhoneInv
  <2>2. CASE OnUserMessage \/ OnInterrupt \/ UNCHANGED agentVars
    BY <1>2, <2>1, <2>2 DEF OnUserMessage, OnInterrupt, agentVars
  <2>3. CASE m.type = "control_response" /\ m.id \in pending /\ Decided(m.id, m.behavior)
    <3> DEFINE id == m.id
               behavior == m.behavior
    <3>1. id \in pending /\ Decided(id, behavior) /\ (behavior = "allow" => id \in consent)
      BY <1>1, <2>1, <2>3 DEF PhoneInv, AnswersGiven
    <3> HIDE DEF id, behavior
    <3> QED BY <1>1, <2>1, <3>1, DecidedAsks
  <2> QED BY <1>4, <2>2, <2>3 DEF AgentReceives, OnControlResponse
<1>5. CASE AgentStep
  <2>1. ASSUME NEW r \in Thinking, NEW asks \in Asks, ToolReply(r, asks) PROVE AnswersAndAsks(0)
    <3>1. asks \in Nat /\ ran' = ran /\ consent' = consent
      BY <1>5, <2>1, BoundsAssumption DEF ToolReply, AgentStep
    <3>2. Proceed(r, asks, <<NewEntry("tool_use", r)>>, pending) /\ 0 \notin pending
      BY <1>1, <2>1 DEF ToolReply
    <3>3. asked' \in {asked, asked + 1} /\ pending' = pending \cup (1 .. asked' \ 1 .. asked)
      BY <1>1, <3>1, <3>2, ProceedAsks
    <3>4. pending = pending \ {0}
      BY <3>2
    <3> QED BY <3>1, <3>3, <3>4 DEF AnswersAndAsks
  <2>2. ASSUME NEW r \in Thinking,
               CallFails(r) \/ \E kind \in {"text", "tool_use"} : FinalReply(r, kind)
        PROVE  AnswersAndAsks(0)
    BY <1>2, <1>5, <2>2 DEF AgentStep, CallFails, FinalReply, Finish
  <2>3. ASSUME NEW id \in pending, TimerFires(id) PROVE AnswersAndAsks(id)
    <3>1. Decided(id, "deny") /\ consent' = consent
      BY <1>5, <2>3 DEF TimerFires, AgentStep
    <3> QED BY <1>1, <3>1, DecidedAsks
  <2> QED BY <1>5, <2>1, <2>2, <2>3 DEF AgentStep
<1>6. CASE \/ SendMessage \/ SendInterrupt \/ Dismiss \/ HandleMessage
           \/ PhoneDrops \/ PhoneReconnects \/ AgentDrops \/ AgentReconnects
           \/ UNCHANGED vars
  <2>1. UNCHANGED <<ran, pending, asked, consent>>
    <3>1. CASE SendMessage \/ SendInterrupt
      BY <3>1 DEF SendMessage, SendInterrupt, Transmit
    <3>2. CASE Dismiss \/ PhoneReconnects \/ UNCHANGED vars
      BY <3>2 DEF Dismiss, PhoneReconnects, vars, agentVars
    <3>3. CASE HandleMessage
      BY <3>3 DEF HandleMessage
    <3>4. CASE PhoneDrops \/ AgentDrops \/ AgentReconnects
      BY <3>4 DEF PhoneDrops, AgentDrops, AgentReconnects
    <3> QED BY <1>6, <3>1, <3>2, <3>3, <3>4
  <2> QED BY <1>2, <2>1
<1> QED BY <1>2, <1>3, <1>4, <1>5, <1>6 DEF Next

LEMMA StepOnOneQuestion ==
    ASSUME RemoteInv, [Next]_vars, NEW r \in Nat
    PROVE  [\/ Decision(r)!Ask(r)
            \/ Decision(r)!Decide(r)
            \/ Decision(r)!Consent(r, "allow")]_(Decision(r)!decisionVars)
<1>1. /\ asked \in Nat /\ pending \in SUBSET (1 .. asked) /\ ran \in SUBSET (1 .. asked)
      /\ consent \in SUBSET (1 .. asked) /\ ran \subseteq consent
  BY DEF RemoteInv, TypeOK, AgentTypeOK, RanWithConsent
<1> DEFINE given == IF r \in consent THEN {"allow"} ELSE {}
           answer == [q \in {r} |-> Answered(q)]
           consents == [q \in {r} |-> IF q \in consent THEN {"allow"} ELSE {}]
<1>2. answer[r] = Answered(r) /\ consents[r] = given
  OBVIOUS
<1>3. /\ Answered(r)' = Answered(r) => answer' = answer
      /\ (r \in consent' <=> r \in consent) => consents' = consents
  OBVIOUS
<1>4. \A a : /\ Answered(r)' = a => answer' = [answer EXCEPT ![r] = a]
             /\ r \in consent' => consents' = [consents EXCEPT ![r] = @ \cup {"allow"}]
  BY <1>2
<1>5. CASE /\ UNCHANGED <<ran, pending, asked>>
           /\ slot \in 1 .. asked /\ consent' = consent \cup {slot}
  <2>1. Answered(r)' = Answered(r)
    BY <1>5 DEF Answered
  <2>2. CASE r # slot
    BY <1>3, <1>5, <2>1, <2>2 DEF Decision!decisionVars
  <2>3. CASE r = slot
    <3>1. Answered(r) # "none" /\ r \in consent'
      BY <1>5, <2>3 DEF Answered
    <3> QED BY <1>2, <1>3, <1>4, <2>1, <3>1 DEF Decision!Consent
  <2> QED BY <2>2, <2>3
<1>6. ASSUME NEW id \in pending \cup {0}, AnswersAndAsks(id)
      PROVE  [\/ Decision(r)!Ask(r) \/ Decision(r)!Decide(r)]_(Decision(r)!decisionVars)
  <2>0. /\ asked' \in {asked, asked + 1} /\ consent' = consent /\ consents' = consents
        /\ pending' = (pending \ {id}) \cup (1 .. asked' \ 1 .. asked)
        /\ ran' \in {ran, ran \cup {id}} /\ (ran' # ran => id \in consent)
    BY <1>6 DEF AnswersAndAsks
  <2>1. CASE r \in pending /\ r = id /\ r \notin ran
    <3>1. Answered(r) = "waiting" /\ r \in 1 .. asked
      BY <1>1, <2>1 DEF Answered
    <3>2. r \notin pending' /\ r \in 1 .. asked'
      BY <1>1, <2>0, <2>1, <3>1
    <3>3. Answered(r)' \in {"allow", "deny"} /\ (Answered(r)' = "allow" => r \in consent)
      BY <2>0, <2>1, <3>2 DEF Answered
    <3>4. Answered(r)' \in given \cup {"deny"}
      BY <3>3
    <3> HIDE DEF answer, consents, given
    <3> QED
      <4>1. answer' = [answer EXCEPT ![r] = Answered(r)']
        BY <1>4
      <4>2. answer[r] = "waiting" /\ \E a \in consents[r] \cup {"deny"} : answer' = [answer EXCEPT ![r] = a]
        BY <1>2, <3>1, <3>4, <4>1
      <4> QED BY <2>0, <4>2 DEF Decision!Decide, answer, consents
  <2>2. CASE r = asked + 1 /\ asked' = asked + 1
    <3>1. Answered(r) = "none"
      BY <1>1, <2>2 DEF Answered
    <3>2. Answered(r)' = "waiting"
      BY <1>1, <2>0, <2>2 DEF Answered
    <3> QED BY <1>2, <1>4, <2>0, <3>1, <3>2 DEF Decision!Ask
  <2>3. CASE ~(r \in pending /\ r = id /\ r \notin ran) /\ ~(r = asked + 1 /\ asked' = asked + 1)
    <3>1. (r \in 1 .. asked' <=> r \in 1 .. asked)
      BY <1>1, <2>0, <2>3
    <3>2. CASE r \in ran
      BY <1>3, <2>0, <3>2 DEF Answered, Decision!decisionVars
    <3>3. CASE r \notin ran
      <4>1. r # id \/ r = 0
        BY <2>3, <3>3, <1>6
      <4>2. r \notin ran'
        BY <1>1, <2>0, <3>3, <4>1, <1>6 DEF AnswersAndAsks
      <4>3. r \in pending' <=> r \in pending
        BY <1>1, <2>0, <3>1, <4>1
      <4> QED BY <1>3, <2>0, <3>1, <3>3, <4>2, <4>3 DEF Answered, Decision!decisionVars
    <3> QED BY <3>2, <3>3
  <2> QED BY <2>1, <2>2, <2>3
<1> QED BY <1>5, <1>6, StepOnQuestions

-----------------------------------------------------------------------------
(* One call of processMessage.                                             *)

\* A call that has been interrupted starts no turn: it goes through what is left
\* of its response, one question at a time, and returns.  One that has returned
\* does nothing more.
RunsOut(r) ==
    /\ r \in DOMAIN runs'
    /\ runs[r].pc \in Outcome => runs'[r] = runs[r]
    /\ runs[r].aborted =>
          \/ runs'[r] = runs[r]
          \/ runs'[r].pc \in Outcome
          \/ /\ runs[r].pc = "asking" /\ runs'[r].pc = "asking" /\ runs'[r].aborted
             /\ runs'[r].turn = runs[r].turn /\ runs'[r].left = runs[r].left - 1

LEMMA DecidedRunsOut ==
    ASSUME AgentInv, NEW id, NEW behavior, Decided(id, behavior), NEW r \in DOMAIN runs
    PROVE  RunsOut(r)
<1>1. PICK q \in Asking : Proceed(q, runs[q].left - 1, <<>>, pending \ {id})
  BY DEF Decided
<1> DEFINE next == RunTools(q, runs[q], runs[q].left - 1)
<1>2. /\ runs \in Seq(Run) /\ runs[q] \in Run /\ runs[q].left # 0 /\ runs[q].pc = "asking"
      /\ q \in DOMAIN runs
  BY DEF Asking, AgentInv, AgentTypeOK, SomeLeft
<1>3. runs' = [runs EXCEPT ![q] = next.run] /\ runs[q].left - 1 \in Nat
  BY <1>1, <1>2 DEF Proceed, Run
<1>4. CASE r # q
  BY <1>2, <1>3, <1>4 DEF RunsOut
<1>5. CASE r = q /\ runs[q].left - 1 = 0
  <2>1. runs'[r] = NextTurn(runs[q]) /\ r \in DOMAIN runs'
    BY <1>2, <1>3, <1>5 DEF RunTools
  <2>2. runs[q].aborted => NextTurn(runs[q]).pc \in Outcome
    BY DEF NextTurn, Returned, NewRun, Outcome
  <2> QED BY <1>2, <1>5, <2>1, <2>2 DEF RunsOut, Outcome
<1>6. CASE r = q /\ runs[q].left - 1 # 0
  <2>1. runs'[r] = NewRun("asking", runs[q].aborted, runs[q].turn, runs[q].left - 1, asked + 1)
        /\ r \in DOMAIN runs'
    BY <1>2, <1>3, <1>6 DEF RunTools
  <2> QED BY <1>2, <1>6, <2>1 DEF RunsOut, NewRun, Outcome
<1> QED BY <1>4, <1>5, <1>6

LEMMA StepOnOneCall ==
    ASSUME RemoteInv, [Next]_vars, NEW r \in DOMAIN runs
    PROVE  RunsOut(r)
<1>1. AgentInv /\ runs \in Seq(Run) /\ runs[r] \in Run
  BY InvParts DEF AgentInv, AgentTypeOK
<1>2. CASE UNCHANGED runs
  BY <1>2 DEF RunsOut
<1>3. r \in DOMAIN Abort /\ (runs[r].pc \in Outcome => Abort[r] = runs[r])
      /\ (runs[r].aborted => Abort[r] = runs[r])
  <2>1. r \in DOMAIN Abort /\ Abort[r] = IF r = Len(runs) /\ runs[r].pc \notin Outcome
                                       THEN [runs[r] EXCEPT !.aborted = TRUE] ELSE runs[r]
    BY DEF Abort
  <2>2. runs[r].aborted => [runs[r] EXCEPT !.aborted = TRUE] = runs[r]
    BY <1>1 DEF Run
  <2> QED BY <2>1, <2>2
<1>4. CASE AgentReceives
  <2>1. CASE OnInterrupt
    BY <1>3, <2>1 DEF OnInterrupt, RunsOut
  <2>2. CASE OnUserMessage
    <3>1. Abort \in Seq(Run) /\ DOMAIN Abort = DOMAIN runs
      BY <1>1, AbortType
    <3>2. r \in DOMAIN runs' /\ runs'[r] = Abort[r]
      <4> DEFINE new == NextTurn(NewRun("thinking", FALSE, 0, 0, 0))
                 old == Abort
      <4>1. runs' = Append(old, new) /\ old \in Seq(Run) /\ r \in DOMAIN old
        BY <2>2, <3>1 DEF OnUserMessage
      <4> HIDE DEF new, old
      <4>2. r \in DOMAIN runs' /\ runs'[r] = old[r]
        BY <4>1
      <4> QED BY <4>2 DEF old
    <3> QED BY <1>3, <3>2 DEF RunsOut
  <2>3. ASSUME NEW id, NEW behavior, Decided(id, behavior) PROVE RunsOut(r)
    BY <1>1, <2>3, DecidedRunsOut
  <2> QED BY <1>2, <1>4, <2>1, <2>2, <2>3 DEF AgentReceives, OnControlResponse, agentVars
<1>5. CASE AgentStep
  <2>1. ASSUME NEW q \in Thinking, NEW asks \in Asks, ToolReply(q, asks) PROVE RunsOut(r)
    <3>1. runs' = [runs EXCEPT ![q] = RunTools(q, runs[q], asks).run] /\ ~runs[q].aborted
          /\ runs[q].pc = "thinking" /\ "thinking" \notin Outcome
      BY <2>1 DEF ToolReply, Proceed, Thinking, Outcome
    <3> QED BY <1>1, <3>1 DEF RunsOut
  <2>2. ASSUME NEW q \in Thinking,
               CallFails(q) \/ \E kind \in {"text", "tool_use"} : FinalReply(q, kind)
        PROVE  RunsOut(r)
    <3>1. PICK outcome \in Outcome : runs' = [runs EXCEPT ![q] = Returned(outcome)]
      BY <2>2 DEF CallFails, FinalReply, Finish, Outcome
    <3>2. Returned(outcome).pc \in Outcome /\ runs[q].pc \notin Outcome
      BY <2>2 DEF Returned, NewRun, Thinking, Outcome
    <3> QED BY <1>1, <3>1, <3>2 DEF RunsOut
  <2>3. ASSUME NEW id \in pending, TimerFires(id) PROVE RunsOut(r)
    BY <1>1, <2>3, DecidedRunsOut DEF TimerFires
  <2> QED BY <1>5, <2>1, <2>2, <2>3 DEF AgentStep
<1>6. CASE \/ SendMessage \/ SendInterrupt \/ Dismiss \/ HandleMessage
           \/ PhoneDrops \/ PhoneReconnects \/ AgentDrops \/ AgentReconnects
           \/ UNCHANGED vars \/ \E behavior \in Behavior : RespondToPermission(behavior)
  <2>1. UNCHANGED runs
    <3>1. CASE SendMessage \/ SendInterrupt \/ \E behavior \in Behavior : RespondToPermission(behavior)
      BY <3>1 DEF SendMessage, SendInterrupt, RespondToPermission, Transmit
    <3>2. CASE Dismiss \/ PhoneReconnects \/ UNCHANGED vars
      BY <3>2 DEF Dismiss, PhoneReconnects, vars, agentVars
    <3>3. CASE HandleMessage \/ PhoneDrops \/ AgentDrops \/ AgentReconnects
      BY <3>3 DEF HandleMessage, PhoneDrops, AgentDrops, AgentReconnects
    <3> QED BY <1>6, <3>1, <3>2, <3>3
  <2> QED BY <1>2, <2>1
<1> QED BY <1>4, <1>5, <1>6 DEF Next

-----------------------------------------------------------------------------
(* Why the phone waits.                                                    *)

\* While no connection has broken, what is said arrives: the phone is bound from
\* its first message on, and so whenever the agent has something to say.
NothingLost ==
    drops = 0 => /\ linked /\ served /\ agentUp
                 /\ toAgent # <<>> \/ runs # <<>> => bound

\* What will stop it: its message on the way, a call that has not returned, or a
\* result on the way.
WillStop ==
    \/ \E i \in DOMAIN toAgent : toAgent[i].type = "user"
    \/ \E r \in DOMAIN runs : runs[r].pc \notin Outcome
    \/ \E i \in DOMAIN toPhone : toPhone[i].type = "result"

WaitingHasCause == waiting /\ drops = 0 => WillStop

\* A result that is said over two working connections is on its way.
LEMMA ResultSaid ==
    ASSUME toPhone \in Seq(AgentMessage), agentUp, bound, Say(<<[type |-> "result"]>>)
    PROVE  \E i \in DOMAIN toPhone' : toPhone'[i].type = "result"
<1> DEFINE m == [type |-> "result"]
<1>1. m \in AgentMessage /\ m.type = "result"
  BY DEF AgentMessage
<1>2. toPhone' = toPhone \o <<m>>
  BY DEF Say
<1> HIDE DEF m
<1>3. Len(toPhone) + 1 \in DOMAIN toPhone' /\ toPhone'[Len(toPhone) + 1] = m
  BY <1>1, <1>2
<1> QED BY <1>1, <1>3

\* A call that goes on waits for something or says its result.
LEMMA ProceedWillStop ==
    ASSUME AgentInv, NEW r \in DOMAIN runs, NEW left \in Nat, NEW entries, NEW rest,
           Proceed(r, left, entries, rest), agentUp, bound
    PROVE  WillStop'
<1> DEFINE next == RunTools(r, runs[r], left)
<1>1. /\ runs' = [runs EXCEPT ![r] = next.run] /\ Say(next.says)
      /\ runs \in Seq(Run) /\ toPhone \in Seq(AgentMessage)
  BY DEF Proceed, AgentInv, AgentTypeOK
<1>2. r \in DOMAIN runs' /\ runs'[r] = next.run
  BY <1>1
<1>3. CASE next.run.pc \notin Outcome
  BY <1>2, <1>3 DEF WillStop
<1>4. CASE next.run.pc \in Outcome
  <2>1. left = 0
    BY <1>4 DEF RunTools, NewRun, Outcome
  <2>2. next.says = <<[type |-> "result"]>>
    BY <1>4, <2>1 DEF RunTools
  <2> QED BY <1>1, <2>2, ResultSaid DEF WillStop
<1> QED BY <1>3, <1>4

LEMMA DecidedWillStop ==
    ASSUME AgentInv, NEW id, NEW behavior, Decided(id, behavior), agentUp, bound
    PROVE  WillStop'
<1>1. PICK r \in Asking : Proceed(r, runs[r].left - 1, <<>>, pending \ {id})
  BY DEF Decided
<1>2. r \in DOMAIN runs /\ runs[r] \in Run /\ runs[r].left # 0
  BY DEF Asking, AgentInv, AgentTypeOK, SomeLeft
<1>3. runs[r].left - 1 \in Nat
  BY <1>2 DEF Run
<1> QED BY <1>1, <1>2, <1>3, ProceedWillStop

WaitInv == NothingLost /\ WaitingHasCause

\* What the phone says while no connection has broken binds it and arrives.
LEMMA TransmitArrives ==
    ASSUME RemoteInv, WaitInv, NEW m \in PhoneMessage, Transmit(m),
           UNCHANGED <<served, linked, drops>>
    PROVE  /\ NothingLost'
           /\ drops = 0 => toAgent' = Append(toAgent, m)
           /\ WillStop => WillStop'
<1>1. toAgent \in Seq(PhoneMessage)
  BY DEF RemoteInv, TypeOK
<1>2. UNCHANGED <<runs, agentUp, toPhone>>
  BY DEF Transmit
<1>3. drops = 0 => linked /\ served /\ agentUp
  BY DEF WaitInv, NothingLost
<1>4. linked => bound'
  BY DEF Transmit
<1>5. NothingLost'
  BY <1>2, <1>3, <1>4 DEF NothingLost
<1>6. toAgent' = Append(toAgent, m) \/ toAgent' = toAgent
  BY DEF Transmit
<1>7. \A i \in DOMAIN toAgent : i \in DOMAIN toAgent' /\ toAgent'[i] = toAgent[i]
  BY <1>1, <1>6
<1>8. WillStop => WillStop'
  BY <1>2, <1>7 DEF WillStop
<1> QED BY <1>3, <1>5, <1>8 DEF Transmit

\* The steps at the phone's end.
LEMMA PhoneWait ==
    ASSUME RemoteInv, WaitInv,
           \/ SendMessage \/ SendInterrupt \/ Dismiss \/ HandleMessage
           \/ \E behavior \in Behavior : RespondToPermission(behavior)
    PROVE  WaitInv'
<1>1. toAgent \in Seq(PhoneMessage) /\ toPhone \in Seq(AgentMessage) /\ asked \in Nat
      /\ slot \in 0 .. asked
  BY DEF RemoteInv, TypeOK, AgentTypeOK
<1>2. CASE SendMessage
  <2> DEFINE m == [type |-> "user"]
  <2>1. m \in PhoneMessage /\ m.type = "user" /\ Transmit(m) /\ UNCHANGED <<served, linked, drops>>
    BY <1>2 DEF SendMessage, PhoneMessage
  <2> HIDE DEF m
  <2>2. NothingLost' /\ (drops = 0 => toAgent' = Append(toAgent, m))
    BY <2>1, TransmitArrives
  <2>3. drops = 0 => Len(toAgent) + 1 \in DOMAIN toAgent' /\ toAgent'[Len(toAgent) + 1] = m
    BY <1>1, <2>2
  <2>4. drops' = 0 => WillStop'
    BY <2>1, <2>3 DEF WillStop
  <2> QED BY <2>2, <2>4 DEF WaitInv, WaitingHasCause
<1>3. CASE SendInterrupt
  <2> DEFINE m == [type |-> "interrupt"]
  <2>1. m \in PhoneMessage /\ Transmit(m) /\ UNCHANGED <<served, linked, drops>> /\ waiting' = FALSE
    BY <1>3 DEF SendInterrupt, PhoneMessage
  <2>2. NothingLost'
    BY <2>1, TransmitArrives
  <2> QED BY <2>1, <2>2 DEF WaitInv, WaitingHasCause
<1>4. ASSUME NEW behavior \in Behavior, RespondToPermission(behavior) PROVE WaitInv'
  <2> DEFINE m == [type |-> "control_response", id |-> slot, behavior |-> behavior]
  <2>1. m \in PhoneMessage
    BY <1>1 DEF PhoneMessage
  <2>2. Transmit(m) /\ UNCHANGED <<served, linked, drops>> /\ waiting' = waiting
    BY <1>4 DEF RespondToPermission
  <2> HIDE DEF m
  <2>3. NothingLost' /\ (WillStop => WillStop')
    BY <2>1, <2>2, TransmitArrives
  <2> QED BY <2>2, <2>3 DEF WaitInv, WaitingHasCause
<1>5. CASE Dismiss
  BY <1>5 DEF Dismiss, agentVars, WaitInv, NothingLost, WaitingHasCause, WillStop
<1>6. CASE HandleMessage
  <2>1. /\ toPhone # <<>> /\ toPhone' = Tail(toPhone) /\ waiting' = HandleResult(Head(toPhone))
        /\ UNCHANGED <<runs, agentUp, bound, served, linked, toAgent, drops>>
    BY <1>6 DEF HandleMessage
  <2>2. NothingLost'
    BY <2>1 DEF WaitInv, NothingLost
  <2>3. ASSUME waiting', drops' = 0 PROVE WillStop'
    <3>1. Head(toPhone).type # "result" /\ Head(toPhone) = toPhone[1] /\ waiting
      <4>1. HandleResult(Head(toPhone))
        BY <2>1, <2>3, Zenon
      <4>2. Head(toPhone).type # "result" /\ waiting
        BY <4>1, Zenon DEF HandleResult
      <4> QED BY <1>1, <2>1, <4>2
    <3>2. WillStop
      BY <2>1, <2>3, <3>1 DEF WaitInv, WaitingHasCause
    <3>3. \A i \in DOMAIN toPhone : toPhone[i].type = "result" =>
            i - 1 \in DOMAIN toPhone' /\ toPhone'[i - 1] = toPhone[i]
      BY <1>1, <2>1, <3>1
    <3> QED BY <2>1, <3>2, <3>3 DEF WillStop
  <2> QED BY <2>2, <2>3 DEF WaitInv, WaitingHasCause
<1> QED BY <1>2, <1>3, <1>4, <1>5, <1>6

\* The agent takes a message: one that starts a call is what stops the waiting,
\* and another leaves the reason there was.
LEMMA AgentReceivesWait ==
    ASSUME RemoteInv, WaitInv, AgentReceives
    PROVE  WaitInv'
<1>1. AgentInv /\ toAgent \in Seq(PhoneMessage) /\ toAgent # <<>> /\ toAgent' = Tail(toAgent)
      /\ UNCHANGED <<served, linked, waiting, drops>> /\ runs \in Seq(Run)
  BY InvParts DEF AgentReceives, PhoneInv, AgentInv, AgentTypeOK
<1>2. drops = 0 => linked /\ served /\ agentUp /\ bound
  BY <1>1 DEF WaitInv, NothingLost
<1>3. agentUp' = agentUp /\ bound' = bound
  BY DEF AgentReceives, OnUserMessage, OnInterrupt, OnControlResponse, Decided, Proceed, agentVars
<1>4. NothingLost'
  BY <1>1, <1>2, <1>3 DEF NothingLost
<1>5. CASE OnUserMessage
  <2> DEFINE new == NextTurn(NewRun("thinking", FALSE, 0, 0, 0))
             old == Abort
  <2>1. new.pc \notin Outcome
    BY BoundsAssumption DEF NextTurn, NewRun, Outcome
  <2>2. old \in Seq(Run) /\ runs' = Append(old, new)
    BY <1>1, <1>5, AbortType DEF OnUserMessage
  <2> HIDE DEF new, old
  <2>3. Len(old) + 1 \in DOMAIN runs' /\ runs'[Len(old) + 1] = new
    BY <2>2
  <2> QED BY <1>4, <2>1, <2>3 DEF WaitInv, WaitingHasCause, WillStop
<1>6. ASSUME NEW id, NEW behavior, Decided(id, behavior) PROVE WaitInv'
  <2>1. drops' = 0 => WillStop'
    BY <1>1, <1>2, <1>6, DecidedWillStop
  <2> QED BY <1>4, <2>1 DEF WaitInv, WaitingHasCause
<1>7. CASE Head(toAgent).type # "user" /\ (OnInterrupt \/ UNCHANGED agentVars)
  <2>1. \A i \in DOMAIN toAgent : toAgent[i].type = "user" =>
          i - 1 \in DOMAIN toAgent' /\ toAgent'[i - 1] = toAgent[i]
    BY <1>1, <1>7
  <2>2. DOMAIN runs' = DOMAIN runs /\ \A r \in DOMAIN runs : runs'[r].pc = runs[r].pc
    BY <1>1, <1>7, AbortType DEF OnInterrupt, agentVars
  <2>3. toPhone' = toPhone
    BY <1>7 DEF OnInterrupt, agentVars
  <2>4. WillStop => WillStop'
    BY <2>1, <2>2, <2>3 DEF WillStop
  <2> QED BY <1>1, <1>4, <2>4 DEF WaitInv, WaitingHasCause
<1> QED BY <1>5, <1>6, <1>7 DEF AgentReceives, OnControlResponse

LEMMA AgentStepWait ==
    ASSUME RemoteInv, WaitInv, AgentStep
    PROVE  WaitInv'
<1>1. AgentInv /\ UNCHANGED <<served, linked, waiting, toAgent, drops>> /\ runs \in Seq(Run)
      /\ toPhone \in Seq(AgentMessage)
  BY InvParts DEF AgentStep, AgentInv, AgentTypeOK
<1>2. runs # <<>> /\ agentUp' = agentUp /\ bound' = bound /\ (drops' = 0 => WillStop')
  <2>1. ASSUME NEW r \in Thinking, NEW asks \in Asks, ToolReply(r, asks)
        PROVE  runs # <<>> /\ agentUp' = agentUp /\ bound' = bound /\ (drops' = 0 => WillStop')
    <3>1. asks \in Nat /\ r \in DOMAIN runs /\ runs # <<>>
          /\ Proceed(r, asks, <<NewEntry("tool_use", r)>>, pending)
      BY <1>1, <2>1, BoundsAssumption DEF ToolReply, Thinking
    <3>2. drops = 0 => agentUp /\ bound
      BY <3>1 DEF WaitInv, NothingLost
    <3>3. agentUp' = agentUp /\ bound' = bound
      BY <3>1 DEF Proceed
    <3> QED BY <1>1, <3>1, <3>2, <3>3, ProceedWillStop
  <2>2. ASSUME NEW r \in Thinking,
               CallFails(r) \/ \E kind \in {"text", "tool_use"} : FinalReply(r, kind)
        PROVE  runs # <<>> /\ agentUp' = agentUp /\ bound' = bound /\ (drops' = 0 => WillStop')
    <3>1. Say(<<[type |-> "result"]>>) /\ agentUp' = agentUp /\ bound' = bound /\ runs # <<>>
      BY <1>1, <2>2 DEF CallFails, FinalReply, Finish, Thinking
    <3>2. drops = 0 => agentUp /\ bound
      BY <3>1 DEF WaitInv, NothingLost
    <3> QED BY <1>1, <3>1, <3>2, ResultSaid DEF WillStop
  <2>3. ASSUME NEW id \in pending, TimerFires(id)
        PROVE  runs # <<>> /\ agentUp' = agentUp /\ bound' = bound /\ (drops' = 0 => WillStop')
    <3>1. Decided(id, "deny")
      BY <2>3 DEF TimerFires
    <3>2. runs # <<>> /\ agentUp' = agentUp /\ bound' = bound
      BY <1>1, <3>1 DEF Decided, Proceed, Asking
    <3>3. drops = 0 => agentUp /\ bound
      BY <3>2 DEF WaitInv, NothingLost
    <3> QED BY <1>1, <3>1, <3>2, <3>3, DecidedWillStop
  <2> QED BY <2>1, <2>2, <2>3 DEF AgentStep
<1>3. NothingLost'
  BY <1>1, <1>2 DEF WaitInv, NothingLost
<1> QED BY <1>2, <1>3 DEF WaitInv, WaitingHasCause

LEMMA NextWait == RemoteInv /\ WaitInv /\ [Next]_vars => WaitInv'
<1> SUFFICES ASSUME RemoteInv, WaitInv, [Next]_vars PROVE WaitInv'
  OBVIOUS
<1>1. CASE PhoneDrops \/ AgentDrops
  <2>1. drops' # 0
    BY <1>1 DEF PhoneDrops, AgentDrops, RemoteInv, TypeOK
  <2> QED BY <2>1 DEF WaitInv, NothingLost, WaitingHasCause
<1>2. CASE PhoneReconnects
  BY <1>2 DEF PhoneReconnects, agentVars, WaitInv, NothingLost, WaitingHasCause, WillStop
<1>3. CASE AgentReconnects
  BY <1>3 DEF AgentReconnects, WaitInv, NothingLost, WaitingHasCause, WillStop
<1>4. CASE UNCHANGED vars
  BY <1>4 DEF vars, agentVars, WaitInv, NothingLost, WaitingHasCause, WillStop
<1> QED BY <1>1, <1>2, <1>3, <1>4, PhoneWait, AgentReceivesWait, AgentStepWait DEF Next

-----------------------------------------------------------------------------
\* The inductive invariant holds in every reachable state.
THEOREM RemoteInvariant == Spec => []RemoteInv
  BY InitEstablishes, NextPreserves, PTL DEF Spec

\* Every variable of the agent, the phone and the channels keeps its type: no
\* request is shown, answered or executed that has not been drawn.
THEOREM TypeCorrect == Spec => []TypeOK
<1>1. RemoteInv => TypeOK
  BY DEF RemoteInv
<1> QED BY <1>1, RemoteInvariant, PTL

\* SimplePermissionBridge's map holds what the calls of processMessage wait for.
THEOREM PendingCorrect == Spec => []PendingExact
<1>1. RemoteInv => PendingExact
  BY DEF RemoteInv
<1> QED BY <1>1, RemoteInvariant, PTL

\* A dangerous tool runs only by consent to that tool.
THEOREM ConsentCorrect == Spec => []RanWithConsent
<1>1. RemoteInv => RanWithConsent
  BY DEF RemoteInv
<1> QED BY <1>1, RemoteInvariant, PTL

\* What each call has put into the history is a conversation the provider takes.
THEOREM HistoryCorrect == Spec => []ResultsFollowCalls
<1>1. Init => HistoryInv
  BY DEF Init, AgentInit, HistoryInv, ResultsFollowCalls, EntriesOwned, InOrder
<1>2. HistoryInv => ResultsFollowCalls
  BY DEF HistoryInv
<1> QED BY <1>1, <1>2, NextHistory, RemoteInvariant, PTL DEF Spec

\* Every request is decided once, for good, after it was put to the phone, and
\* allowed only by consent.
THEOREM AnswersStandCorrect == Spec => AnswersStand
<1>1. RemoteInv /\ RemoteInv' /\ [Next]_vars =>
        [\A r \in 1 .. asked' :
            [\/ Decision(r)!Ask(r)
             \/ Decision(r)!Decide(r)
             \/ Decision(r)!Consent(r, "allow")]_(Decision(r)!decisionVars)]_vars
  <2>1. RemoteInv' => \A r \in 1 .. asked' : r \in Nat
    BY DEF RemoteInv, TypeOK, AgentTypeOK
  <2> QED BY <2>1, StepOnOneQuestion
<1> QED BY <1>1, RemoteInvariant, PTL DEF Spec, AnswersStand

\* Seen from any one request, the agent, the phone and the relay between them
\* implement PermissionDecision, as the CLI's bridge does.
THEOREM ImplementsDecision ==
    ASSUME NEW r \in Nat
    PROVE  Spec => Decision(r)!Spec
<1>1. Init => Decision(r)!Init
  <2> SUFFICES ASSUME Init PROVE Decision(r)!Init
    OBVIOUS
  <2>1. pending = {} /\ asked = 0 /\ ran = {} /\ consent = {}
    BY DEF Init, AgentInit
  <2> QED BY <2>1 DEF Decision!Init, Answered
<1>2. RemoteInv /\ [Next]_vars => [Decision(r)!Next]_(Decision(r)!decisionVars)
  <2> SUFFICES ASSUME RemoteInv, [Next]_vars PROVE [Decision(r)!Next]_(Decision(r)!decisionVars)
    OBVIOUS
  <2>1. [\/ Decision(r)!Ask(r)
         \/ Decision(r)!Decide(r)
         \/ Decision(r)!Consent(r, "allow")]_(Decision(r)!decisionVars)
    BY StepOnOneQuestion
  <2> QED BY <2>1 DEF Decision!Next, Decision!Answer
<1> QED BY <1>1, <1>2, RemoteInvariant, PTL DEF Spec, Decision!Spec

\* A tool that runs after the interrupt, which NoToolAfterInterrupt shows there can
\* be, is one of the response at hand: an interrupted call never reaches the model
\* again, whoever answers its questions, and a call that has returned stays so.
THEOREM InterruptRunsOut == Spec => [][\A r \in DOMAIN runs : RunsOut(r)]_vars
<1>1. RemoteInv /\ [Next]_vars => [\A r \in DOMAIN runs : RunsOut(r)]_vars
  BY StepOnOneCall
<1> QED BY <1>1, RemoteInvariant, PTL DEF Spec

\* Why WaitingEnds can hold at all: while no connection has broken the phone never
\* waits without its message, a call of the agent or a result being under way.
THEOREM WaitingCaused == Spec => []WaitingHasCause
<1>1. Init => WaitInv
  BY DEF Init, AgentInit, WaitInv, NothingLost, WaitingHasCause
<1>2. WaitInv => WaitingHasCause
  BY DEF WaitInv
<1> QED BY <1>1, <1>2, NextWait, RemoteInvariant, PTL DEF Spec
=============================================================================
