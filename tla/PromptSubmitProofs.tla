------------------------- MODULE PromptSubmitProofs -------------------------
(***************************************************************************)
(* Proofs about PromptSubmit, for any set of commands of every kind and    *)
(* any number of calls in progress.                                        *)
(***************************************************************************)
EXTENDS PromptSubmit, TLAPS

\* What is queued, in the hands of a turn or an accepted plan has been given.
Received ==
  /\ Ids(queue) \union Pending \subseteq given
  /\ \A t \in Turn : Ids(turn[t].carries) \union Ids(turn[t].snapshot) \subseteq given

\* A turn carries commands while it works on its input, and remembers a snapshot
\* of the queue while it attaches it.  processInitialMessage is called once at a
\* time, and what awaits the hooks has left the app's state.
Shape ==
  /\ \A t \in Turn :
       /\ turn[t].phase # "input" => turn[t].carries = {}
       /\ turn[t].phase # "attaching" => turn[t].snapshot = {}
  /\ clearing = {} \/ awaiting = {}
  /\ awaiting \intersect initialMessage = {}

\* Without a cancel the guard is held by the query in progress: a plan that comes
\* to it meanwhile is refused.
HeldByTheQuery ==
  ~cancelled =>
    /\ \A t \in Turn : Querying(t) => Owns(guard, turn[t].generation)
    /\ \A t, u \in Turn : Querying(t) /\ Querying(u) => t = u

\* If no plan has come to an active guard either, it is held by the turn in
\* progress, and the screen has that turn's controller.
HeldByTheTurn ==
  ~cancelled /\ ~raced =>
    \A t \in Turn : Busy(t) =>
      /\ controller = t
      /\ turn[t].phase = "input" => guard.status = "dispatching"
      /\ turn[t].phase # "input" => Owns(guard, turn[t].generation)

\* Without a cancel a command is in one place only, and not said before it is
\* there no longer; what a snapshot shares with the queue it shares as an entry.
OnePlace ==
  ~cancelled =>
    /\ twice = {} /\ Pending \intersect said = {}
    /\ \A e \in queue :
         e.id \notin said \union Pending /\ \A f \in queue : e.id = f.id => e = f
    /\ \A t \in Turn : \A e \in turn[t].carries :
         /\ e.id \notin said \union Pending
         /\ \A f \in queue : e.id # f.id
         /\ \A u \in Turn : \A f \in turn[u].carries : e.id = f.id => t = u /\ e = f
    /\ \A t \in Turn : \A e \in turn[t].snapshot :
         /\ e.id \notin said \union Pending
         /\ \A f \in queue : e.id = f.id => e = f
         /\ \A u \in Turn : \A f \in turn[u].carries : e.id # f.id

PromptInv ==
  /\ TypeOK /\ Received /\ Shape /\ GuardHeld /\ HeldByTheQuery /\ HeldByTheTurn
  /\ NothingLost /\ OnePlace

-----------------------------------------------------------------------------
\* What is taken from the queue was in the queue.
LEMMA TakenFromQueue ==
  ASSUME NEW q, NEW e, NEW p
  PROVE  /\ Editable(q) \subseteq q /\ MainThread(q) \subseteq q
         /\ Attachable(q, p) \subseteq q
         /\ IsNext(q, e) => e \in q /\ e \in Batch(q, e) /\ Batch(q, e) \subseteq q
  BY DEF Editable, MainThread, Attachable, IsNext, Batch, IsSlash

\* What is put back is entries of the same commands, except the hidden ones.
LEMMA PutBackEntries ==
  ASSUME NEW s \in SUBSET Entry, arrivals \in Nat
  PROVE  /\ PutBack(s) \in SUBSET Entry
         /\ Ids(PutBack(s)) = Ids(s \ {e \in s : IsMeta(e)})
<1>1. ASSUME NEW f \in PutBack(s)
      PROVE  f \in Entry
  <2>1. PICK e \in s : f = [id |-> e.id, at |-> arrivals + e.at, again |-> TRUE]
    BY <1>1 DEF PutBack
  <2>2. e.id \in Command /\ e.at \in Nat
    BY DEF Entry
  <2> QED BY <2>1, <2>2 DEF Entry
<1>2. ASSUME NEW e \in s, ~IsMeta(e)
      PROVE  e.id \in Ids(PutBack(s))
  <2>1. [id |-> e.id, at |-> arrivals + e.at, again |-> TRUE] \in PutBack(s)
    BY <1>2 DEF PutBack
  <2> QED BY <2>1 DEF Ids
<1>3. ASSUME NEW f \in PutBack(s)
      PROVE  f.id \in Ids(s \ {e \in s : IsMeta(e)})
  <2>1. PICK e \in s : ~IsMeta(e) /\ f = [id |-> e.id, at |-> arrivals + e.at, again |-> TRUE]
    BY <1>3 DEF PutBack
  <2> QED BY <2>1 DEF Ids
<1> QED BY <1>1, <1>2, <1>3 DEF Ids

LEMMA ArrivedEntry ==
  ASSUME TypeOK, NEW c \in Command
  PROVE  Arrived(c) \in Entry /\ Arrived(c).id = c
  BY DEF TypeOK, Arrived, Entry

LEMMA FreeTurn ==
  /\ Free \in TurnState /\ Free.phase = "free"
  /\ Free.carries = {} /\ Free.snapshot = {}
  BY DEF Free, TurnState

LEMMA IncomingTurn ==
  ASSUME NEW n \in Nat
  PROVE  /\ [Free EXCEPT !.phase = "running", !.incoming = TRUE, !.generation = n] \in TurnState
         /\ [Free EXCEPT !.phase = "running", !.incoming = TRUE, !.generation = n].phase = "running"
         /\ [Free EXCEPT !.phase = "running", !.incoming = TRUE, !.generation = n].generation = n
         /\ [Free EXCEPT !.phase = "running", !.incoming = TRUE, !.generation = n].carries = {}
         /\ [Free EXCEPT !.phase = "running", !.incoming = TRUE, !.generation = n].snapshot = {}
  BY DEF Free, TurnState

\* A turn's controller is aborted, and nothing else about it changes.
LEMMA AbortedTurn ==
  ASSUME TypeOK, NEW t \in Turn
  PROVE  LET new == [turn EXCEPT ![t].aborted = TRUE]
         IN  /\ new \in [Turn -> TurnState]
             /\ \A u \in Turn : /\ new[u].phase = turn[u].phase
                                /\ new[u].carries = turn[u].carries
                                /\ new[u].snapshot = turn[u].snapshot
                                /\ new[u].generation = turn[u].generation
<1>1. turn \in [Turn -> TurnState]
  BY DEF TypeOK
<1>2. [turn[t] EXCEPT !.aborted = TRUE] \in TurnState
  BY <1>1 DEF TurnState
<1> QED BY <1>1, <1>2 DEF TurnState

\* The operations of the guard.
LEMMA GuardOperations ==
  ASSUME NEW g \in Guard, NEW n \in Nat
  PROVE  /\ Reserve(g) \in Guard /\ CancelReservation(g) \in Guard
         /\ Started(g) \in Guard /\ EndedBy(g, n) \in Guard /\ ForceEnded(g) \in Guard
         /\ CancelReservation(EndedBy(g, n)) \in Guard
  BY DEF Guard, Reserve, CancelReservation, Started, EndedBy, ForceEnded, Owns, IsActive

-----------------------------------------------------------------------------
LEMMA InitEstablishes == Init => PromptInv
<1> SUFFICES ASSUME Init PROVE PromptInv
  OBVIOUS
<1>1. TypeOK
  BY FreeTurn DEF Init, TypeOK, Guard, IdleGuard, PlanSlot
<1>2. Received /\ Shape
  BY FreeTurn DEF Init, Received, Shape, Ids, Pending
<1>3. GuardHeld /\ HeldByTheQuery /\ HeldByTheTurn /\ NothingLost /\ OnePlace
  BY FreeTurn DEF Init, GuardHeld, HeldByTheQuery, HeldByTheTurn, NothingLost, OnePlace, Busy,
                  Querying, IdleGuard, Pending
<1> QED BY <1>1, <1>2, <1>3 DEF PromptInv
-----------------------------------------------------------------------------
\* While the guard is idle and neither a cancel nor a plan has disturbed it nobody
\* is busy; without a cancel at least no query is in progress.
LEMMA IdleMeansFree ==
  ASSUME PromptInv, ~cancelled, guard.status = "idle"
  PROVE  /\ ~raced => \A t \in Turn : ~Busy(t)
         /\ \A t \in Turn : ~Querying(t)
  BY DEF PromptInv, HeldByTheQuery, HeldByTheTurn, Owns, Busy

LEMMA PlansUnchanged ==
  ASSUME UNCHANGED planVars
  PROVE  UNCHANGED <<initialMessage, clearing, awaiting, raced, Pending>>
  BY DEF planVars, Pending

\* What the invariant says of the turns' phases and of the plans does not change
\* with the turns' abort flags.
LEMMA SameTurns ==
  ASSUME PromptInv, UNCHANGED <<guard, controller, cancelled, raced>>,
         \A t \in Turn : /\ turn'[t].phase = turn[t].phase
                         /\ turn'[t].generation = turn[t].generation
  PROVE  GuardHeld' /\ HeldByTheQuery' /\ HeldByTheTurn'
  BY DEF PromptInv, GuardHeld, HeldByTheQuery, HeldByTheTurn, Busy, Querying

\* A command stays in one place when commands only leave their places, and what is
\* said has left them.
LEMMA FewerPlaces ==
  ASSUME OnePlace, cancelled' = cancelled, queue' \subseteq queue, Pending' \subseteq Pending,
         \A t \in Turn : /\ turn'[t].carries \subseteq turn[t].carries
                        /\ turn'[t].snapshot \subseteq turn[t].snapshot,
         ~cancelled =>
           /\ twice' = {} /\ Pending' \intersect said' = {}
           /\ \A e \in queue' : e.id \notin said'
           /\ \A t \in Turn : \A e \in turn'[t].carries \union turn'[t].snapshot : e.id \notin said'
  PROVE  OnePlace'
<1> SUFFICES ASSUME ~cancelled PROVE OnePlace'
  BY DEF OnePlace
<1>1. \A e \in queue' :
        e.id \notin said' \union Pending' /\ \A f \in queue' : e.id = f.id => e = f
  BY DEF OnePlace
<1>2. \A t \in Turn : \A e \in turn'[t].carries :
        /\ e.id \notin said' \union Pending'
        /\ \A f \in queue' : e.id # f.id
        /\ \A u \in Turn : \A f \in turn'[u].carries : e.id = f.id => t = u /\ e = f
  BY DEF OnePlace
<1>3. \A t \in Turn : \A e \in turn'[t].snapshot :
        /\ e.id \notin said' \union Pending'
        /\ \A f \in queue' : e.id = f.id => e = f
        /\ \A u \in Turn : \A f \in turn'[u].carries : e.id # f.id
  BY DEF OnePlace
<1> QED BY <1>1, <1>2, <1>3 DEF OnePlace

\* Commands leave the queue for good: popped, cleared or taken by a subagent.
LEMMA RemovalPreserves ==
  ASSUME PromptInv, NEW s \in SUBSET queue, queue' = queue \ s, changed' \in BOOLEAN,
         settled' = settled \union Ids(s),
         UNCHANGED <<guard, arrivals, turn, controller, seen, jsx, planVars, given, said,
                     twice, cancelled>>
  PROVE  PromptInv'
<1>1. Ids(s) \subseteq Ids(queue) /\ Ids(queue') \subseteq Ids(queue)
      /\ Ids(queue) = Ids(queue') \union Ids(s)
  BY DEF Ids
<1>2. UNCHANGED <<initialMessage, clearing, awaiting, raced, Pending>>
  BY PlansUnchanged
<1>3. TypeOK'
  BY <1>1, <1>2 DEF PromptInv, TypeOK, Received
<1>4. Received' /\ Shape'
  BY <1>1, <1>2 DEF PromptInv, Received, Shape
<1>5. GuardHeld' /\ HeldByTheQuery' /\ HeldByTheTurn'
  BY <1>2, SameTurns
<1>6. NothingLost'
  <2> SUFFICES ASSUME NEW c \in given
               PROVE  \/ c \in Ids(queue') \/ \E t \in Turn : c \in Ids(turn[t].carries)
                      \/ c \in Pending \union said \union settled'
    BY <1>2 DEF NothingLost
  <2> QED BY <1>1 DEF PromptInv, NothingLost
<1>7. OnePlace'
  BY <1>2 DEF PromptInv, OnePlace
<1> QED BY <1>3, <1>4, <1>5, <1>6, <1>7 DEF PromptInv

\* A command arrives in the queue; the turn the screen's controller belongs to
\* may be aborted with it.
LEMMA EnqueuePreserves ==
  ASSUME PromptInv, NEW c \in Command \ given, given' = given \union {c}, Enqueue(c),
         \/ UNCHANGED turn
         \/ /\ controller # 0
            /\ turn' = [turn EXCEPT ![controller].aborted = TRUE],
         UNCHANGED <<guard, controller, seen, jsx, planVars, said, twice, settled, cancelled>>
  PROVE  PromptInv'
<1>1. queue' = queue \union {Arrived(c)} /\ arrivals' = arrivals + 1 /\ changed' \in BOOLEAN
  BY DEF Enqueue, SetQueue, PromptInv, TypeOK
<1>2. Arrived(c) \in Entry /\ Arrived(c).id = c /\ Ids(queue') = Ids(queue) \union {c}
  BY <1>1, ArrivedEntry DEF PromptInv, Ids
<1>3. /\ turn' \in [Turn -> TurnState]
      /\ \A t \in Turn : /\ turn'[t].phase = turn[t].phase
                         /\ turn'[t].carries = turn[t].carries
                         /\ turn'[t].snapshot = turn[t].snapshot
                         /\ turn'[t].generation = turn[t].generation
  <2>1. CASE UNCHANGED turn
    BY <2>1 DEF PromptInv, TypeOK
  <2>2. CASE /\ controller # 0
             /\ turn' = [turn EXCEPT ![controller].aborted = TRUE]
    <3>1. controller \in Turn
      BY <2>2 DEF PromptInv, TypeOK
    <3> QED BY <2>2, <3>1, AbortedTurn DEF PromptInv
  <2> QED BY <2>1, <2>2
<1>4. UNCHANGED <<initialMessage, clearing, awaiting, raced, Pending>>
  BY PlansUnchanged
<1>5. TypeOK'
  BY <1>1, <1>2, <1>3, <1>4 DEF PromptInv, TypeOK
<1>6. Received' /\ Shape'
  BY <1>2, <1>3, <1>4 DEF PromptInv, Received, Shape
<1>7. GuardHeld' /\ HeldByTheQuery' /\ HeldByTheTurn'
  BY <1>3, <1>4, SameTurns
<1>8. NothingLost'
  BY <1>2, <1>3, <1>4 DEF PromptInv, NothingLost
<1>9. OnePlace'
  <2> SUFFICES ASSUME ~cancelled PROVE OnePlace'
    BY DEF OnePlace
  <2>1. \A e \in queue : e.id # c
    BY DEF PromptInv, Received, Ids
  <2>2. \A t \in Turn : \A e \in turn[t].carries \union turn[t].snapshot : e.id # c
    BY DEF PromptInv, Received, Ids
  <2>3. c \notin said \union Pending
    BY DEF PromptInv, TypeOK, Received
  <2> QED BY <1>1, <1>2, <1>3, <1>4, <2>1, <2>2, <2>3 DEF PromptInv, OnePlace
<1> QED BY <1>5, <1>6, <1>7, <1>8, <1>9 DEF PromptInv

\* A call of executeUserInput begins, with a command that comes directly or with
\* what it takes from the queue.
LEMMA ExecutePreserves ==
  ASSUME PromptInv, NEW t \in Turn, IsNew(t), ~IsActive(guard),
         NEW s \in SUBSET Entry, ExecuteUserInput(t, s),
         queue' \in SUBSET queue, queue \ queue' \subseteq s,
         given' \in SUBSET Command, given' = given \union Ids(s),
         ~cancelled => \A e \in s :
           /\ e.id \notin said \union Pending /\ \A f \in queue' : e.id # f.id
           /\ \A f \in s : e.id = f.id => e = f
           /\ \A u \in Turn : \A f \in turn[u].carries : e.id # f.id,
         arrivals' \in Nat, changed' \in BOOLEAN, seen' \in [active : BOOLEAN, jsx : BOOLEAN],
         UNCHANGED <<jsx, planVars, said, twice, settled, cancelled>>
  PROVE  PromptInv'
<1>1. /\ turn' \in [Turn -> TurnState]
      /\ turn'[t].phase = "input" /\ turn'[t].carries = s /\ turn'[t].snapshot = {}
      /\ \A u \in Turn \ {t} : turn'[u] = turn[u]
      /\ controller' = t
      /\ guard' = [guard EXCEPT !.status = "dispatching"] /\ guard.status = "idle"
  <2>1. [Free EXCEPT !.phase = "input", !.carries = s] \in TurnState
    BY DEF Free, TurnState
  <2> QED BY <2>1 DEF PromptInv, TypeOK, ExecuteUserInput, Free, Reserve, IsActive
<1>2. guard' \in Guard /\ guard'.status = "dispatching"
  BY <1>1 DEF PromptInv, TypeOK, Guard
<1>3. turn[t].phase = "free" /\ turn[t].carries = {} /\ turn[t].snapshot = {}
  BY DEF PromptInv, Shape, IsNew, Busy
<1>4. Ids(queue) \subseteq Ids(queue') \union Ids(s) /\ Ids(queue') \subseteq Ids(queue)
  BY DEF Ids
<1>5. UNCHANGED <<initialMessage, clearing, awaiting, raced, Pending>>
  BY PlansUnchanged
<1>6. TypeOK'
  BY <1>1, <1>2, <1>5 DEF PromptInv, TypeOK
<1>7. Received'
  BY <1>1, <1>4, <1>5 DEF PromptInv, Received, Ids
<1>8. Shape'
  BY <1>1, <1>5 DEF PromptInv, Shape
<1>9. GuardHeld'
  BY <1>1, <1>2 DEF GuardHeld
<1>10. ~cancelled => \A u \in Turn : turn'[u].phase \notin {"running", "attaching"}
  BY <1>1, IdleMeansFree DEF Querying
<1>11. HeldByTheQuery' /\ HeldByTheTurn'
  BY <1>1, <1>2, <1>5, <1>10, IdleMeansFree DEF HeldByTheQuery, HeldByTheTurn, Busy, Querying
<1>12. NothingLost'
  <2> SUFFICES ASSUME NEW c \in given'
               PROVE  \/ c \in Ids(queue') \/ \E u \in Turn : c \in Ids(turn'[u].carries)
                      \/ c \in Pending \union said \union settled
    BY <1>5 DEF NothingLost
  <2>1. CASE c \in Ids(s)
    BY <1>1, <2>1
  <2>2. CASE \E u \in Turn : c \in Ids(turn[u].carries)
    <3>1. PICK u \in Turn : c \in Ids(turn[u].carries)
      BY <2>2
    <3>2. u # t
      BY <1>3, <3>1 DEF Ids
    <3> QED BY <1>1, <3>1, <3>2
  <2>3. CASE c \in Ids(queue) \/ c \in Pending \union said \union settled
    BY <1>4, <2>1, <2>3
  <2> QED BY <2>1, <2>2, <2>3 DEF PromptInv, NothingLost
<1>13. OnePlace'
  <2> SUFFICES ASSUME ~cancelled PROVE OnePlace'
    BY DEF OnePlace
  <2>1. \A u \in Turn : turn'[u].snapshot = {}
    BY <1>1, <1>10 DEF PromptInv, Shape
  <2> QED BY <1>1, <1>5, <2>1 DEF PromptInv, OnePlace
<1> QED BY <1>6, <1>7, <1>8, <1>9, <1>11, <1>12, <1>13 DEF PromptInv
-----------------------------------------------------------------------------
LEMMA SubmitPreserves ==
  ASSUME PromptInv, NEW c \in Command, Submit(c)
  PROVE  PromptInv'
<1>1. CASE /\ IsActive(guard)
           /\ Enqueue(c)
           /\ UNCHANGED <<guard, controller>>
           /\ \/ UNCHANGED turn
              \/ /\ controller # 0
                 /\ turn' = [turn EXCEPT ![controller].aborted = TRUE]
  BY <1>1, EnqueuePreserves DEF Submit
<1>2. ASSUME ~IsActive(guard), arrivals' = arrivals + 1,
             NEW t \in Turn, IsNew(t), ExecuteUserInput(t, {Arrived(c)}),
             UNCHANGED <<queue, changed>>
      PROVE  PromptInv'
  <2>1. Arrived(c) \in Entry /\ Arrived(c).id = c /\ Ids({Arrived(c)}) = {c}
    BY ArrivedEntry DEF PromptInv, Ids
  <2>2. c \notin given /\ given' = given \union {c} /\ given' \in SUBSET Command
    BY DEF Submit, PromptInv, TypeOK
  <2>3. /\ c \notin said \union Pending /\ \A f \in queue : f.id # c
        /\ \A u \in Turn : \A f \in turn[u].carries : f.id # c
    BY <2>2 DEF PromptInv, TypeOK, Received, Ids
  <2>4. /\ arrivals' \in Nat /\ changed' \in BOOLEAN
        /\ seen' \in [active : BOOLEAN, jsx : BOOLEAN]
        /\ UNCHANGED <<jsx, planVars, said, twice, settled, cancelled>>
    BY <1>2 DEF Submit, PromptInv, TypeOK
  <2> QED BY <1>2, <2>1, <2>2, <2>3, <2>4, ExecutePreserves
<1> QED BY <1>1, <1>2 DEF Submit

LEMMA NotificationPreserves ==
  ASSUME PromptInv, NEW c \in Command, EnqueuePendingNotification(c)
  PROVE  PromptInv'
  BY EnqueuePreserves DEF EnqueuePendingNotification

\* A query without input takes the guard, which no query holds, for a command that
\* is nowhere else: an incoming prompt or a plan.
LEMMA WithoutInputPreserves ==
  ASSUME PromptInv, NEW t \in Turn, IsNew(t), NEW c \in Command, QueryWithoutInput(t, {c}),
         Startable(guard), controller' = t,
         given' = given \union {c}, Pending' = Pending \ {c}, c \notin given \/ c \in Pending,
         initialMessage' \in PlanSlot, clearing' \in PlanSlot, awaiting' \in PlanSlot,
         clearing' = {} \/ awaiting' = {}, awaiting' \intersect initialMessage' = {},
         raced' \in BOOLEAN, IsActive(guard) => raced', raced => raced',
         UNCHANGED <<queue, arrivals, changed, seen, jsx, settled, cancelled>>
  PROVE  PromptInv'
<1> DEFINE new == [Free EXCEPT !.phase = "running", !.incoming = TRUE,
                               !.generation = guard.generation + 1]
<1>1. /\ turn' = [turn EXCEPT ![t] = new] /\ guard.status # "running"
      /\ guard' = [status |-> "running", generation |-> guard.generation + 1]
      /\ said' = said \union {c} /\ twice' = twice \union (said \intersect {c})
  BY DEF QueryWithoutInput, Startable, Started, Say
<1>2. guard.generation \in Nat /\ guard' \in Guard
  BY <1>1 DEF PromptInv, TypeOK, Guard
<1>3. /\ turn' \in [Turn -> TurnState]
      /\ turn'[t].phase = "running" /\ turn'[t].carries = {} /\ turn'[t].snapshot = {}
      /\ turn'[t].generation = guard.generation + 1
      /\ \A u \in Turn \ {t} : turn'[u] = turn[u]
  <2>1. guard.generation + 1 \in Nat
    BY <1>2
  <2>2. new \in TurnState /\ new.phase = "running" /\ new.carries = {} /\ new.snapshot = {}
        /\ new.generation = guard.generation + 1
    BY <2>1, IncomingTurn
  <2> HIDE DEF new
  <2> QED BY <1>1, <2>2 DEF PromptInv, TypeOK
<1>4. turn[t].phase = "free" /\ turn[t].carries = {} /\ turn[t].snapshot = {}
  BY DEF PromptInv, Shape, IsNew, Busy
<1>5. Pending \subseteq given
  BY DEF PromptInv, Received
<1>6. ~cancelled =>
        /\ c \notin said /\ twice' = twice
        /\ \A f \in queue : f.id # c
        /\ \A u \in Turn : \A e \in turn[u].carries \union turn[u].snapshot : e.id # c
  <2> SUFFICES ASSUME ~cancelled
               PROVE  /\ c \notin said
                      /\ \A f \in queue : f.id # c
                      /\ \A u \in Turn : \A e \in turn[u].carries \union turn[u].snapshot :
                           e.id # c
    BY <1>1
  <2>1. CASE c \notin given
    BY <2>1 DEF PromptInv, TypeOK, Received, Ids
  <2>2. CASE c \in Pending
    BY <2>2 DEF PromptInv, OnePlace
  <2> QED BY <2>1, <2>2
<1>7. TypeOK'
  BY <1>1, <1>2, <1>3 DEF PromptInv, TypeOK
<1>8. Received' /\ Shape'
  BY <1>1, <1>3, <1>4, <1>5 DEF PromptInv, Received, Shape, Ids
<1>9. GuardHeld'
  BY <1>1, <1>3 DEF GuardHeld
<1>10. HeldByTheQuery'
  <2>1. ~cancelled => \A u \in Turn : ~Querying(u)
    BY <1>1 DEF PromptInv, HeldByTheQuery, Owns
  <2> QED BY <1>1, <1>3, <2>1 DEF HeldByTheQuery, Querying, Owns
<1>11. HeldByTheTurn'
  BY <1>1, <1>3, IdleMeansFree DEF HeldByTheTurn, Busy, Owns, IsActive
<1>12. NothingLost'
  <2> SUFFICES ASSUME NEW d \in given, d # c
               PROVE  \/ d \in Ids(queue) \/ \E u \in Turn : d \in Ids(turn'[u].carries)
                      \/ d \in Pending \union said \union settled
    BY <1>1 DEF NothingLost
  <2>1. CASE \E u \in Turn : d \in Ids(turn[u].carries)
    <3>1. PICK u \in Turn : d \in Ids(turn[u].carries)
      BY <2>1
    <3>2. u # t
      BY <1>4, <3>1 DEF Ids
    <3> QED BY <1>3, <3>1, <3>2
  <2> QED BY <2>1 DEF PromptInv, NothingLost
<1>13. OnePlace'
  BY <1>1, <1>3, <1>6 DEF PromptInv, OnePlace
<1> QED BY <1>7, <1>8, <1>9, <1>10, <1>11, <1>12, <1>13 DEF PromptInv

LEMMA IncomingPreserves ==
  ASSUME PromptInv, NEW c \in Command, HandleIncomingPrompt(c)
  PROVE  PromptInv'
<1>1. PICK t \in Turn : IsNew(t) /\ QueryWithoutInput(t, {c}) /\ controller' = t
  BY DEF HandleIncomingPrompt
<1>2. /\ c \notin given /\ given' = given \union {c} /\ ~IsActive(guard)
      /\ UNCHANGED <<queue, arrivals, changed, seen, jsx, planVars, settled, cancelled>>
  BY DEF HandleIncomingPrompt, queueVars
<1>3. Startable(guard)
  BY <1>2 DEF IsActive, Startable
<1>4. UNCHANGED <<initialMessage, clearing, awaiting, raced, Pending>>
  BY <1>2, PlansUnchanged
<1>5. Pending \subseteq given
  BY DEF PromptInv, Received
<1>6. /\ initialMessage' \in PlanSlot /\ clearing' \in PlanSlot /\ awaiting' \in PlanSlot
      /\ (clearing' = {} \/ awaiting' = {}) /\ raced' \in BOOLEAN
      /\ awaiting' \intersect initialMessage' = {}
  BY <1>4 DEF PromptInv, TypeOK, Shape
<1>7. Pending' = Pending \ {c}
  BY <1>2, <1>4, <1>5
<1> QED BY <1>1, <1>2, <1>3, <1>4, <1>6, <1>7, WithoutInputPreserves

\* The effect takes the next batch, or only notes what it has seen.
LEMMA ProcessQueuePreserves ==
  ASSUME PromptInv, ProcessQueueIfReady
  PROVE  PromptInv'
<1>1. /\ seen' \in [active : BOOLEAN, jsx : BOOLEAN]
      /\ UNCHANGED <<arrivals, jsx, planVars, given, said, twice, settled, cancelled>>
      /\ arrivals \in Nat /\ given \in SUBSET Command /\ queue \in SUBSET Entry
  BY DEF ProcessQueueIfReady, historyVars, PromptInv, TypeOK, IsActive
<1>2. CASE ~IsActive(guard) /\ ~jsx /\ MainThread(queue) # {}
  <2>1. PICK t \in Turn, e \in queue :
          /\ IsNew(t) /\ IsNext(queue, e)
          /\ ExecuteUserInput(t, Batch(queue, e))
          /\ queue' = queue \ Batch(queue, e) /\ changed' = TRUE
    BY <1>2 DEF ProcessQueueIfReady
  <2> DEFINE s == Batch(queue, e)
  <2>2. s \subseteq queue /\ s \in SUBSET Entry
    BY <1>1, <2>1, TakenFromQueue
  <2> HIDE DEF s
  <2>3. Ids(s) \subseteq given /\ given = given \union Ids(s)
    BY <2>2 DEF PromptInv, Received, Ids
  <2>4. ~cancelled => \A x \in s :
          /\ x.id \notin said \union Pending /\ \A f \in queue \ s : x.id # f.id
          /\ \A f \in s : x.id = f.id => x = f
          /\ \A u \in Turn : \A f \in turn[u].carries : x.id # f.id
    BY <2>2 DEF PromptInv, OnePlace
  <2>5. IsNew(t) /\ ExecuteUserInput(t, s) /\ queue' = queue \ s /\ changed' \in BOOLEAN
    BY <2>1 DEF s
  <2>6. queue' \in SUBSET queue /\ queue \ queue' \subseteq s
    BY <2>5
  <2> QED BY <1>1, <1>2, <2>2, <2>3, <2>4, <2>5, <2>6, ExecutePreserves
<1>3. CASE ~(~IsActive(guard) /\ ~jsx /\ MainThread(queue) # {})
  <2>1. changed' = FALSE /\ UNCHANGED <<guard, queue, turn, controller>>
    BY <1>3 DEF ProcessQueueIfReady
  <2>2. UNCHANGED <<initialMessage, clearing, awaiting, raced, Pending>>
    BY <1>1, PlansUnchanged
  <2>3. TypeOK' /\ Received' /\ Shape'
    BY <1>1, <2>1, <2>2 DEF PromptInv, TypeOK, Received, Shape
  <2>4. GuardHeld' /\ HeldByTheQuery' /\ HeldByTheTurn'
    BY <1>1, <2>1, <2>2, SameTurns
  <2>5. NothingLost' /\ OnePlace'
    BY <1>1, <2>1, <2>2 DEF PromptInv, NothingLost, OnePlace
  <2> QED BY <2>3, <2>4, <2>5 DEF PromptInv
<1> QED BY <1>2, <1>3
-----------------------------------------------------------------------------
\* A turn whose input is done gets the guard, and its commands are said.
LEMMA QueryStarts ==
  ASSUME PromptInv, NEW t \in Turn, OnQuery(t), Startable(guard)
  PROVE  PromptInv'
<1> DEFINE s == turn[t].carries
<1>1. /\ turn[t].phase = "input" /\ guard.status # "running"
      /\ guard' = [status |-> "running", generation |-> guard.generation + 1]
      /\ turn' = [turn EXCEPT ![t].phase = "running", ![t].carries = {},
                              ![t].generation = guard.generation + 1]
      /\ said' = said \union Ids(s) /\ twice' = twice \union (said \intersect Ids(s))
      /\ jsx' = FALSE
      /\ UNCHANGED <<queue, arrivals, changed, controller, seen, planVars, given, settled,
                     cancelled>>
  BY DEF OnQuery, Startable, Started, Say, queueVars
<1>2. guard.generation + 1 \in Nat
  BY DEF PromptInv, TypeOK, Guard
<1>3. guard' \in Guard /\ guard'.status = "running" /\ guard'.generation = guard.generation + 1
  BY <1>1, <1>2 DEF Guard
<1>4. turn[t].snapshot = {} /\ turn \in [Turn -> TurnState]
  BY <1>1 DEF PromptInv, Shape, TypeOK
<1>5. /\ turn' \in [Turn -> TurnState]
      /\ turn'[t].phase = "running" /\ turn'[t].carries = {} /\ turn'[t].snapshot = {}
      /\ turn'[t].generation = guard.generation + 1
      /\ \A u \in Turn \ {t} : turn'[u] = turn[u]
  BY <1>1, <1>2, <1>4 DEF TurnState
<1>6. Ids(s) \subseteq given
  BY DEF PromptInv, Received
<1>7. UNCHANGED <<initialMessage, clearing, awaiting, raced, Pending>>
  BY <1>1, PlansUnchanged
<1>8. TypeOK'
  BY <1>1, <1>3, <1>5, <1>6, <1>7 DEF PromptInv, TypeOK
<1>9. Received' /\ Shape'
  BY <1>1, <1>5, <1>7 DEF PromptInv, Received, Shape, Ids
<1>10. GuardHeld'
  BY <1>3, <1>5 DEF GuardHeld
<1>11. HeldByTheQuery' /\ HeldByTheTurn'
  <2>1. ~cancelled => \A u \in Turn : ~Querying(u)
    BY <1>1 DEF PromptInv, HeldByTheQuery, Owns
  <2>2. HeldByTheQuery'
    BY <1>1, <1>3, <1>5, <2>1 DEF HeldByTheQuery, Querying, Owns
  <2>3. HeldByTheTurn'
    BY <1>1, <1>3, <1>5, <1>7 DEF PromptInv, HeldByTheTurn, Busy, Owns
  <2> QED BY <2>2, <2>3
<1>12. NothingLost'
  <2> SUFFICES ASSUME NEW c \in given, c \notin Ids(s)
               PROVE  \/ c \in Ids(queue) \/ \E u \in Turn : c \in Ids(turn'[u].carries)
                      \/ c \in Pending \union said \union settled
    BY <1>1, <1>7 DEF NothingLost
  <2>1. CASE \E u \in Turn : c \in Ids(turn[u].carries)
    <3>1. PICK u \in Turn : c \in Ids(turn[u].carries) /\ u # t
      BY <2>1
    <3> QED BY <1>5, <3>1
  <2> QED BY <2>1 DEF PromptInv, NothingLost
<1>13. OnePlace'
  <2> SUFFICES ASSUME ~cancelled PROVE OnePlace'
    BY <1>1 DEF OnePlace
  <2>1. /\ said \intersect Ids(s) = {} /\ Pending \intersect Ids(s) = {}
        /\ \A f \in queue : f.id \notin Ids(s)
        /\ \A u \in Turn \ {t} : \A f \in turn[u].carries : f.id \notin Ids(s)
        /\ \A u \in Turn : \A f \in turn[u].snapshot : f.id \notin Ids(s)
    BY DEF PromptInv, OnePlace, Ids
  <2>2. /\ twice' = {} /\ Pending \intersect said' = {} /\ \A e \in queue : e.id \notin said'
        /\ \A u \in Turn : \A e \in turn'[u].carries \union turn'[u].snapshot : e.id \notin said'
    BY <1>1, <1>5, <2>1 DEF PromptInv, OnePlace
  <2>3. \A u \in Turn : /\ turn'[u].carries \subseteq turn[u].carries
                        /\ turn'[u].snapshot \subseteq turn[u].snapshot
    BY <1>5
  <2> QED BY <1>1, <1>7, <2>2, <2>3, FewerPlaces DEF PromptInv
<1> QED BY <1>8, <1>9, <1>10, <1>11, <1>12, <1>13 DEF PromptInv

\* Another query has the guard, after a cancel or because a plan took the turn's
\* reservation over: the turn's commands return to the queue.
LEMMA QueryRefused ==
  ASSUME PromptInv, NEW t \in Turn, OnQuery(t), ~Startable(guard)
  PROVE  PromptInv'
<1> DEFINE s == turn[t].carries
           hidden == {e \in s : IsMeta(e)}
<1>1. /\ turn[t].phase = "input" /\ guard.status = "running"
      /\ queue' = queue \union PutBack(s) /\ changed' \in BOOLEAN
      /\ arrivals' = 2 * arrivals
      /\ turn' = [turn EXCEPT ![t] = Free]
      /\ settled' = settled \union Ids(hidden)
      /\ jsx' = FALSE
      /\ UNCHANGED <<guard, said, twice, controller, seen, planVars, given, cancelled>>
  BY DEF OnQuery, Startable, SetQueue, PromptInv, TypeOK
<1>2. /\ turn' \in [Turn -> TurnState] /\ turn'[t] = Free
      /\ \A u \in Turn \ {t} : turn'[u] = turn[u]
      /\ s \in SUBSET Entry /\ arrivals \in Nat
  BY <1>1, FreeTurn DEF PromptInv, TypeOK, TurnState
<1>3. PutBack(s) \in SUBSET Entry /\ Ids(PutBack(s)) \union Ids(hidden) = Ids(s)
  <2>1. PutBack(s) \in SUBSET Entry /\ Ids(PutBack(s)) = Ids(s \ hidden)
    BY <1>2, PutBackEntries
  <2>2. Ids(s \ hidden) \union Ids(hidden) = Ids(s)
    BY DEF Ids
  <2> QED BY <2>1, <2>2
<1>4. Ids(s) \subseteq given /\ Ids(queue') = Ids(queue) \union Ids(PutBack(s))
  BY <1>1 DEF PromptInv, Received, Ids
<1>5. UNCHANGED <<initialMessage, clearing, awaiting, raced, Pending>>
  BY <1>1, PlansUnchanged
<1>6. TypeOK'
  <2>1. arrivals' \in Nat
    BY <1>1, <1>2
  <2>2. settled' \subseteq given /\ queue' \subseteq Entry
    BY <1>1, <1>3, <1>4 DEF PromptInv, TypeOK
  <2> QED BY <1>1, <1>2, <1>5, <2>1, <2>2 DEF PromptInv, TypeOK
<1>7. Received' /\ Shape'
  BY <1>1, <1>2, <1>3, <1>4, <1>5, FreeTurn DEF PromptInv, Received, Shape, Ids
<1>8. GuardHeld'
  BY <1>1, <1>2 DEF PromptInv, GuardHeld
<1>9. HeldByTheQuery' /\ HeldByTheTurn'
  BY <1>1, <1>2, <1>5, FreeTurn DEF PromptInv, HeldByTheQuery, HeldByTheTurn, Busy, Querying
<1>10. NothingLost'
  <2> SUFFICES ASSUME NEW c \in given, c \notin Ids(s)
               PROVE  \/ c \in Ids(queue) \/ \E u \in Turn : c \in Ids(turn'[u].carries)
                      \/ c \in Pending \union said \union settled
    BY <1>1, <1>3, <1>4, <1>5 DEF NothingLost
  <2>1. CASE \E u \in Turn : c \in Ids(turn[u].carries)
    <3>1. PICK u \in Turn : c \in Ids(turn[u].carries) /\ u # t
      BY <2>1
    <3> QED BY <1>2, <3>1
  <2> QED BY <2>1 DEF PromptInv, NothingLost
<1>11. OnePlace'
  <2> SUFFICES ASSUME ~cancelled PROVE OnePlace'
    BY <1>1 DEF OnePlace
  <2>1. \A f \in PutBack(s) : \E e \in s :
          f = [id |-> e.id, at |-> arrivals + e.at, again |-> TRUE] /\ f.id = e.id
    BY DEF PutBack
  <2>2. \A f, g \in PutBack(s) : f.id = g.id => f = g
    <3> SUFFICES ASSUME NEW f \in PutBack(s), NEW g \in PutBack(s), f.id = g.id PROVE f = g
      OBVIOUS
    <3>1. PICK e \in s : f = [id |-> e.id, at |-> arrivals + e.at, again |-> TRUE] /\ f.id = e.id
      BY <2>1
    <3>2. PICK d \in s : g = [id |-> d.id, at |-> arrivals + d.at, again |-> TRUE] /\ g.id = d.id
      BY <2>1
    <3>3. e = d
      BY <3>1, <3>2 DEF PromptInv, OnePlace
    <3> QED BY <3>1, <3>2, <3>3
  <2>3. \A f \in PutBack(s) :
          /\ f.id \notin said \union Pending
          /\ \A g \in queue : f.id # g.id
          /\ \A u \in Turn \ {t} : \A g \in turn[u].carries : f.id # g.id
          /\ \A u \in Turn : \A g \in turn[u].snapshot : f.id # g.id
    <3> SUFFICES ASSUME NEW e \in s
                 PROVE  /\ e.id \notin said \union Pending
                        /\ \A g \in queue : e.id # g.id
                        /\ \A u \in Turn \ {t} : \A g \in turn[u].carries : e.id # g.id
                        /\ \A u \in Turn : \A g \in turn[u].snapshot : e.id # g.id
      BY <2>1
    <3> QED BY DEF PromptInv, OnePlace
  <2>4. turn'[t].carries = {} /\ turn'[t].snapshot = {}
    BY <1>2, FreeTurn
  <2>5. \A u \in Turn : /\ turn'[u].carries \subseteq turn[u].carries
                        /\ turn'[u].snapshot \subseteq turn[u].snapshot
    BY <1>2, <2>4
  <2>6. \A e \in queue' :
          e.id \notin said \union Pending /\ \A f \in queue' : e.id = f.id => e = f
    BY <1>1, <2>2, <2>3 DEF PromptInv, OnePlace
  <2>7. \A u \in Turn : \A e \in turn'[u].carries :
          /\ e.id \notin said \union Pending
          /\ \A f \in queue' : e.id # f.id
          /\ \A v \in Turn : \A f \in turn'[v].carries : e.id = f.id => u = v /\ e = f
    BY <1>1, <1>2, <2>3, <2>4, <2>5 DEF PromptInv, OnePlace
  <2>8. \A u \in Turn : \A e \in turn'[u].snapshot :
          /\ e.id \notin said \union Pending
          /\ \A f \in queue' : e.id = f.id => e = f
          /\ \A v \in Turn : \A f \in turn'[v].carries : e.id # f.id
    BY <1>1, <2>3, <2>5 DEF PromptInv, OnePlace
  <2>9. twice' = {} /\ Pending' \intersect said' = {}
    BY <1>1, <1>5 DEF PromptInv, OnePlace
  <2> QED BY <1>1, <1>5, <2>6, <2>7, <2>8, <2>9 DEF OnePlace
<1> QED BY <1>6, <1>7, <1>8, <1>9, <1>10, <1>11 DEF PromptInv

LEMMA InputSettledPreserves ==
  ASSUME PromptInv, NEW t \in Turn, InputSettled(t)
  PROVE  PromptInv'
<1> DEFINE s == turn[t].carries
<1>1. /\ turn[t].phase = "input"
      /\ controller' \in {0, controller} /\ jsx' \in {FALSE, jsx}
      /\ guard' = CancelReservation(guard)
      /\ turn' = [turn EXCEPT ![t] = Free]
      /\ settled' = settled \union Ids(s)
      /\ UNCHANGED <<queue, arrivals, changed, seen, planVars, given, said, twice, cancelled>>
  BY DEF InputSettled, queueVars
<1>2. /\ turn' \in [Turn -> TurnState] /\ turn'[t] = Free
      /\ \A u \in Turn \ {t} : turn'[u] = turn[u]
  BY <1>1, FreeTurn DEF PromptInv, TypeOK
<1>3. /\ guard' \in Guard /\ guard'.status # "dispatching"
      /\ guard.status = "running" => guard' = guard
      /\ guard'.status = "running" => guard' = guard
  BY <1>1 DEF PromptInv, TypeOK, Guard, CancelReservation
<1>4. Ids(s) \subseteq given
  BY DEF PromptInv, Received
<1>5. UNCHANGED <<initialMessage, clearing, awaiting, raced, Pending>>
  BY <1>1, PlansUnchanged
<1>6. TypeOK'
  BY <1>1, <1>2, <1>3, <1>4, <1>5 DEF PromptInv, TypeOK
<1>7. Received' /\ Shape'
  BY <1>1, <1>2, <1>5, FreeTurn DEF PromptInv, Received, Shape, Ids
<1>8. GuardHeld'
  BY <1>1, <1>2, <1>3 DEF PromptInv, GuardHeld
<1>9. HeldByTheQuery'
  BY <1>1, <1>2, <1>3, FreeTurn DEF PromptInv, HeldByTheQuery, Querying, Owns
<1>10. HeldByTheTurn'
  <2>1. ~cancelled /\ ~raced => \A u \in Turn : turn'[u].phase = "free"
    BY <1>1, <1>2, FreeTurn DEF PromptInv, HeldByTheTurn, Busy
  <2> QED BY <1>1, <1>5, <2>1 DEF HeldByTheTurn, Busy
<1>11. OnePlace'
  BY <1>1, <1>2, <1>5, FreeTurn, FewerPlaces DEF PromptInv, OnePlace
<1>12. NothingLost'
  <2> SUFFICES ASSUME NEW c \in given, c \notin Ids(s)
               PROVE  \/ c \in Ids(queue) \/ \E u \in Turn : c \in Ids(turn'[u].carries)
                      \/ c \in Pending \union said \union settled
    BY <1>1, <1>5 DEF NothingLost
  <2>1. CASE \E u \in Turn : c \in Ids(turn[u].carries)
    <3>1. PICK u \in Turn : c \in Ids(turn[u].carries) /\ u # t
      BY <2>1
    <3> QED BY <1>2, <3>1
  <2> QED BY <2>1 DEF PromptInv, NothingLost
<1> QED BY <1>6, <1>7, <1>8, <1>9, <1>10, <1>11, <1>12 DEF PromptInv
-----------------------------------------------------------------------------
LEMMA AttachingPreserves ==
  ASSUME PromptInv, NEW t \in Turn, StartAttaching(t)
  PROVE  PromptInv'
<1>1. PICK p \in 1..2 :
        turn' = [turn EXCEPT ![t].phase = "attaching",
                   ![t].snapshot = Attachable(queue, p)]
  BY DEF StartAttaching
<1> DEFINE s == Attachable(queue, p)
<1>2. s \subseteq queue
  BY TakenFromQueue
<1> HIDE DEF s
<1>3. /\ turn[t].phase = "running"
      /\ turn' = [turn EXCEPT ![t].phase = "attaching", ![t].snapshot = s]
      /\ UNCHANGED <<guard, queue, arrivals, changed, controller, seen, jsx, planVars, given,
                     said, twice, settled, cancelled>>
  BY <1>1 DEF StartAttaching, queueVars, historyVars, s
<1>4. /\ turn' \in [Turn -> TurnState]
      /\ turn'[t].phase = "attaching" /\ turn'[t].carries = turn[t].carries
      /\ turn'[t].snapshot = s /\ turn'[t].generation = turn[t].generation
      /\ \A u \in Turn \ {t} : turn'[u] = turn[u]
  BY <1>2, <1>3 DEF PromptInv, TypeOK, TurnState
<1>5. UNCHANGED <<initialMessage, clearing, awaiting, raced, Pending>>
  BY <1>3, PlansUnchanged
<1>6. TypeOK'
  BY <1>3, <1>4, <1>5 DEF PromptInv, TypeOK
<1>7. Received' /\ Shape'
  BY <1>2, <1>3, <1>4, <1>5 DEF PromptInv, Received, Shape, Ids
<1>8. GuardHeld' /\ HeldByTheQuery' /\ HeldByTheTurn'
  BY <1>3, <1>4, <1>5 DEF PromptInv, GuardHeld, HeldByTheQuery, HeldByTheTurn, Busy, Querying
<1>9. NothingLost'
  BY <1>3, <1>4, <1>5 DEF PromptInv, NothingLost
<1>10. OnePlace'
  BY <1>2, <1>3, <1>4, <1>5 DEF PromptInv, OnePlace
<1> QED BY <1>6, <1>7, <1>8, <1>9, <1>10 DEF PromptInv

\* What the turn saw is said, and removed if it is still there.
LEMMA AttachedPreserves ==
  ASSUME PromptInv, NEW t \in Turn, RemoveFromQueue(t)
  PROVE  PromptInv'
<1> DEFINE s == turn[t].snapshot
<1>1. /\ turn[t].phase = "attaching" /\ turn[t].carries = {}
      /\ queue' = queue \ s /\ changed' \in BOOLEAN
      /\ said' = said \union Ids(s) /\ twice' = twice \union (said \intersect Ids(s))
      /\ turn' = [turn EXCEPT ![t].phase = "running", ![t].snapshot = {}]
      /\ UNCHANGED <<guard, arrivals, controller, seen, jsx, planVars, given, settled, cancelled>>
  BY DEF RemoveFromQueue, Say, SetQueue, PromptInv, TypeOK, Shape
<1>2. /\ turn' \in [Turn -> TurnState]
      /\ turn'[t].phase = "running" /\ turn'[t].carries = {}
      /\ turn'[t].snapshot = {} /\ turn'[t].generation = turn[t].generation
      /\ \A u \in Turn \ {t} : turn'[u] = turn[u]
  BY <1>1 DEF PromptInv, TypeOK, TurnState
<1>3. Ids(s) \subseteq given
  BY DEF PromptInv, Received
<1>4. Ids(queue') \subseteq Ids(queue) /\ Ids(queue) \subseteq Ids(queue') \union Ids(s)
  BY <1>1 DEF Ids
<1>5. UNCHANGED <<initialMessage, clearing, awaiting, raced, Pending>>
  BY <1>1, PlansUnchanged
<1>6. TypeOK'
  BY <1>1, <1>2, <1>3, <1>5 DEF PromptInv, TypeOK
<1>7. Received' /\ Shape'
  BY <1>1, <1>2, <1>4, <1>5 DEF PromptInv, Received, Shape, Ids
<1>8. GuardHeld' /\ HeldByTheQuery' /\ HeldByTheTurn'
  BY <1>1, <1>2, <1>5 DEF PromptInv, GuardHeld, HeldByTheQuery, HeldByTheTurn, Busy, Querying
<1>9. NothingLost'
  <2> SUFFICES ASSUME NEW c \in given
               PROVE  \/ c \in Ids(queue') \/ \E u \in Turn : c \in Ids(turn'[u].carries)
                      \/ c \in Pending \union said' \union settled
    BY <1>1, <1>5 DEF NothingLost
  <2>1. CASE \E u \in Turn : c \in Ids(turn[u].carries)
    <3>1. PICK u \in Turn : c \in Ids(turn[u].carries)
      BY <2>1
    <3>2. u # t
      BY <1>1, <3>1 DEF Ids
    <3> QED BY <1>2, <3>1, <3>2
  <2> QED BY <1>1, <1>4, <2>1 DEF PromptInv, NothingLost
<1>10. OnePlace'
  <2> SUFFICES ASSUME ~cancelled PROVE OnePlace'
    BY <1>1 DEF OnePlace
  <2>1. \A u \in Turn : turn'[u].snapshot = {}
    BY <1>1, <1>2 DEF PromptInv, HeldByTheQuery, Shape, Querying
  <2>2. /\ said \intersect Ids(s) = {} /\ Pending \intersect Ids(s) = {}
        /\ \A f \in queue \ s : f.id \notin Ids(s)
        /\ \A u \in Turn : \A f \in turn[u].carries : f.id \notin Ids(s)
    BY DEF PromptInv, OnePlace, Ids
  <2>3. /\ twice' = {} /\ Pending \intersect said' = {} /\ \A e \in queue' : e.id \notin said'
        /\ \A u \in Turn : \A e \in turn[u].carries : e.id \notin said'
    BY <1>1, <2>2 DEF PromptInv, OnePlace
  <2>4. \A u \in Turn : turn'[u].carries = turn[u].carries
    BY <1>1, <1>2
  <2> QED BY <1>1, <1>5, <2>1, <2>3, <2>4, FewerPlaces DEF PromptInv
<1> QED BY <1>6, <1>7, <1>8, <1>9, <1>10 DEF PromptInv

\* The query ends: it releases the guard if it owns it, and a reservation in any
\* case unless it was made without input.
LEMMA FinishPreserves ==
  ASSUME PromptInv, NEW t \in Turn, Finish(t)
  PROVE  PromptInv'
<1>1. /\ turn[t].phase = "running"
      /\ turn' = [turn EXCEPT ![t] = Free]
      /\ controller' \in {0, controller}
      /\ UNCHANGED <<queue, arrivals, changed, seen, jsx, planVars, given, said, twice, settled,
                     cancelled>>
  BY DEF Finish, queueVars, historyVars
<1>2. /\ turn' \in [Turn -> TurnState] /\ turn'[t] = Free
      /\ \A u \in Turn \ {t} : turn'[u] = turn[u]
      /\ turn[t].generation \in Nat /\ guard \in Guard
      /\ turn[t].carries = {}
  BY <1>1, FreeTurn DEF PromptInv, TypeOK, TurnState, Shape
<1>3. /\ guard' \in Guard
      /\ guard'.status = "dispatching" => guard' = guard
      /\ guard'.status = "running" => guard' = guard /\ guard.generation # turn[t].generation
  BY <1>2 DEF Finish, EndedBy, Owns, CancelReservation, Guard
<1>4. UNCHANGED <<initialMessage, clearing, awaiting, raced, Pending>>
  BY <1>1, PlansUnchanged
<1>5. TypeOK'
  BY <1>1, <1>2, <1>3, <1>4 DEF PromptInv, TypeOK
<1>6. Received' /\ Shape'
  BY <1>1, <1>2, <1>4, FreeTurn DEF PromptInv, Received, Shape, Ids
<1>7. GuardHeld'
  BY <1>1, <1>2, <1>3 DEF PromptInv, GuardHeld
<1>8. HeldByTheQuery' /\ HeldByTheTurn'
  <2>1. ~cancelled => \A u \in Turn : ~(turn'[u].phase \in {"running", "attaching"})
    BY <1>1, <1>2, FreeTurn DEF PromptInv, HeldByTheQuery, Querying
  <2>2. ~cancelled /\ ~raced => \A u \in Turn : turn'[u].phase = "free"
    BY <1>1, <1>2, FreeTurn DEF PromptInv, HeldByTheTurn, Busy
  <2> QED BY <1>1, <1>4, <2>1, <2>2 DEF HeldByTheQuery, HeldByTheTurn, Busy, Querying
<1>9. OnePlace'
  BY <1>1, <1>2, <1>4, FreeTurn, FewerPlaces DEF PromptInv, OnePlace
<1>10. NothingLost'
  <2> SUFFICES ASSUME NEW c \in given
               PROVE  \/ c \in Ids(queue) \/ \E u \in Turn : c \in Ids(turn'[u].carries)
                      \/ c \in Pending \union said \union settled
    BY <1>1, <1>4 DEF NothingLost
  <2>1. CASE \E u \in Turn : c \in Ids(turn[u].carries)
    <3>1. PICK u \in Turn : c \in Ids(turn[u].carries)
      BY <2>1
    <3>2. u # t
      BY <1>2, <3>1 DEF Ids
    <3> QED BY <1>2, <3>1, <3>2
  <2> QED BY <2>1 DEF PromptInv, NothingLost
<1> QED BY <1>5, <1>6, <1>7, <1>8, <1>9, <1>10 DEF PromptInv

\* A cancel ends whatever the guard stands for and gives the screen's controller up.
LEMMA CancelPreserves ==
  ASSUME PromptInv, OnCancel
  PROVE  PromptInv'
<1>1. /\ controller \in Turn /\ controller' = 0 /\ cancelled' = TRUE
      /\ guard' = ForceEnded(guard)
      /\ UNCHANGED <<queue, arrivals, changed, seen, jsx, planVars, given, said, twice, settled>>
  BY DEF OnCancel, queueVars, PromptInv, TypeOK
<1>2. guard' \in Guard /\ guard'.status = "idle"
  BY <1>1, GuardOperations DEF PromptInv, TypeOK, Guard, ForceEnded, IsActive
<1>3. /\ turn' \in [Turn -> TurnState]
      /\ \A t \in Turn : /\ turn'[t].phase = turn[t].phase
                         /\ turn'[t].carries = turn[t].carries
                         /\ turn'[t].snapshot = turn[t].snapshot
  <2>1. CASE turn' = turn
    BY <2>1 DEF PromptInv, TypeOK
  <2>2. CASE turn' = [turn EXCEPT ![controller].aborted = TRUE]
    BY <1>1, <2>2, AbortedTurn DEF PromptInv
  <2> QED BY <2>1, <2>2 DEF OnCancel
<1>4. UNCHANGED <<initialMessage, clearing, awaiting, raced, Pending>>
  BY <1>1, PlansUnchanged
<1>5. TypeOK'
  BY <1>1, <1>2, <1>3, <1>4 DEF PromptInv, TypeOK
<1>6. Received' /\ Shape'
  BY <1>1, <1>3, <1>4 DEF PromptInv, Received, Shape
<1>7. GuardHeld' /\ HeldByTheQuery' /\ HeldByTheTurn' /\ OnePlace'
  BY <1>1, <1>2 DEF GuardHeld, HeldByTheQuery, HeldByTheTurn, OnePlace
<1>8. NothingLost'
  BY <1>1, <1>3, <1>4 DEF PromptInv, NothingLost
<1> QED BY <1>5, <1>6, <1>7, <1>8 DEF PromptInv

LEMMA ToggleOrStutterPreserves ==
  ASSUME PromptInv, ToggleLocalJSX \/ UNCHANGED vars
  PROVE  PromptInv'
<1>1. /\ jsx' \in BOOLEAN
      /\ UNCHANGED <<guard, queue, arrivals, changed, turn, controller, seen, planVars, given,
                     said, twice, settled, cancelled>>
  BY DEF ToggleLocalJSX, vars, queueVars, historyVars, PromptInv, TypeOK
<1>2. UNCHANGED <<initialMessage, clearing, awaiting, raced, Pending>>
  BY <1>1, PlansUnchanged
<1>3. TypeOK' /\ Received' /\ Shape'
  BY <1>1, <1>2 DEF PromptInv, TypeOK, Received, Shape
<1>4. GuardHeld' /\ HeldByTheQuery' /\ HeldByTheTurn'
  BY <1>1, <1>2, SameTurns
<1>5. NothingLost' /\ OnePlace'
  BY <1>1, <1>2 DEF PromptInv, NothingLost, OnePlace
<1> QED BY <1>3, <1>4, <1>5 DEF PromptInv

LEMMA QueueOnlyPreserves ==
  ASSUME PromptInv, PopAllEditable \/ ClearCommandQueue \/ SubagentDrains
  PROVE  PromptInv'
<1>1. PICK s \in SUBSET queue :
        /\ queue' = queue \ s /\ changed' \in BOOLEAN
        /\ settled' = settled \union Ids(s)
        /\ UNCHANGED <<guard, arrivals, turn, controller, seen, jsx, planVars, given, said,
                       twice, cancelled>>
  <2>1. CASE PopAllEditable
    <3>1. Editable(queue) \in SUBSET queue
      BY TakenFromQueue
    <3> QED BY <2>1, <3>1 DEF PopAllEditable, SetQueue, PromptInv, TypeOK
  <2>2. CASE ClearCommandQueue
    <3>1. queue \in SUBSET queue /\ queue \ queue = {}
      OBVIOUS
    <3> QED BY <2>2, <3>1 DEF ClearCommandQueue, SetQueue, PromptInv, TypeOK
  <2>3. CASE SubagentDrains
    <3>1. MainThread(queue) \subseteq queue
      BY TakenFromQueue
    <3>2. queue \ MainThread(queue) \in SUBSET queue
          /\ queue \ (queue \ MainThread(queue)) = MainThread(queue)
      BY <3>1
    <3> QED BY <2>3, <3>2 DEF SubagentDrains, SetQueue, PromptInv, TypeOK
  <2> QED BY <2>1, <2>2, <2>3
<1> QED BY <1>1, RemovalPreserves

-----------------------------------------------------------------------------
\* A plan is accepted: it replaces one that waits, and its turn is aborted.
LEMMA LeavePlanModePreserves ==
  ASSUME PromptInv, NEW t \in Turn, NEW c \in Plan, LeavePlanMode(t, c)
  PROVE  PromptInv'
<1>1. /\ c \notin given /\ c \in Command /\ given' = given \union {c}
      /\ initialMessage' = {c}
      /\ settled' = settled \union (initialMessage \ clearing)
      /\ turn' = [turn EXCEPT ![t].aborted = TRUE]
      /\ UNCHANGED <<guard, queue, arrivals, changed, controller, seen, jsx, clearing, awaiting,
                     raced, said, twice, cancelled>>
  BY IncomingAssumption DEF LeavePlanMode, queueVars
<1>2. /\ turn' \in [Turn -> TurnState]
      /\ \A u \in Turn : /\ turn'[u].phase = turn[u].phase
                         /\ turn'[u].carries = turn[u].carries
                         /\ turn'[u].snapshot = turn[u].snapshot
                         /\ turn'[u].generation = turn[u].generation
  BY <1>1, AbortedTurn DEF PromptInv
<1>3. /\ Pending' = {c} \union clearing \union awaiting
      /\ Pending' \subseteq Pending \union {c} /\ Pending \subseteq Pending' \union settled'
      /\ Pending \subseteq given /\ c \notin Pending
  BY <1>1 DEF Pending, PromptInv, Received
<1>4. TypeOK'
  <2>1. {c} \in PlanSlot
    BY DEF PlanSlot
  <2>2. initialMessage \subseteq given
    BY <1>3 DEF Pending
  <2> QED BY <1>1, <1>2, <2>1, <2>2 DEF PromptInv, TypeOK
<1>5. Received' /\ Shape'
  <2>1. c \notin awaiting
    BY <1>3 DEF Pending
  <2> QED BY <1>1, <1>2, <1>3, <2>1 DEF PromptInv, Received, Shape
<1>6. GuardHeld' /\ HeldByTheQuery' /\ HeldByTheTurn'
  BY <1>1, <1>2, SameTurns
<1>7. NothingLost'
  BY <1>1, <1>2, <1>3 DEF PromptInv, NothingLost
<1>8. OnePlace'
  <2>1. c \notin said /\ \A e \in queue : e.id # c
    BY <1>1 DEF PromptInv, TypeOK, Received, Ids
  <2>2. \A u \in Turn : \A e \in turn[u].carries \union turn[u].snapshot : e.id # c
    BY <1>1 DEF PromptInv, Received, Ids
  <2> QED BY <1>1, <1>2, <1>3, <2>1, <2>2 DEF PromptInv, OnePlace
<1> QED BY <1>4, <1>5, <1>6, <1>7, <1>8 DEF PromptInv

\* processInitialMessage takes the plan, and clears the conversation.
LEMMA PlanTakenPreserves ==
  ASSUME PromptInv, ProcessInitialMessage \/ ClearInitialMessage
  PROVE  PromptInv'
<1>1. /\ Pending' \subseteq Pending /\ Pending \subseteq Pending' \union settled'
      /\ settled \subseteq settled' /\ settled' \subseteq settled \union Pending
      /\ initialMessage' \in PlanSlot /\ clearing' \in PlanSlot /\ awaiting' \in PlanSlot
      /\ clearing' = {} \/ awaiting' = {}
      /\ awaiting' \intersect initialMessage' = {}
  BY DEF ProcessInitialMessage, ClearInitialMessage, Pending, PlanSlot, historyVars, PromptInv,
         TypeOK, Shape
<1>2. UNCHANGED <<guard, queue, arrivals, changed, turn, controller, seen, jsx, raced, given,
                  said, twice, cancelled>>
  BY DEF ProcessInitialMessage, ClearInitialMessage, queueVars, historyVars
<1>3. TypeOK'
  BY <1>1, <1>2 DEF PromptInv, TypeOK, Received
<1>4. Received' /\ Shape'
  BY <1>1, <1>2 DEF PromptInv, Received, Shape
<1>5. GuardHeld' /\ HeldByTheQuery' /\ HeldByTheTurn'
  BY <1>2, SameTurns
<1>6. NothingLost'
  BY <1>1, <1>2 DEF PromptInv, NothingLost
<1>7. OnePlace'
  BY <1>1, <1>2, FewerPlaces DEF PromptInv, OnePlace
<1> QED BY <1>3, <1>4, <1>5, <1>6, <1>7 DEF PromptInv

\* The plan's query takes an idle guard or a reservation, or the plan is queued.
LEMMA PlanQueryPreserves ==
  ASSUME PromptInv, QueryInitialMessage
  PROVE  PromptInv'
<1>1. PICK c \in Plan : awaiting = {c}
  BY DEF QueryInitialMessage, PlanSlot, PromptInv, TypeOK
<1>2. PICK t \in Turn :
        /\ IsNew(t) /\ controller' = t
        /\ \/ Startable(guard) /\ QueryWithoutInput(t, {c}) /\ UNCHANGED queueVars
           \/ ~Startable(guard) /\ Enqueue(c) /\ UNCHANGED <<guard, turn, said, twice>>
  BY <1>1 DEF QueryInitialMessage
<1>3. /\ awaiting' = {} /\ UNCHANGED <<initialMessage, clearing, seen, jsx, given, settled, cancelled>>
      /\ raced' \in BOOLEAN /\ (IsActive(guard) => raced') /\ (raced => raced')
  BY DEF QueryInitialMessage, PromptInv, TypeOK, IsActive
<1>4. c \in Command /\ c \in given /\ c \in Pending /\ given = given \union {c}
  BY <1>1, IncomingAssumption DEF Pending, PromptInv, Received
<1>5. Pending' = Pending \ {c}
  BY <1>1, <1>3 DEF Pending, PromptInv, Shape
<1>6. /\ initialMessage' \in PlanSlot /\ clearing' \in PlanSlot /\ awaiting' \in PlanSlot
      /\ (clearing' = {} \/ awaiting' = {}) /\ awaiting' \intersect initialMessage' = {}
  BY <1>3 DEF PlanSlot, PromptInv, TypeOK
<1>7. CASE Startable(guard) /\ QueryWithoutInput(t, {c}) /\ UNCHANGED queueVars
  <2>1. UNCHANGED <<queue, arrivals, changed, seen, jsx, settled, cancelled>>
        /\ given' = given \union {c}
    BY <1>3, <1>4, <1>7 DEF queueVars
  <2> QED BY <1>2, <1>3, <1>4, <1>5, <1>6, <1>7, <2>1, WithoutInputPreserves
<1>8. CASE ~Startable(guard) /\ Enqueue(c) /\ UNCHANGED <<guard, turn, said, twice>>
  <2>1. queue' = queue \union {Arrived(c)} /\ arrivals' = arrivals + 1 /\ changed' \in BOOLEAN
    BY <1>8 DEF Enqueue, SetQueue, PromptInv, TypeOK
  <2>2. Arrived(c) \in Entry /\ Arrived(c).id = c /\ Ids(queue') = Ids(queue) \union {c}
    BY <1>4, <2>1, ArrivedEntry DEF PromptInv, Ids
  <2>3. raced'
    BY <1>3, <1>8 DEF Startable, IsActive
  <2>4. TypeOK'
    BY <1>2, <1>3, <1>6, <1>8, <2>1, <2>2 DEF PromptInv, TypeOK
  <2>5. Received' /\ Shape'
    BY <1>3, <1>4, <1>5, <1>6, <1>8, <2>2 DEF PromptInv, Received, Shape
  <2>6. GuardHeld' /\ HeldByTheQuery' /\ HeldByTheTurn'
    BY <1>3, <1>8, <2>3 DEF PromptInv, GuardHeld, HeldByTheQuery, HeldByTheTurn, Querying
  <2>7. NothingLost'
    BY <1>3, <1>5, <1>8, <2>2 DEF PromptInv, NothingLost
  <2>8. OnePlace'
    BY <1>3, <1>4, <1>5, <1>8, <2>1, <2>2 DEF PromptInv, OnePlace
  <2> QED BY <2>4, <2>5, <2>6, <2>7, <2>8 DEF PromptInv
<1> QED BY <1>2, <1>7, <1>8

-----------------------------------------------------------------------------
LEMMA NextPreserves == PromptInv /\ [Next]_vars => PromptInv'
<1> SUFFICES ASSUME PromptInv, [Next]_vars PROVE PromptInv'
  OBVIOUS
<1>1. ASSUME NEW c \in Command,
             Submit(c) \/ EnqueuePendingNotification(c) \/ HandleIncomingPrompt(c)
      PROVE  PromptInv'
  BY <1>1, SubmitPreserves, NotificationPreserves, IncomingPreserves
<1>2. ASSUME NEW t \in Turn, OnQuery(t)
      PROVE  PromptInv'
  BY <1>2, QueryStarts, QueryRefused
<1>3. ASSUME NEW t \in Turn,
             InputSettled(t) \/ StartAttaching(t) \/ RemoveFromQueue(t) \/ Finish(t)
      PROVE  PromptInv'
  BY <1>3, InputSettledPreserves, AttachingPreserves, AttachedPreserves, FinishPreserves
<1>4. CASE ProcessQueueIfReady
  BY <1>4, ProcessQueuePreserves
<1>5. CASE OnCancel
  BY <1>5, CancelPreserves
<1>6. CASE PopAllEditable \/ ClearCommandQueue \/ SubagentDrains
  BY <1>6, QueueOnlyPreserves
<1>7. CASE ToggleLocalJSX \/ UNCHANGED vars
  BY <1>7, ToggleOrStutterPreserves
<1>8. ASSUME NEW t \in Turn, NEW c \in Plan, LeavePlanMode(t, c)
      PROVE  PromptInv'
  BY <1>8, LeavePlanModePreserves
<1>9. CASE ProcessInitialMessage \/ ClearInitialMessage \/ QueryInitialMessage
  BY <1>9, PlanTakenPreserves, PlanQueryPreserves
<1> QED BY <1>1, <1>2, <1>3, <1>4, <1>5, <1>6, <1>7, <1>8, <1>9 DEF Next

\* The inductive invariant holds in every reachable state.
THEOREM PromptInvariant == Spec => []PromptInv
  BY InitEstablishes, NextPreserves, PTL DEF Spec

\* Every variable keeps its type, for any number of commands and calls: what is
\* said or settled had been given.
THEOREM TypeCorrect == Spec => []TypeOK
<1>1. PromptInv => TypeOK
  BY DEF PromptInv
<1> QED BY <1>1, PromptInvariant, PTL

\* QueryGuard is never left dispatching or running by nobody.
THEOREM GuardNeverOrphaned == Spec => []GuardHeld
<1>1. PromptInv => GuardHeld
  BY DEF PromptInv
<1> QED BY <1>1, PromptInvariant, PTL

\* Until the user cancels there is one query at a time, whichever way its messages
\* come; and one call of executeUserInput or onQuery, too, until a plan comes to
\* onQuery while the guard is active (processInitialMessage does not ask it).
THEOREM OneTurnCorrect == Spec => []OneTurnAtATime
<1>1. PromptInv => OneTurnAtATime
  BY DEF PromptInv, HeldByTheQuery, HeldByTheTurn, OneTurnAtATime
<1> QED BY <1>1, PromptInvariant, PTL

\* Until then, and only cancels and such plans can end it, Escape aborts the turn
\* that is in progress.
THEOREM EscapeCorrect == Spec => []EscapeReachesTheTurn
<1>1. PromptInv => EscapeReachesTheTurn
  BY DEF PromptInv, HeldByTheTurn, EscapeReachesTheTurn
<1> QED BY <1>1, PromptInvariant, PTL

\* The queue, its drains and the put-backs of onQuery lose no command.
THEOREM NothingLostCorrect == Spec => []NothingLost
<1>1. PromptInv => NothingLost
  BY DEF PromptInv
<1> QED BY <1>1, PromptInvariant, PTL

\* Until the user cancels, no command enters the conversation twice, although
\* query.ts removes what it attached only after an await and a plan may collide
\* with a turn.
THEOREM SaidOnceCorrect == Spec => []SaidOnce
<1>1. PromptInv => SaidOnce
  BY DEF PromptInv, OnePlace, SaidOnce
<1> QED BY <1>1, PromptInvariant, PTL

\* No step but its owner's end or a cancel ends a running query.
LEMMA RunEnds ==
  ASSUME PromptInv, [Next]_vars, guard.status = "running", guard'.status # "running"
  PROVE  \/ guard'.generation > guard.generation
         \/ \E t \in Turn : /\ turn[t].generation = guard.generation
                            /\ Busy(t) /\ turn'[t] = Free
<1>1. guard \in Guard /\ guard.generation \in Nat /\ turn \in [Turn -> TurnState]
  BY DEF PromptInv, TypeOK, Guard
<1>2. CASE OnCancel
  BY <1>1, <1>2 DEF OnCancel, ForceEnded, IsActive
<1>3. ASSUME NEW t \in Turn, Finish(t)
      PROVE  turn[t].generation = guard.generation /\ Busy(t) /\ turn'[t] = Free
  <2>1. turn[t].phase = "running" /\ turn'[t] = Free
    BY <1>1, <1>3 DEF Finish
  <2>2. Owns(guard, turn[t].generation)
    BY <1>1, <1>3 DEF Finish, EndedBy, CancelReservation
  <2> QED BY <2>1, <2>2 DEF Owns, Busy
<1>4. ASSUME NEW c \in Command, Submit(c) \/ HandleIncomingPrompt(c)
      PROVE  FALSE
  BY <1>4 DEF Submit, HandleIncomingPrompt, QueryWithoutInput, Started, IsActive
<1>5. ASSUME NEW t \in Turn, OnQuery(t) \/ InputSettled(t)
      PROVE  FALSE
  BY <1>5 DEF OnQuery, InputSettled, Startable, CancelReservation
<1>6. ASSUME NEW t \in Turn, StartAttaching(t) \/ RemoveFromQueue(t)
      PROVE  FALSE
  BY <1>6 DEF StartAttaching, RemoveFromQueue
<1>7. CASE ProcessQueueIfReady
  BY <1>7 DEF ProcessQueueIfReady, IsActive
<1>8. CASE \/ \E c \in Command : EnqueuePendingNotification(c)
           \/ PopAllEditable \/ ClearCommandQueue \/ SubagentDrains \/ ToggleLocalJSX
           \/ \E t \in Turn, c \in Plan : LeavePlanMode(t, c)
           \/ ProcessInitialMessage \/ ClearInitialMessage \/ UNCHANGED vars
  BY <1>8 DEF EnqueuePendingNotification, PopAllEditable, ClearCommandQueue, SubagentDrains,
              ToggleLocalJSX, LeavePlanMode, ProcessInitialMessage, ClearInitialMessage, vars
<1>9. CASE QueryInitialMessage
  BY <1>9 DEF QueryInitialMessage, QueryWithoutInput, Started
<1> QED BY <1>2, <1>3, <1>4, <1>5, <1>6, <1>7, <1>8, <1>9 DEF Next

\* QueryGuard's generation keeps a cancelled turn from ending its successor.
THEOREM RunEndsCorrect == Spec => RunEndsByOwner
<1>1. PromptInv /\ [Next]_vars =>
        [guard.status = "running" /\ guard'.status # "running" =>
           \/ guard'.generation > guard.generation
           \/ \E t \in Turn : /\ turn[t].generation = guard.generation
                              /\ Busy(t) /\ turn'[t] = Free]_vars
  BY RunEnds
<1> QED BY <1>1, PromptInvariant, PTL DEF Spec, RunEndsByOwner
=============================================================================
