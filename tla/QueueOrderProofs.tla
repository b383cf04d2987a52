-------------------------- MODULE QueueOrderProofs --------------------------
(***************************************************************************)
(* More about PromptSubmit: the order in which the queue is served, the    *)
(* effect that serves it, and the generations of the guard.  Unlike most   *)
(* of PromptSubmitProofs, all of it holds after cancels too.               *)
(***************************************************************************)
EXTENDS PromptSubmitProofs, WellFoundedInduction

\* Entries that arrived one after the other, n at most.
Distinct(entries, n) ==
  /\ \A e \in entries : e.at \in 1 .. n
  /\ \A e, f \in entries : e.at = f.at => e = f

\* The numbers of arrival are the order of an array: no two entries of the queue
\* share one, nor two commands that a turn holds and may put back.
ArrivalsTotal ==
  /\ Distinct(queue, arrivals)
  /\ \A t \in Turn : Distinct(turn[t].carries, arrivals)

LEMMA Fewer ==
  ASSUME NEW n \in Nat, NEW m \in Nat, n <= m, NEW r, NEW s \in SUBSET r, Distinct(r, n)
  PROVE  Distinct(s, m)
  BY DEF Distinct

LEMMA OneMore ==
  ASSUME arrivals \in Nat, NEW r, Distinct(r, arrivals), NEW c
  PROVE  /\ Distinct(r \union {Arrived(c)}, arrivals + 1)
         /\ Distinct({Arrived(c)}, arrivals + 1)
<1>1. Arrived(c).at = arrivals + 1 /\ Arrived(c).at \in 1 .. arrivals + 1
  BY DEF Arrived
<1>2. \A e \in r : e.at \in 1 .. arrivals + 1 /\ e.at # arrivals + 1
  BY DEF Distinct
<1>3. \A e, f \in r : e.at = f.at => e = f
  BY DEF Distinct
<1> HIDE DEF Distinct
<1> QED BY <1>1, <1>2, <1>3 DEF Distinct

\* What onQuery puts back comes behind everything in the queue, in its old order.
LEMMA PutBackBehind ==
  ASSUME arrivals \in Nat, NEW r, Distinct(r, arrivals), NEW s, Distinct(s, arrivals)
  PROVE  /\ Distinct(r \union PutBack(s), 2 * arrivals)
         /\ \A e \in r, f \in PutBack(s) : e.at < f.at
<1>1. ASSUME NEW f \in PutBack(s)
      PROVE  \E e \in s : /\ f = [id |-> e.id, at |-> arrivals + e.at, again |-> TRUE]
                          /\ e.at \in 1 .. arrivals /\ f.at = arrivals + e.at
  BY DEF PutBack, Distinct
<1>2. ASSUME NEW f \in PutBack(s), NEW g \in PutBack(s), f.at = g.at
      PROVE  f = g
  <2>1. PICK e \in s : /\ f = [id |-> e.id, at |-> arrivals + e.at, again |-> TRUE]
                       /\ e.at \in 1 .. arrivals /\ f.at = arrivals + e.at
    BY <1>1
  <2>2. PICK d \in s : /\ g = [id |-> d.id, at |-> arrivals + d.at, again |-> TRUE]
                       /\ d.at \in 1 .. arrivals /\ g.at = arrivals + d.at
    BY <1>1
  <2>3. e.at = d.at
    BY <1>2, <2>1, <2>2
  <2>4. e = d
    BY <2>3 DEF Distinct
  <2> QED BY <2>1, <2>2, <2>4
<1>3. \A f \in PutBack(s) : f.at \in arrivals + 1 .. 2 * arrivals
  BY <1>1
<1>4. \A e \in r : e.at \in 1 .. arrivals /\ e.at \in 1 .. 2 * arrivals
  BY DEF Distinct
<1>5. \A e \in r, f \in PutBack(s) : e.at < f.at
  BY <1>3, <1>4
<1>6. \A e, f \in r : e.at = f.at => e = f
  BY DEF Distinct
<1>7. \A e \in r \union PutBack(s) : e.at \in 1 .. 2 * arrivals
  BY <1>3, <1>4
<1>8. \A e, f \in r \union PutBack(s) : e.at = f.at => e = f
  BY <1>2, <1>3, <1>4, <1>6
<1> QED BY <1>5, <1>7, <1>8 DEF Distinct

\* What a step does to the queue and to the commands turns hold.
LEMMA StepOnArrivals ==
  ASSUME PromptInv, ArrivalsTotal, [Next]_vars
  PROVE  ArrivalsTotal'
<1>0. /\ arrivals \in Nat /\ turn \in [Turn -> TurnState] /\ queue \in SUBSET Entry
      /\ Distinct(queue, arrivals) /\ \A t \in Turn : Distinct(turn[t].carries, arrivals)
      /\ controller \in Turn \union {0}
  BY DEF PromptInv, TypeOK, ArrivalsTotal
<1>1. Distinct({}, arrivals)
  BY DEF Distinct
<1>2. ASSUME arrivals' = arrivals, queue' \in SUBSET queue,
             \A t \in Turn : turn'[t].carries \in SUBSET turn[t].carries
      PROVE  ArrivalsTotal'
  <2>1. arrivals' \in Nat /\ arrivals <= arrivals' /\ Distinct(queue', arrivals')
    BY <1>0, <1>2, Fewer
  <2>2. ASSUME NEW t \in Turn PROVE Distinct(turn'[t].carries, arrivals')
    <3>1. turn'[t].carries \in SUBSET turn[t].carries /\ Distinct(turn[t].carries, arrivals)
      BY <1>0, <1>2
    <3> QED BY <1>0, <2>1, <3>1, Fewer
  <2> QED BY <2>1, <2>2 DEF ArrivalsTotal
<1>3. ASSUME NEW c, Enqueue(c), \A t \in Turn : turn'[t].carries = turn[t].carries
      PROVE  ArrivalsTotal'
  <2>1. queue' = queue \union {Arrived(c)} /\ arrivals' = arrivals + 1
    BY <1>3 DEF Enqueue, SetQueue
  <2>2. Distinct(queue', arrivals')
    BY <1>0, <2>1, OneMore
  <2>3. \A t \in Turn : Distinct(turn'[t].carries, arrivals')
    BY <1>0, <1>3, <2>1, Fewer
  <2> QED BY <2>2, <2>3 DEF ArrivalsTotal
<1>4. ASSUME NEW t \in Turn, NEW s, ExecuteUserInput(t, s), arrivals' \in Nat,
             arrivals <= arrivals', queue' \in SUBSET queue, Distinct(s, arrivals')
      PROVE  ArrivalsTotal'
  <2>1. turn'[t].carries = s /\ \A u \in Turn \ {t} : turn'[u] = turn[u]
    BY <1>0, <1>4 DEF ExecuteUserInput, Free
  <2>2. Distinct(queue', arrivals')
    BY <1>0, <1>4, Fewer
  <2>3. ASSUME NEW u \in Turn \ {t} PROVE Distinct(turn'[u].carries, arrivals')
    <3>1. Distinct(turn[u].carries, arrivals) /\ turn'[u].carries = turn[u].carries
      BY <1>0, <2>1
    <3> QED BY <1>0, <1>4, <3>1, Fewer
  <2> QED BY <1>4, <2>1, <2>2, <2>3 DEF ArrivalsTotal
<1>5. ASSUME NEW c \in Command, Submit(c) PROVE ArrivalsTotal'
  <2>1. CASE Enqueue(c) /\ (UNCHANGED turn \/ (/\ controller # 0
                              /\ turn' = [turn EXCEPT ![controller].aborted = TRUE]))
    <3>1. \A t \in Turn : turn'[t].carries = turn[t].carries
      BY <1>0, <2>1 DEF TurnState
    <3> QED BY <1>3, <2>1, <3>1
  <2>2. ASSUME arrivals' = arrivals + 1, UNCHANGED <<queue, changed>>,
               NEW t \in Turn, ExecuteUserInput(t, {Arrived(c)})
        PROVE  ArrivalsTotal'
    <3>1. Distinct({Arrived(c)}, arrivals')
      BY <1>0, <1>1, <2>2, OneMore
    <3> QED BY <1>0, <1>4, <2>2, <3>1
  <2> QED BY <1>5, <2>1, <2>2 DEF Submit
<1>6. ASSUME NEW c \in Command, EnqueuePendingNotification(c) PROVE ArrivalsTotal'
  BY <1>3, <1>6 DEF EnqueuePendingNotification
<1>7. ASSUME NEW c \in Command, HandleIncomingPrompt(c) PROVE ArrivalsTotal'
  BY <1>0, <1>2, <1>7 DEF HandleIncomingPrompt, QueryWithoutInput, queueVars, Free
<1>8. CASE ProcessQueueIfReady
  <2>1. ASSUME NEW t \in Turn, NEW e \in queue, IsNext(queue, e),
               ExecuteUserInput(t, Batch(queue, e)), queue' = queue \ Batch(queue, e)
        PROVE  ArrivalsTotal'
    <3> DEFINE s == Batch(queue, e)
    <3>1. s \in SUBSET queue
      BY <2>1, TakenFromQueue
    <3>2. arrivals' = arrivals
      BY <1>8 DEF ProcessQueueIfReady
    <3>3. ExecuteUserInput(t, s) /\ queue' = queue \ s
      BY <2>1
    <3> HIDE DEF s
    <3>4. Distinct(s, arrivals')
      BY <1>0, <3>1, <3>2, Fewer
    <3> QED BY <1>0, <1>4, <3>2, <3>3, <3>4
  <2>2. CASE UNCHANGED <<guard, queue, turn, controller>>
    BY <1>2, <1>8, <2>2 DEF ProcessQueueIfReady
  <2> QED BY <1>8, <2>1, <2>2 DEF ProcessQueueIfReady
<1>9. ASSUME NEW t \in Turn, OnQuery(t) PROVE ArrivalsTotal'
  <2>1. CASE Startable(guard)
    BY <1>0, <1>2, <1>9, <2>1 DEF OnQuery, queueVars, TurnState
  <2>2. CASE ~Startable(guard)
    <3>1. /\ queue' = queue \union PutBack(turn[t].carries) /\ arrivals' = 2 * arrivals
          /\ turn' = [turn EXCEPT ![t] = Free]
      BY <1>9, <2>2 DEF OnQuery, SetQueue
    <3>2. Distinct(queue', arrivals')
      BY <1>0, <3>1, PutBackBehind
    <3>3. \A u \in Turn : turn'[u].carries \in SUBSET turn[u].carries
      BY <1>0, <3>1 DEF Free
    <3>4. ASSUME NEW u \in Turn PROVE Distinct(turn'[u].carries, arrivals')
      <4>1. turn'[u].carries \in SUBSET turn[u].carries /\ Distinct(turn[u].carries, arrivals)
        BY <1>0, <3>3
      <4>2. arrivals' \in Nat /\ arrivals <= arrivals'
        BY <1>0, <3>1
      <4> QED BY <1>0, <4>1, <4>2, Fewer
    <3> QED BY <3>2, <3>4 DEF ArrivalsTotal
  <2> QED BY <2>1, <2>2
<1>10. ASSUME NEW t \in Turn,
              InputSettled(t) \/ StartAttaching(t) \/ RemoveFromQueue(t) \/ Finish(t)
       PROVE  ArrivalsTotal'
  <2>1. arrivals' = arrivals /\ queue' \in SUBSET queue
    BY <1>10 DEF InputSettled, StartAttaching, RemoveFromQueue, SetQueue, Finish, queueVars
  <2>2. \A u \in Turn : turn'[u].carries \in SUBSET turn[u].carries
    <3>1. CASE InputSettled(t) \/ Finish(t)
      BY <1>0, <3>1 DEF InputSettled, Finish, Free
    <3>2. CASE StartAttaching(t)
      BY <1>0, <3>2 DEF StartAttaching, TurnState
    <3>3. CASE RemoveFromQueue(t)
      BY <1>0, <3>3 DEF RemoveFromQueue, TurnState
    <3> QED BY <1>10, <3>1, <3>2, <3>3
  <2> QED BY <1>2, <2>1, <2>2
<1>11. CASE OnCancel
  <2>1. \A u \in Turn : turn'[u].carries = turn[u].carries
    BY <1>0, <1>11 DEF OnCancel, TurnState
  <2> QED BY <1>2, <1>11, <2>1 DEF OnCancel, queueVars
<1>12. CASE PopAllEditable \/ ClearCommandQueue \/ SubagentDrains
  <2>1. queue' \in SUBSET queue
    BY <1>12, TakenFromQueue DEF PopAllEditable, ClearCommandQueue, SubagentDrains, SetQueue
  <2> QED BY <1>2, <1>12, <2>1 DEF PopAllEditable, ClearCommandQueue, SubagentDrains
<1>13. CASE ToggleLocalJSX \/ UNCHANGED vars
  BY <1>2, <1>13 DEF ToggleLocalJSX, vars, queueVars
<1>14. ASSUME NEW t \in Turn, NEW c \in Plan, LeavePlanMode(t, c) PROVE ArrivalsTotal'
  <2>1. \A u \in Turn : turn'[u].carries = turn[u].carries
    BY <1>0, <1>14 DEF LeavePlanMode, TurnState
  <2> QED BY <1>2, <1>14, <2>1 DEF LeavePlanMode, queueVars
<1>15. CASE ProcessInitialMessage \/ ClearInitialMessage
  BY <1>2, <1>15 DEF ProcessInitialMessage, ClearInitialMessage, queueVars
<1>16. CASE QueryInitialMessage
  <2>1. ASSUME NEW t \in Turn, QueryWithoutInput(t, awaiting), UNCHANGED queueVars
        PROVE  ArrivalsTotal'
    BY <1>0, <1>2, <2>1 DEF QueryWithoutInput, queueVars, Free
  <2>2. ASSUME NEW c, Enqueue(c), UNCHANGED turn PROVE ArrivalsTotal'
    BY <1>3, <2>2
  <2> QED BY <1>16, <2>1, <2>2 DEF QueryInitialMessage
<1> QED BY <1>5, <1>6, <1>7, <1>8, <1>9, <1>10, <1>11, <1>12, <1>13, <1>14, <1>15, <1>16
        DEF Next

-----------------------------------------------------------------------------
\* Among commands that arrived one after the other one is the first.
LEMMA FirstArrival ==
  ASSUME NEW n \in Nat, NEW s, Distinct(s, n), s # {}
  PROVE  \E e \in s : \A f \in s \ {e} : e.at < f.at
<1> DEFINE R == OpToRel(<, Nat)
           ats == {e.at : e \in s}
<1>1. ats \subseteq Nat /\ ats # {}
  BY DEF Distinct
<1>2. PICK x \in ats : \A y \in ats : <<y, x>> \notin R
  BY <1>1, NatLessThanWellFounded, WFMin
<1>3. \A y \in ats : ~(y < x)
  BY <1>1, <1>2 DEF OpToRel
<1>4. PICK e \in s : e.at = x
  OBVIOUS
<1>5. \A f \in s \ {e} : f.at # x /\ f.at \in ats
  BY <1>4 DEF Distinct
<1> HIDE DEF ats, R
<1>6. ASSUME NEW f \in s \ {e} PROVE x < f.at
  <2>1. f.at \in Nat /\ x \in Nat
    BY <1>1, <1>2, <1>5
  <2>2. f.at # x /\ ~(f.at < x)
    BY <1>3, <1>5
  <2> QED BY <2>1, <2>2
<1> QED BY <1>4, <1>6

\* While commands wait for the main thread exactly one is next: peek and dequeue
\* agree, and the queue's effect finds what to take.
NextIsUnique ==
  MainThread(queue) # {} =>
    \E e \in queue : IsNext(queue, e) /\ \A f \in queue : IsNext(queue, f) => f = e

LEMMA NextExists ==
  ASSUME arrivals \in Nat, Distinct(queue, arrivals)
  PROVE  NextIsUnique
<1> SUFFICES ASSUME MainThread(queue) # {}
             PROVE  \E e \in queue : /\ IsNext(queue, e)
                                     /\ \A f \in queue : IsNext(queue, f) => f = e
  BY DEF NextIsUnique
<1> DEFINE main == MainThread(queue)
           early == {e \in main : Priority(e) = 1}
<1>1. main \subseteq queue /\ \A e \in main : Priority(e) \in {1, 2} /\ e.at \in Nat
  BY DEF MainThread, Priority, Distinct
<1>2. \A s \in SUBSET main : Distinct(s, arrivals)
  BY <1>1 DEF Distinct
<1> HIDE DEF main
<1>3. \E e \in main : \A o \in main \ {e} :
        Priority(e) < Priority(o) \/ (Priority(e) = Priority(o) /\ e.at < o.at)
  <2>1. CASE early # {}
    <3>1. PICK e \in early : \A f \in early \ {e} : e.at < f.at
      BY <1>2, <2>1, FirstArrival
    <3> QED BY <1>1, <3>1
  <2>2. CASE early = {}
    <3>1. PICK e \in main : \A f \in main \ {e} : e.at < f.at
      BY <1>2, FirstArrival DEF main
    <3>2. \A f \in main : Priority(f) = 2
      BY <1>1, <2>2
    <3> QED BY <3>1, <3>2
  <2> QED BY <2>1, <2>2
<1>4. PICK e \in main : \A o \in main \ {e} :
        Priority(e) < Priority(o) \/ (Priority(e) = Priority(o) /\ e.at < o.at)
  BY <1>3
<1>5. IsNext(queue, e)
  BY <1>4 DEF IsNext, main
<1>6. ASSUME NEW f \in queue, IsNext(queue, f), f # e PROVE FALSE
  <2>1. f \in main /\ (Priority(f) < Priority(e) \/ (Priority(f) = Priority(e) /\ f.at < e.at))
    BY <1>6 DEF IsNext, main
  <2>2. Priority(e) < Priority(f) \/ (Priority(e) = Priority(f) /\ e.at < f.at)
    BY <1>4, <1>6, <2>1
  <2>3. Priority(e) \in {1, 2} /\ Priority(f) \in {1, 2} /\ e.at \in Nat /\ f.at \in Nat
    BY <1>1, <2>1
  <2> QED BY <2>1, <2>2, <2>3
<1> QED BY <1>1, <1>5, <1>6

-----------------------------------------------------------------------------
\* Commands wait for the main thread only while the queue's effect is due, a turn
\* or its preparation is in progress, or a dialog is open: a command is never left
\* in the queue with nothing to wake the effect.
NoWakeupMissed ==
  MainThread(queue) # {} => EffectDue \/ IsActive(guard) \/ jsx

\* Inductive: an effect that ran while it could have served found nothing to serve,
\* and whatever has come since has set changed.
NothingSeenLeft ==
  ~changed /\ seen = [active |-> FALSE, jsx |-> FALSE] => MainThread(queue) = {}

LEMMA StepOnEffect ==
  ASSUME PromptInv, NothingSeenLeft, [Next]_vars
  PROVE  NothingSeenLeft'
<1>1. ASSUME NEW entries, SetQueue(entries), seen' = seen PROVE NothingSeenLeft'
  <2>1. queue' = entries /\ (changed' <=> (changed \/ entries # queue))
    BY <1>1, Zenon DEF SetQueue
  <2>2. ~changed' => ~changed /\ queue' = queue
    BY <2>1, Zenon
  <2> QED BY <1>1, <2>2, Zenon DEF NothingSeenLeft
<1>2. ASSUME UNCHANGED <<queue, changed, seen>> PROVE NothingSeenLeft'
  BY <1>2 DEF NothingSeenLeft
<1>3. ASSUME NEW c \in Command, Submit(c) PROVE NothingSeenLeft'
  BY <1>1, <1>2, <1>3, Zenon DEF Submit, Enqueue
<1>4. ASSUME NEW c \in Command, EnqueuePendingNotification(c) PROVE NothingSeenLeft'
  BY <1>1, <1>4, Zenon DEF EnqueuePendingNotification, Enqueue
<1>5. ASSUME NEW c \in Command, HandleIncomingPrompt(c) PROVE NothingSeenLeft'
  BY <1>2, <1>5 DEF HandleIncomingPrompt, queueVars
<1>6. CASE ProcessQueueIfReady
  <2>1. CASE ~IsActive(guard) /\ ~jsx /\ MainThread(queue) # {}
    <3>1. changed' = TRUE
      BY <1>6, <2>1 DEF ProcessQueueIfReady
    <3> QED BY <3>1 DEF NothingSeenLeft
  <2>2. CASE ~(~IsActive(guard) /\ ~jsx /\ MainThread(queue) # {})
    <3>1. queue' = queue
      BY <1>6, <2>2 DEF ProcessQueueIfReady
    <3>2. seen' = [active |-> IsActive(guard), jsx |-> jsx]
      BY <1>6 DEF ProcessQueueIfReady
    <3>3. seen' = [active |-> FALSE, jsx |-> FALSE] => IsActive(guard) = FALSE /\ jsx = FALSE
      <4> HAVE seen' = [active |-> FALSE, jsx |-> FALSE]
      <4>1. [active |-> IsActive(guard), jsx |-> jsx].active = FALSE
        BY <3>2
      <4>2. [active |-> IsActive(guard), jsx |-> jsx].jsx = FALSE
        BY <3>2
      <4> QED BY <4>1, <4>2, Zenon
    <3> QED BY <2>2, <3>1, <3>3 DEF NothingSeenLeft
  <2> QED BY <2>1, <2>2
<1>7. ASSUME NEW t \in Turn, OnQuery(t) PROVE NothingSeenLeft'
  BY <1>1, <1>2, <1>7, Zenon DEF OnQuery, queueVars
<1>8. ASSUME NEW t \in Turn, InputSettled(t) \/ StartAttaching(t) \/ Finish(t)
      PROVE  NothingSeenLeft'
  BY <1>2, <1>8 DEF InputSettled, StartAttaching, Finish, queueVars
<1>9. ASSUME NEW t \in Turn, RemoveFromQueue(t) PROVE NothingSeenLeft'
  BY <1>1, <1>9, Zenon DEF RemoveFromQueue
<1>10. CASE PopAllEditable \/ ClearCommandQueue \/ SubagentDrains
  BY <1>1, <1>10, Zenon DEF PopAllEditable, ClearCommandQueue, SubagentDrains
<1>11. CASE OnCancel \/ ToggleLocalJSX \/ UNCHANGED vars
  BY <1>2, <1>11 DEF OnCancel, ToggleLocalJSX, vars, queueVars
<1>12. CASE \/ \E t \in Turn, c \in Plan : LeavePlanMode(t, c)
            \/ ProcessInitialMessage \/ ClearInitialMessage
  BY <1>2, <1>12 DEF LeavePlanMode, ProcessInitialMessage, ClearInitialMessage, queueVars
<1>13. CASE QueryInitialMessage
  <2>1. CASE UNCHANGED queueVars
    BY <1>2, <1>13, <2>1 DEF QueryInitialMessage, queueVars
  <2>2. ASSUME NEW c, Enqueue(c) PROVE NothingSeenLeft'
    BY <1>1, <1>13, <2>2, Zenon DEF QueryInitialMessage, Enqueue
  <2> QED BY <1>13, <2>1, <2>2, Zenon DEF QueryInitialMessage
<1> QED BY <1>3, <1>4, <1>5, <1>6, <1>7, <1>8, <1>9, <1>10, <1>11, <1>12, <1>13 DEF Next

-----------------------------------------------------------------------------
\* Queries that overlap after cancels have numbers of their own, none above the
\* guard's: the guard has at most one owner, and the finally block of a cancelled
\* query cannot end its successor.
GenerationsApart ==
  /\ \A t \in Turn : Querying(t) => turn[t].generation \in 1 .. guard.generation
  /\ \A t, u \in Turn :
       Querying(t) /\ Querying(u) /\ turn[t].generation = turn[u].generation => t = u

LEMMA StepOnGenerations ==
  ASSUME PromptInv, GenerationsApart, [Next]_vars
  PROVE  GenerationsApart'
<1>0. /\ turn \in [Turn -> TurnState] /\ guard \in Guard /\ guard.generation \in Nat
      /\ controller \in Turn \union {0}
  BY DEF PromptInv, TypeOK, Guard
\* No query starts, and the guard's number does not go back.
<1>1. ASSUME guard'.generation \in Nat, guard.generation <= guard'.generation,
             \A t \in Turn : Querying(t)' =>
               Querying(t) /\ turn'[t].generation = turn[t].generation
      PROVE  GenerationsApart'
  <2>1. ASSUME NEW t \in Turn, Querying(t)'
        PROVE  turn'[t].generation \in 1 .. guard'.generation
    BY <1>0, <1>1, <2>1 DEF GenerationsApart
  <2>2. ASSUME NEW t \in Turn, NEW u \in Turn, Querying(t)', Querying(u)',
               turn'[t].generation = turn'[u].generation
        PROVE  t = u
    BY <1>1, <2>2 DEF GenerationsApart
  <2> QED BY <2>1, <2>2 DEF GenerationsApart
\* One query starts, with the guard's next number.
<1>2. ASSUME NEW t \in Turn, guard' = Started(guard),
             turn'[t].generation = guard.generation + 1,
             \A u \in Turn \ {t} : turn'[u] = turn[u]
      PROVE  GenerationsApart'
  <2>1. guard'.generation = guard.generation + 1
    BY <1>2 DEF Started
  <2>2. ASSUME NEW u \in Turn \ {t}, Querying(u)'
        PROVE  turn'[u].generation \in 1 .. guard.generation
    BY <1>2, <2>2 DEF GenerationsApart, Querying
  <2>3. ASSUME NEW u \in Turn, Querying(u)'
        PROVE  turn'[u].generation \in 1 .. guard'.generation
    BY <1>0, <1>2, <2>1, <2>2, <2>3
  <2>4. ASSUME NEW u \in Turn \ {t}, NEW v \in Turn \ {t}, Querying(u)', Querying(v)',
               turn'[u].generation = turn'[v].generation
        PROVE  u = v
    BY <1>2, <2>4 DEF GenerationsApart, Querying
  <2>5. ASSUME NEW u \in Turn \ {t}, Querying(u)'
        PROVE  turn'[u].generation # turn'[t].generation
    BY <1>0, <1>2, <2>2, <2>5
  <2>6. ASSUME NEW u \in Turn, NEW v \in Turn, Querying(u)', Querying(v)',
               turn'[u].generation = turn'[v].generation
        PROVE  u = v
    BY <2>4, <2>5, <2>6
  <2> QED BY <2>3, <2>6 DEF GenerationsApart
<1>3. ASSUME NEW g \in Guard, NEW n \in Nat
      PROVE  /\ Reserve(g).generation = g.generation
             /\ CancelReservation(g).generation = g.generation
             /\ EndedBy(g, n).generation = g.generation
             /\ CancelReservation(EndedBy(g, n)).generation = g.generation
             /\ ForceEnded(g).generation \in {g.generation, g.generation + 1}
  BY DEF Guard, Reserve, CancelReservation, EndedBy, ForceEnded
<1>4. ASSUME NEW t, NEW s, ExecuteUserInput(t, s) PROVE GenerationsApart'
  <2>1. guard'.generation = guard.generation
    BY <1>0, <1>3, <1>4 DEF ExecuteUserInput
  <2>2. \A u \in Turn : Querying(u)' => turn'[u] = turn[u]
    BY <1>0, <1>4 DEF ExecuteUserInput, Free, Querying
  <2>3. \A u \in Turn : Querying(u)' => Querying(u) /\ turn'[u].generation = turn[u].generation
    BY <2>2 DEF Querying
  <2> QED BY <1>0, <1>1, <2>1, <2>3
<1>5. ASSUME guard' = guard,
             \A u \in Turn : turn'[u] = turn[u] \/ turn'[u].phase \notin {"running", "attaching"}
                             \/ (Querying(u) /\ turn'[u].generation = turn[u].generation)
      PROVE  GenerationsApart'
  <2>1. \A u \in Turn : Querying(u)' => Querying(u) /\ turn'[u].generation = turn[u].generation
    BY <1>5 DEF Querying
  <2> QED BY <1>0, <1>1, <1>5, <2>1
<1>6. ASSUME NEW c \in Command, Submit(c) PROVE GenerationsApart'
  <2>1. CASE guard' = guard /\ (turn' = turn \/ (/\ controller # 0
                 /\ turn' = [turn EXCEPT ![controller].aborted = TRUE]))
    <3>1. \A u \in Turn : turn'[u].phase = turn[u].phase /\ turn'[u].generation = turn[u].generation
      BY <1>0, <2>1 DEF TurnState
    <3>2. \A u \in Turn : Querying(u)' => Querying(u) /\ turn'[u].generation = turn[u].generation
      BY <3>1 DEF Querying
    <3> QED BY <1>0, <1>1, <2>1, <3>2
  <2> QED BY <1>4, <1>6, <2>1 DEF Submit
<1>7. ASSUME NEW c \in Command, EnqueuePendingNotification(c) PROVE GenerationsApart'
  BY <1>5, <1>7 DEF EnqueuePendingNotification
<1>8. ASSUME NEW t \in Turn, NEW s, QueryWithoutInput(t, s) PROVE GenerationsApart'
  <2>1. turn'[t].generation = guard.generation + 1 /\ \A u \in Turn \ {t} : turn'[u] = turn[u]
    BY <1>0, <1>8 DEF QueryWithoutInput, Free
  <2> QED BY <1>2, <1>8, <2>1 DEF QueryWithoutInput
<1>9. CASE ProcessQueueIfReady
  <2>1. CASE UNCHANGED <<guard, turn>>
    BY <1>5, <2>1
  <2> QED BY <1>4, <1>9, <2>1 DEF ProcessQueueIfReady
<1>10. ASSUME NEW t \in Turn, OnQuery(t) PROVE GenerationsApart'
  <2>1. CASE Startable(guard)
    <3>1. turn'[t].generation = guard.generation + 1 /\ \A u \in Turn \ {t} : turn'[u] = turn[u]
      BY <1>0, <1>10, <2>1 DEF OnQuery, TurnState
    <3> QED BY <1>2, <1>10, <2>1, <3>1 DEF OnQuery
  <2>2. CASE ~Startable(guard)
    BY <1>0, <1>5, <1>10, <2>2 DEF OnQuery, Free
  <2> QED BY <2>1, <2>2
<1>11. ASSUME NEW t \in Turn, InputSettled(t) \/ Finish(t) PROVE GenerationsApart'
  <2>1. guard'.generation = guard.generation
    <3>1. turn[t].generation \in Nat
      BY <1>0 DEF TurnState
    <3> QED BY <1>0, <1>3, <1>11, <3>1 DEF InputSettled, Finish
  <2>2. turn'[t].phase = "free" /\ \A u \in Turn \ {t} : turn'[u] = turn[u]
    BY <1>0, <1>11 DEF InputSettled, Finish, Free
  <2>3. \A u \in Turn : Querying(u)' => Querying(u) /\ turn'[u].generation = turn[u].generation
    BY <2>2 DEF Querying
  <2> QED BY <1>0, <1>1, <2>1, <2>3
<1>12. ASSUME NEW t \in Turn, StartAttaching(t) \/ RemoveFromQueue(t) PROVE GenerationsApart'
  <2>1. guard' = guard /\ Querying(t)
    BY <1>12 DEF StartAttaching, RemoveFromQueue, Querying
  <2>2. turn'[t].generation = turn[t].generation /\ \A u \in Turn \ {t} : turn'[u] = turn[u]
    <3>1. CASE StartAttaching(t)
      BY <1>0, <3>1 DEF StartAttaching, TurnState
    <3>2. CASE RemoveFromQueue(t)
      BY <1>0, <3>2 DEF RemoveFromQueue, TurnState
    <3> QED BY <1>12, <3>1, <3>2
  <2> QED BY <1>5, <2>1, <2>2
<1>13. CASE OnCancel
  <2>1. \A u \in Turn : turn'[u].phase = turn[u].phase /\ turn'[u].generation = turn[u].generation
    BY <1>0, <1>13 DEF OnCancel, TurnState
  <2>2. \A u \in Turn : Querying(u)' => Querying(u) /\ turn'[u].generation = turn[u].generation
    BY <2>1 DEF Querying
  <2>3. guard'.generation \in {guard.generation, guard.generation + 1}
    BY <1>0, <1>3, <1>13 DEF OnCancel
  <2> QED BY <1>0, <1>1, <2>2, <2>3
<1>14. CASE PopAllEditable \/ ClearCommandQueue \/ SubagentDrains \/ ToggleLocalJSX \/ UNCHANGED vars
  BY <1>5, <1>14 DEF PopAllEditable, ClearCommandQueue, SubagentDrains, ToggleLocalJSX, vars
<1>15. ASSUME NEW c \in Command, HandleIncomingPrompt(c) PROVE GenerationsApart'
  BY <1>8, <1>15 DEF HandleIncomingPrompt
<1>16. ASSUME NEW t \in Turn, NEW c \in Plan, LeavePlanMode(t, c) PROVE GenerationsApart'
  <2>1. \A u \in Turn : turn'[u].phase = turn[u].phase /\ turn'[u].generation = turn[u].generation
    BY <1>0, <1>16 DEF LeavePlanMode, TurnState
  <2>2. \A u \in Turn : Querying(u)' => Querying(u) /\ turn'[u].generation = turn[u].generation
    BY <2>1 DEF Querying
  <2> QED BY <1>0, <1>1, <1>16, <2>2 DEF LeavePlanMode
<1>17. CASE ProcessInitialMessage \/ ClearInitialMessage
  BY <1>5, <1>17 DEF ProcessInitialMessage, ClearInitialMessage
<1>18. CASE QueryInitialMessage
  <2>1. CASE UNCHANGED <<guard, turn>>
    BY <1>5, <2>1
  <2> QED BY <1>8, <1>18, <2>1 DEF QueryInitialMessage
<1> QED BY <1>6, <1>7, <1>9, <1>10, <1>11, <1>12, <1>13, <1>14, <1>15, <1>16, <1>17, <1>18
        DEF Next

-----------------------------------------------------------------------------
\* What the effect hands out: the first command of the highest priority and what
\* is batched with it, exactly what leaves the queue, and only while the guard is
\* idle and no dialog is open.  A notification never goes before waiting input.
UserFirst ==
  \A t \in Turn :
    turn[t].phase # "input" /\ turn'[t].phase = "input" /\ queue' # queue =>
      /\ ~IsActive(guard) /\ ~jsx
      /\ turn'[t].carries = queue \ queue'
      /\ \E e \in turn'[t].carries : \A f \in MainThread(queue) :
           Priority(e) < Priority(f) \/ (Priority(e) = Priority(f) /\ e.at <= f.at)

LEMMA StepTakesFirst ==
  ASSUME PromptInv, [Next]_vars
  PROVE  UserFirst
<1>0. /\ turn \in [Turn -> TurnState] /\ queue \subseteq Entry /\ controller \in Turn \union {0}
  BY DEF PromptInv, TypeOK
<1> SUFFICES ASSUME NEW t \in Turn, turn[t].phase # "input", turn'[t].phase = "input",
                    queue' # queue
             PROVE  /\ ~IsActive(guard) /\ ~jsx
                    /\ turn'[t].carries = queue \ queue'
                    /\ \E e \in turn'[t].carries : \A f \in MainThread(queue) :
                         \/ Priority(e) < Priority(f)
                         \/ Priority(e) = Priority(f) /\ e.at <= f.at
  BY DEF UserFirst
<1>1. CASE ProcessQueueIfReady
  <2>1. PICK u \in Turn, e \in queue :
          /\ IsNext(queue, e) /\ ExecuteUserInput(u, Batch(queue, e))
          /\ queue' = queue \ Batch(queue, e)
    BY <1>1 DEF ProcessQueueIfReady
  <2>2. ~IsActive(guard) /\ ~jsx
    BY <1>1 DEF ProcessQueueIfReady
  <2>3. u = t /\ turn'[t].carries = Batch(queue, e)
    BY <1>0, <2>1 DEF ExecuteUserInput, Free
  <2>4. e \in Batch(queue, e) /\ Batch(queue, e) \subseteq queue
    BY <2>1, TakenFromQueue
  <2>5. \A f \in MainThread(queue) :
          Priority(e) < Priority(f) \/ (Priority(e) = Priority(f) /\ e.at <= f.at)
    <3> TAKE f \in MainThread(queue)
    <3>1. e.at \in Nat /\ f.at \in Nat
      BY <1>0, <2>1 DEF Entry, MainThread
    <3>2. CASE f = e
      BY <3>1, <3>2
    <3>3. CASE f # e
      <4>1. Priority(e) < Priority(f) \/ (Priority(e) = Priority(f) /\ e.at < f.at)
        BY <2>1, <3>3 DEF IsNext
      <4> QED BY <3>1, <4>1
    <3> QED BY <3>2, <3>3
  <2> QED BY <2>1, <2>2, <2>3, <2>4, <2>5
<1>2. ASSUME NEW c \in Command, Submit(c) PROVE FALSE
  <2>1. CASE turn' = turn \/ (controller # 0 /\ turn' = [turn EXCEPT ![controller].aborted = TRUE])
    BY <1>0, <2>1 DEF TurnState
  <2> QED BY <1>2, <2>1 DEF Submit
<1>3. ASSUME NEW u \in Turn, OnQuery(u) \/ InputSettled(u) \/ StartAttaching(u)
                             \/ RemoveFromQueue(u) \/ Finish(u)
      PROVE  FALSE
  <2>1. turn'[u].phase # "input" /\ \A v \in Turn \ {u} : turn'[v] = turn[v]
    BY <1>0, <1>3 DEF OnQuery, InputSettled, StartAttaching, RemoveFromQueue, Finish, Free, TurnState
  <2> QED BY <2>1
<1>4. CASE OnCancel
  BY <1>0, <1>4 DEF OnCancel, TurnState
<1>5. ASSUME NEW c \in Command, EnqueuePendingNotification(c) \/ HandleIncomingPrompt(c)
      PROVE  FALSE
  BY <1>0, <1>5 DEF EnqueuePendingNotification, HandleIncomingPrompt, QueryWithoutInput, Free,
                    queueVars
<1>6. CASE PopAllEditable \/ ClearCommandQueue \/ SubagentDrains \/ ToggleLocalJSX \/ UNCHANGED vars
  BY <1>6 DEF PopAllEditable, ClearCommandQueue, SubagentDrains, ToggleLocalJSX, vars
<1>7. ASSUME NEW u \in Turn, NEW c \in Plan, LeavePlanMode(u, c) PROVE FALSE
  BY <1>0, <1>7 DEF LeavePlanMode, TurnState
<1>8. CASE ProcessInitialMessage \/ ClearInitialMessage \/ QueryInitialMessage
  BY <1>0, <1>8 DEF ProcessInitialMessage, ClearInitialMessage, QueryInitialMessage,
                    QueryWithoutInput, Free, queueVars
<1> QED BY <1>1, <1>2, <1>3, <1>4, <1>5, <1>6, <1>7, <1>8 DEF Next

-----------------------------------------------------------------------------
\* The invariants together.
OrderInv == PromptInv /\ ArrivalsTotal /\ NothingSeenLeft /\ GenerationsApart

LEMMA InitOrder == Init => ArrivalsTotal /\ NothingSeenLeft /\ GenerationsApart
  BY FreeTurn DEF Init, ArrivalsTotal, Distinct, NothingSeenLeft, MainThread,
                  GenerationsApart, Querying

LEMMA OrderInvHolds == Spec => []OrderInv
<1>1. Init => OrderInv
  BY InitEstablishes, InitOrder DEF OrderInv
<1>2. OrderInv /\ [Next]_vars => OrderInv'
  BY NextPreserves, StepOnArrivals, StepOnEffect, StepOnGenerations DEF OrderInv
<1> QED BY <1>1, <1>2, PTL DEF Spec

\* The model's numbers are the array's order (messageQueueManager.ts), through
\* arrivals, batches, drains and onQuery's put-backs.
THEOREM ArrivalsTotalCorrect == Spec => []ArrivalsTotal
<1>1. OrderInv => ArrivalsTotal
  BY DEF OrderInv
<1> QED BY <1>1, OrderInvHolds, PTL

\* What peek finds dequeue takes: processQueueIfReady's target is unique, and the
\* effect is never stuck on a queue that has commands for it.
THEOREM NextCorrect == Spec => []NextIsUnique
<1>1. OrderInv => NextIsUnique
  BY NextExists DEF OrderInv, PromptInv, TypeOK, ArrivalsTotal
<1> QED BY <1>1, OrderInvHolds, PTL

\* The safety half of QueueServed: React's effect has been woken for everything
\* that waits (useQueueProcessor.ts).
THEOREM WakeupCorrect == Spec => []NoWakeupMissed
<1>1. OrderInv => NoWakeupMissed
  <2> SUFFICES ASSUME OrderInv, ~EffectDue, ~IsActive(guard), ~jsx
               PROVE  MainThread(queue) = {}
    BY DEF NoWakeupMissed
  <2>1. IsActive(guard) = FALSE /\ jsx = FALSE
    BY DEF OrderInv, PromptInv, TypeOK, IsActive
  <2>2. ~changed /\ seen = [active |-> IsActive(guard), jsx |-> jsx]
    BY Zenon DEF EffectDue
  <2>3. seen = [active |-> FALSE, jsx |-> FALSE]
    BY <2>1, <2>2, Zenon
  <2> QED BY <2>2, <2>3, Zenon DEF OrderInv, NothingSeenLeft
<1> QED BY <1>1, OrderInvHolds, PTL

\* QueryGuard.ts keeps overlapping queries apart by their generations, however
\* often the user cancels and submits again.
THEOREM GenerationsCorrect == Spec => []GenerationsApart
<1>1. OrderInv => GenerationsApart
  BY DEF OrderInv
<1> QED BY <1>1, OrderInvHolds, PTL

\* messageQueueManager.ts: "so user input is never starved by
\* system messages".
THEOREM UserFirstCorrect == Spec => [][UserFirst]_vars
<1>1. OrderInv /\ [Next]_vars => UserFirst \/ UNCHANGED vars
  BY StepTakesFirst DEF OrderInv
<1> QED BY <1>1, OrderInvHolds, PTL DEF Spec
=============================================================================
