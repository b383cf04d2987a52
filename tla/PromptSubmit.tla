---------------------------- MODULE PromptSubmit ----------------------------
(***************************************************************************)
(* From the prompt to the turn: what is typed, what background tasks and   *)
(* schedules report and what teammates send becomes turns of the terminal  *)
(* program, one at a time (handlePromptSubmit.ts, useQueueProcessor.ts,    *)
(* REPL.tsx, useCancelRequest.ts and the drain of the queue in query.ts,   *)
(* under src/restored-src/src/).                                           *)
(*                                                                         *)
(* A turn is one call of executeUserInput, or of onQuery by an incoming    *)
(* prompt or an accepted plan.  It is "free" (there is none), works on its *)
(* "input", is "running" its query, or is "attaching" queued commands.     *)
(***************************************************************************)
EXTENDS QueryGuard, CommandQueue

CONSTANTS
  Turn,       \* calls that may be in progress together: numbers
  Incoming,   \* the prompts of teammates and of task lists
  Plan        \* the plans whose acceptance clears the conversation

ASSUME TurnAssumption == Turn \subseteq Nat \ {0}
ASSUME IncomingAssumption ==
  /\ Incoming \subseteq Command \ (Notification \union Meta)
  /\ Plan \subseteq Command \ (Slash \union Bash \union Notification \union Meta)
  /\ Incoming \intersect Plan = {}

VARIABLES
  guard,       \* the QueryGuard
  queue,       \* the entries of the command queue
  arrivals,    \* the number of the latest arrival
  turn,        \* each turn: its phase and what its closure holds
  controller,  \* the turn whose AbortController the screen holds; 0: none
  seen,        \* what the queue processor's effect last ran with
  changed,     \* the queue was changed since then
  jsx,         \* a dialog of a local command is open
  initialMessage,  \* the accepted plan that is to start a conversation, if any
  clearing,        \* the one for which processInitialMessage clears the old one
  awaiting,        \* the one for which it awaits the session's hooks
  given,       \* history: the commands submitted, reported or sent
  said,        \* history: those that became messages of the conversation
  twice,       \* history: those that did so more than once
  settled,     \* history: those handled or dropped without becoming one
  cancelled,   \* history: the user has cancelled a turn
  raced        \* history: a plan's query was made while the guard was active

queueVars == <<queue, arrivals, changed>>
planVars == <<initialMessage, clearing, awaiting, raced>>
historyVars == <<given, said, twice, settled, cancelled>>
vars == <<guard, queueVars, turn, controller, seen, jsx, planVars, historyVars>>

(* What can be typed; the same text may be typed, or sent by a teammate.   *)
User == Command \ (Notification \union Meta \union Plan)

TurnState ==
  [phase : {"free", "input", "running", "attaching"},
   carries : SUBSET Entry, snapshot : SUBSET Entry,
   generation : Nat, aborted : BOOLEAN, incoming : BOOLEAN]

Free == [phase |-> "free", carries |-> {}, snapshot |-> {},
         generation |-> 0, aborted |-> FALSE, incoming |-> FALSE]

Init ==
  /\ guard = IdleGuard
  /\ queue = {} /\ arrivals = 0 /\ changed = FALSE
  /\ turn = [t \in Turn |-> Free]
  /\ controller = 0
  /\ seen = [active |-> FALSE, jsx |-> FALSE]
  /\ jsx = FALSE
  /\ given = {} /\ said = {} /\ twice = {} /\ settled = {}
  /\ initialMessage = {} /\ clearing = {} /\ awaiting = {}
  /\ cancelled = FALSE /\ raced = FALSE

Busy(t) == turn[t].phase # "free"
Querying(t) == turn[t].phase \in {"running", "attaching"}

(* The first turn that is not in progress: which one is of no account.     *)
IsNew(t) == t \in Turn /\ ~Busy(t) /\ \A u \in Turn : u < t => Busy(u)

(* Accepted plans on their way to onQuery.                                 *)
Pending == initialMessage \union clearing \union awaiting

Arrived(c) == [id |-> c, at |-> arrivals + 1, again |-> FALSE]

(* The queue changes and its subscribers are notified.                     *)
SetQueue(entries) == queue' = entries /\ changed' = (changed \/ entries # queue)

Enqueue(c) == SetQueue(queue \union {Arrived(c)}) /\ arrivals' = arrivals + 1

Say(commands) ==
  /\ said' = said \union commands
  /\ twice' = twice \union (said \intersect commands)

-----------------------------------------------------------------------------
ExecuteUserInput_KeepsController(t, entries) == \* faulty variant
  /\ turn' = [turn EXCEPT ![t] =
       [Free EXCEPT !.phase = "input", !.carries = entries]]
  /\ guard' = Reserve(guard)
  /\ UNCHANGED controller

(* executeUserInput up to its first await: a fresh controller, and a       *)
(* reservation that does nothing unless the guard is idle.                 *)
ExecuteUserInput(t, entries) ==
  /\ turn' = [turn EXCEPT ![t] =
       [Free EXCEPT !.phase = "input", !.carries = entries]]
  /\ controller' = t
  /\ guard' = Reserve(guard)

(* The user submits: at once when nothing is going on, otherwise into the  *)
(* queue, aborting the turn if all its executing tools allow that.         *)
Submit(c) ==
  /\ c \in User \ given
  /\ given' = given \union {c}
  /\ \/ /\ IsActive(guard)
        /\ Enqueue(c)
        /\ \/ UNCHANGED turn
           \/ /\ controller # 0 /\ turn[controller].phase = "running"
              /\ turn' = [turn EXCEPT ![controller].aborted = TRUE]
        /\ UNCHANGED <<guard, controller>>
     \/ /\ ~IsActive(guard)
        /\ arrivals' = arrivals + 1
        /\ \E t \in Turn : IsNew(t) /\ ExecuteUserInput(t, {Arrived(c)})
        /\ UNCHANGED <<queue, changed>>
  /\ UNCHANGED <<seen, jsx, planVars, said, twice, settled, cancelled>>

(* A background task reports, or a scheduled task is due.                  *)
EnqueuePendingNotification(c) ==
  /\ c \in (Notification \union Meta) \ given
  /\ given' = given \union {c}
  /\ Enqueue(c)
  /\ UNCHANGED <<guard, turn, controller, seen, jsx, planVars, said, twice, settled,
                 cancelled>>

(* onQuery takes the guard for messages that did not come by way of        *)
(* executeUserInput.                                                       *)
QueryWithoutInput(t, commands) ==
  /\ turn' = [turn EXCEPT ![t] =
       [Free EXCEPT !.phase = "running", !.incoming = TRUE,
                    !.generation = guard.generation + 1]]
  /\ guard' = Started(guard)
  /\ Say(commands)

(* handleIncomingPrompt: refused, to be offered again, while a turn is in  *)
(* progress or the user's input waits; otherwise onQuery without input.    *)
HandleIncomingPrompt(c) ==
  /\ c \in Incoming \ given
  /\ ~IsActive(guard)
  /\ \A e \in queue : Mode(e) \notin {"prompt", "bash"}
  /\ given' = given \union {c}
  /\ \E t \in Turn :
       /\ IsNew(t)
       /\ QueryWithoutInput(t, {c})
       /\ controller' = t
  /\ UNCHANGED <<queueVars, seen, jsx, planVars, settled, cancelled>>

-----------------------------------------------------------------------------
(* The effect of useQueueProcessor: it runs when what it depends on has    *)
(* changed, and hands the next batch to executeUserInput.                  *)
EffectDue_NotByQueue == \* faulty variant
  seen # [active |-> IsActive(guard), jsx |-> jsx]

EffectDue == changed \/ seen # [active |-> IsActive(guard), jsx |-> jsx]

ProcessQueueIfReady ==
  /\ EffectDue
  /\ seen' = [active |-> IsActive(guard), jsx |-> jsx]
  /\ IF ~IsActive(guard) /\ ~jsx /\ MainThread(queue) # {}
       THEN \E t \in Turn, e \in queue :
              /\ IsNew(t)
              /\ IsNext(queue, e)
              /\ ExecuteUserInput(t, Batch(queue, e))
              /\ queue' = queue \ Batch(queue, e)
              /\ changed' = TRUE
       ELSE /\ changed' = FALSE
            /\ UNCHANGED <<guard, queue, turn, controller>>
  /\ UNCHANGED <<arrivals, jsx, planVars, historyVars>>

-----------------------------------------------------------------------------
(* What onQuery puts back when a query already runs: the visible messages, *)
(* as plain text behind everything in the queue, in their order.           *)
PutBack(entries) ==
  {[id |-> e.id, at |-> arrivals + e.at, again |-> TRUE] :
     e \in {o \in entries : ~IsMeta(o)}}

(* processUserInput is through and made messages: onQuery.  The guard is   *)
(* taken unless a query runs; in that case the finally block finds no      *)
(* reservation to release.                                                 *)
OnQuery(t) ==
  /\ turn[t].phase = "input"
  /\ IF Startable(guard)
       THEN /\ guard' = Started(guard)
            /\ turn' = [turn EXCEPT ![t].phase = "running", ![t].carries = {},
                                    ![t].generation = guard.generation + 1]
            /\ Say(Ids(turn[t].carries))
            /\ UNCHANGED <<queueVars, settled>>
       ELSE /\ SetQueue(queue \union PutBack(turn[t].carries))
            /\ arrivals' = 2 * arrivals
            /\ turn' = [turn EXCEPT ![t] = Free]
            /\ settled' = settled \union
                 Ids({e \in turn[t].carries : IsMeta(e)})
            /\ UNCHANGED <<guard, said, twice>>
  /\ jsx' = FALSE
  /\ UNCHANGED <<controller, seen, planVars, given, cancelled>>

InputSettled_KeepsReservation(t) == \* faulty variant
  /\ turn[t].phase = "input"
  /\ turn' = [turn EXCEPT ![t] = Free]
  /\ settled' = settled \union Ids(turn[t].carries)
  /\ UNCHANGED <<guard, queueVars, controller, seen, jsx, planVars, given, said, twice,
                 cancelled>>

(* processUserInput made no message (a local slash command) or threw: the  *)
(* reservation is released and the command is over.  The screen's          *)
(* controller is dropped in the first case only.                           *)
InputSettled(t) ==
  /\ turn[t].phase = "input"
  /\ \/ /\ \A e \in turn[t].carries : IsSlash(e)
        /\ controller' = 0
        /\ jsx' = FALSE
     \/ UNCHANGED <<controller, jsx>>
  /\ guard' = CancelReservation(guard)
  /\ turn' = [turn EXCEPT ![t] = Free]
  /\ settled' = settled \union Ids(turn[t].carries)
  /\ UNCHANGED <<queueVars, seen, planVars, given, said, twice, cancelled>>

(* Between two calls of the model a turn takes waiting commands along: it  *)
(* looks at the queue, awaits their attachments, and removes what it saw.  *)
(* With a Sleep among the tools the later ones are taken too.              *)
StartAttaching(t) ==
  /\ turn[t].phase = "running" /\ ~turn[t].aborted
  /\ \E maxPriority \in 1..2 :
       /\ Attachable(queue, maxPriority) # {}
       /\ turn' = [turn EXCEPT ![t].phase = "attaching",
                     ![t].snapshot = Attachable(queue, maxPriority)]
  /\ UNCHANGED <<guard, queueVars, controller, seen, jsx, planVars, historyVars>>

RemoveFromQueue_Everything(t) == \* faulty variant
  /\ turn[t].phase = "attaching"
  /\ Say(Ids(turn[t].snapshot))
  /\ SetQueue({})
  /\ turn' = [turn EXCEPT ![t].phase = "running", ![t].snapshot = {}]
  /\ UNCHANGED <<guard, arrivals, controller, seen, jsx, planVars, given, settled,
                 cancelled>>

RemoveFromQueue_OnlyEditable(t) == \* faulty variant
  /\ turn[t].phase = "attaching"
  /\ Say(Ids(turn[t].snapshot))
  /\ SetQueue(queue \ Editable(turn[t].snapshot))
  /\ turn' = [turn EXCEPT ![t].phase = "running", ![t].snapshot = {}]
  /\ UNCHANGED <<guard, arrivals, controller, seen, jsx, planVars, given, settled,
                 cancelled>>

RemoveFromQueue(t) ==
  /\ turn[t].phase = "attaching"
  /\ Say(Ids(turn[t].snapshot))
  /\ SetQueue(queue \ turn[t].snapshot)
  /\ turn' = [turn EXCEPT ![t].phase = "running", ![t].snapshot = {}]
  /\ UNCHANGED <<guard, arrivals, controller, seen, jsx, planVars, given, settled,
                 cancelled>>

(* The query is over.  onQuery's finally ends it if it still owns the      *)
(* guard, and drops the screen's controller then; executeUserInput's       *)
(* finally releases a reservation.  A turn of input that was answered      *)
(* without the model (shouldQuery is false) drops whatever controller the  *)
(* screen has.                                                             *)
Finish(t) ==
  /\ turn[t].phase = "running"
  /\ LET ended == EndedBy(guard, turn[t].generation)
     IN guard' = IF turn[t].incoming THEN ended ELSE CancelReservation(ended)
  /\ \E shouldQuery \in {TRUE, turn[t].incoming} :
       controller' = IF ~shouldQuery \/ Owns(guard, turn[t].generation)
                       THEN 0 ELSE controller
  /\ turn' = [turn EXCEPT ![t] = Free]
  /\ UNCHANGED <<queueVars, seen, jsx, planVars, historyVars>>

-----------------------------------------------------------------------------
(* Escape or ctrl+c while the screen's controller is not yet aborted.      *)
OnCancel ==
  /\ ~jsx
  /\ controller # 0 /\ ~turn[controller].aborted
  /\ guard' = ForceEnded(guard)
  /\ turn' = IF Busy(controller)
               THEN [turn EXCEPT ![controller].aborted = TRUE]
               ELSE turn
  /\ controller' = 0
  /\ cancelled' = TRUE
  /\ UNCHANGED <<queueVars, seen, jsx, planVars, given, said, twice, settled>>

(* Up, or Escape with nothing to cancel: queued input returns to the       *)
(* prompt.                                                                 *)
PopAllEditable ==
  /\ Editable(queue) # {}
  /\ SetQueue(queue \ Editable(queue))
  /\ settled' = settled \union Ids(Editable(queue))
  /\ UNCHANGED <<guard, arrivals, turn, controller, seen, jsx, planVars, given, said,
                 twice, cancelled>>

(* The background agents are killed: whatever is queued is dropped.        *)
ClearCommandQueue ==
  /\ queue # {}
  /\ SetQueue({})
  /\ settled' = settled \union Ids(queue)
  /\ UNCHANGED <<guard, arrivals, turn, controller, seen, jsx, planVars, given, said,
                 twice, cancelled>>

(* A subagent's query takes what is addressed to it.                       *)
SubagentDrains ==
  /\ queue # MainThread(queue)
  /\ SetQueue(MainThread(queue))
  /\ settled' = settled \union Ids(queue \ MainThread(queue))
  /\ UNCHANGED <<guard, arrivals, turn, controller, seen, jsx, planVars, given, said,
                 twice, cancelled>>

(* An immediate local command opens its dialog during a turn, or a slash   *)
(* command opens one from within its turn; the user closes it.             *)
ToggleLocalJSX ==
  /\ jsx \/ IsActive(guard)
  /\ jsx' = ~jsx
  /\ UNCHANGED <<guard, queueVars, turn, controller, seen, planVars, historyVars>>

-----------------------------------------------------------------------------
(* The plan that turn t has made is accepted, with "clear context": it     *)
(* waits in the app's state to start a conversation of its own, in place   *)
(* of one that waits there, and the turn is aborted.                       *)
LeavePlanMode(t, c) ==
  /\ turn[t].phase = "running" /\ ~turn[t].aborted
  /\ c \in Plan \ given
  /\ given' = given \union {c}
  /\ initialMessage' = {c}
  /\ settled' = settled \union (initialMessage \ clearing)
  /\ turn' = [turn EXCEPT ![t].aborted = TRUE]
  /\ UNCHANGED <<guard, queueVars, controller, seen, jsx, clearing, awaiting, raced,
                 said, twice, cancelled>>

(* The effect that waits for the plan sees no turn in progress, and        *)
(* processInitialMessage begins.  It does not look at the guard again.     *)
(* (The queue's effect runs after this one in a commit of both; here it    *)
(* may go first, too.)                                                     *)
ProcessInitialMessage ==
  /\ initialMessage # {} /\ clearing = {} /\ awaiting = {}
  /\ ~IsActive(guard)
  /\ clearing' = initialMessage
  /\ UNCHANGED <<guard, queueVars, turn, controller, seen, jsx, initialMessage,
                 awaiting, raced, historyVars>>

(* The conversation is cleared, and with the plan that was taken one that  *)
(* has been accepted since.                                                *)
ClearInitialMessage ==
  /\ clearing # {}
  /\ awaiting' = clearing /\ clearing' = {} /\ initialMessage' = {}
  /\ settled' = settled \union (initialMessage \ clearing)
  /\ UNCHANGED <<guard, queueVars, turn, controller, seen, jsx, raced, given, said,
                 twice, cancelled>>

(* The hooks are through: a fresh controller, whoever has the guard, and   *)
(* onQuery.  It takes a reservation over; it is refused while a query runs *)
(* and the plan goes into the queue: the controller then is nobody's.      *)
QueryInitialMessage ==
  /\ awaiting # {}
  /\ awaiting' = {}
  /\ raced' = (raced \/ IsActive(guard))
  /\ \E t \in Turn :
       /\ IsNew(t)
       /\ controller' = t
       /\ \/ /\ Startable(guard)
             /\ QueryWithoutInput(t, awaiting)
             /\ UNCHANGED queueVars
          \/ /\ ~Startable(guard)
             /\ \E c \in awaiting : Enqueue(c)
             /\ UNCHANGED <<guard, turn, said, twice>>
  /\ UNCHANGED <<seen, jsx, initialMessage, clearing, given, settled, cancelled>>

Next ==
  \/ \E c \in Command :
       \/ Submit(c)
       \/ EnqueuePendingNotification(c)
       \/ HandleIncomingPrompt(c)
  \/ \E t \in Turn :
       \/ OnQuery(t) \/ InputSettled(t)
       \/ StartAttaching(t) \/ RemoveFromQueue(t) \/ Finish(t)
       \/ \E c \in Plan : LeavePlanMode(t, c)
  \/ ProcessQueueIfReady
  \/ ProcessInitialMessage \/ ClearInitialMessage \/ QueryInitialMessage
  \/ OnCancel \/ PopAllEditable \/ ClearCommandQueue
  \/ SubagentDrains \/ ToggleLocalJSX

(* Input is processed, attachments are made and queries end (each has its  *)
(* own timeouts); React runs a due effect.                                 *)
Fairness ==
  /\ WF_vars(ProcessQueueIfReady)
  /\ \A t \in Turn :
       /\ WF_vars(OnQuery(t) \/ InputSettled(t))
       /\ WF_vars(RemoveFromQueue(t))
       /\ WF_vars(Finish(t))

Spec == Init /\ [][Next]_vars
FairSpec == Spec /\ Fairness

-----------------------------------------------------------------------------
PlanSlot == {{}} \union {{c} : c \in Plan}

TypeOK ==
  /\ guard \in Guard
  /\ queue \subseteq Entry /\ arrivals \in Nat /\ changed \in BOOLEAN
  /\ turn \in [Turn -> TurnState]
  /\ controller \in Turn \union {0}
  /\ seen \in [active : BOOLEAN, jsx : BOOLEAN]
  /\ jsx \in BOOLEAN
  /\ initialMessage \in PlanSlot /\ clearing \in PlanSlot /\ awaiting \in PlanSlot
  /\ given \subseteq Command /\ said \subseteq given /\ settled \subseteq given
  /\ twice \subseteq said
  /\ cancelled \in BOOLEAN /\ raced \in BOOLEAN

(* The guard is never left active by nobody: a reservation has a call that *)
(* is still working on its input, a running guard has a turn of the        *)
(* guard's generation.  Otherwise the prompt would queue input for ever.   *)
GuardHeld ==
  /\ guard.status = "dispatching" => \E t \in Turn : turn[t].phase = "input"
  /\ guard.status = "running" =>
       \E t \in Turn : /\ turn[t].phase \in {"running", "attaching"}
                       /\ turn[t].generation = guard.generation

(* As long as the user cancels nothing there is one query at a time, and   *)
(* one turn at a time, "no concurrent executeUserInput call", unless an    *)
(* accepted plan came to onQuery while the guard was active: between the   *)
(* test and the call processInitialMessage awaits, and a command that was  *)
(* queued or typed in between gets its turn.                               *)
OneTurnAtATime ==
  ~cancelled =>
    /\ \A t, u \in Turn : Querying(t) /\ Querying(u) => t = u
    /\ ~raced => \A t, u \in Turn : Busy(t) /\ Busy(u) => t = u

(* In the same circumstances Escape reaches the turn in progress: the      *)
(* screen's controller is that turn's.                                     *)
EscapeReachesTheTurn ==
  ~cancelled /\ ~raced => \A t \in Turn : Busy(t) => controller = t

(* A command that was given is in the queue, in the hands of a turn or of  *)
(* processInitialMessage, in the conversation, or settled: collisions of   *)
(* turns, batches, drains, put-backs and plans lose none on the way.       *)
NothingLost ==
  \A c \in given :
    \/ c \in Ids(queue)
    \/ \E t \in Turn : c \in Ids(turn[t].carries)
    \/ c \in Pending \union said \union settled

(* As long as the user cancels nothing no command is said twice, although  *)
(* the drain removes what it said only after an await.                     *)
SaidOnce == ~cancelled => twice = {}

(* A running query is ended by itself or by a cancel, which starts a new   *)
(* generation: a turn that was cancelled does not, when it comes to its    *)
(* end at last, end its successor.                                         *)
RunEndsByOwner ==
  [][guard.status = "running" /\ guard'.status # "running" =>
       \/ guard'.generation > guard.generation
       \/ \E t \in Turn : /\ turn[t].generation = guard.generation
                          /\ Busy(t) /\ turn'[t] = Free]_vars

(* A queued command for the main thread does not stay in the queue, unless *)
(* a dialog is open: no change the effect needs to see is missed.          *)
QueueServed ==
  \A c \in Command :
    c \in Ids(MainThread(queue)) ~> (c \notin Ids(MainThread(queue)) \/ jsx)
=============================================================================
