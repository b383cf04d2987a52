---------------------------- MODULE CommandQueue ----------------------------
(***************************************************************************)
(* The process-wide queue of commands                                      *)
(* (src/restored-src/src/utils/messageQueueManager.ts), as operators on    *)
(* its value.  The array only ever grows at its end and loses elements, so *)
(* it is a set of entries, each with the number of its arrival: that       *)
(* number is the array's order and the object's identity at once.          *)
(***************************************************************************)
EXTENDS Naturals

CONSTANTS
  Command,       \* everything that may be put into the queue
  Slash,         \* the user's commands that start with "/"
  Bash,          \* the user's commands in bash mode
  Notification,  \* results of background tasks (mode "task-notification")
  Meta,          \* prompts of the program itself: scheduled tasks, ticks
  ForAgent       \* the notifications addressed to a subagent

ASSUME KindsAssumption ==
  /\ Slash \union Bash \union Notification \union Meta \subseteq Command
  /\ Slash \intersect (Bash \union Notification) = {}
  /\ Bash \intersect (Notification \union Meta) = {}
  /\ Notification \intersect Meta = {}
  /\ ForAgent \subseteq Notification

(* `again`: put back by onQuery as plain text, { value, mode: "prompt" }.  *)
Entry == [id : Command, at : Nat, again : BOOLEAN]

Mode(e) ==
  CASE e.again -> "prompt"
    [] e.id \in Bash -> "bash"
    [] e.id \in Notification -> "task-notification"
    [] OTHER -> "prompt"

IsSlash(e) == ~e.again /\ e.id \in Slash
IsMeta(e) == ~e.again /\ e.id \in Meta
IsMainThread(e) == e.again \/ e.id \notin ForAgent

(* enqueue's default is "next", enqueuePendingNotification's is "later".   *)
Priority(e) ==
  IF ~e.again /\ e.id \in Notification \union Meta THEN 2 ELSE 1

IsEditable(e) == Mode(e) # "task-notification" /\ ~IsMeta(e)

MainThread(queue) == {e \in queue : IsMainThread(e)}

(* peek(isMainThread) and dequeue(isMainThread): the first command of the  *)
(* highest priority.                                                       *)
IsNext(queue, e) ==
  /\ e \in MainThread(queue)
  /\ \A o \in MainThread(queue) \ {e} :
       \/ Priority(e) < Priority(o)
       \/ Priority(e) = Priority(o) /\ e.at < o.at

(* What processQueueIfReady hands to executeInput when e is next: slash and *)
(* bash commands alone, the others with all commands of their mode.        *)
Batch(queue, e) ==
  IF IsSlash(e) \/ Mode(e) = "bash"
    THEN {e}
    ELSE {o \in MainThread(queue) : ~IsSlash(o) /\ Mode(o) = Mode(e)}

(* getCommandsByMaxPriority and the main thread's filter on it, for the    *)
(* drain in the middle of a turn; only the modes of an attachment.         *)
Attachable(queue, maxPriority) ==
  {e \in MainThread(queue) :
     /\ Priority(e) <= maxPriority
     /\ ~IsSlash(e)
     /\ Mode(e) # "bash"}

Editable(queue) == {e \in queue : IsEditable(e)}

Ids(entries) == {e.id : e \in entries}
=============================================================================
