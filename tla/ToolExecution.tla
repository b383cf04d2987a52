---------------------------- MODULE ToolExecution ----------------------------
(***************************************************************************)
(* restored-src/src/services/tools/StreamingToolExecutor.ts, as query.ts   *)
(* uses it: tools start while the model's response still streams in, safe  *)
(* ones next to each other, the others alone.                              *)
(*                                                                         *)
(* One action is the code between two awaits or yields.  processQueue      *)
(* awaits after each tool it starts, so several walks through the queue    *)
(* can be under way at once: one for each addTool and for each tool that   *)
(* ended, which nobody awaits, and the one of getRemainingResults.  Nothing*)
(* before the place of a walk is queued, so two walks at one place are one.*)
(***************************************************************************)
EXTENDS Naturals, Sequences

CONSTANTS
    Kind,            \* what the model may ask for
    ConcurrencySafe, \* isConcurrencySafe holds for the input
    Bash,            \* BASH_TOOL_NAME
    Cancelable,      \* interruptBehavior is "cancel"
    Unknown,         \* findToolByName finds nothing
    MaxTools         \* bound: tool_use blocks in one response

ASSUME KindAssumption ==
    /\ Bash \in SUBSET (Kind \ Unknown)
    /\ Cancelable \in SUBSET Kind
    /\ ConcurrencySafe \in SUBSET Kind
    /\ Unknown \in SUBSET ConcurrencySafe
    /\ MaxTools \in Nat

VARIABLES
    tools,      \* this.tools
    hasErrored,
    aborted,    \* the abort reason of the query's controller, or "no"
    walks,      \* who walks through the queue, and the position where each walk resumes
    pc,         \* what query.ts is at
    scan        \* where getCompletedResults resumes

vars == <<tools, hasErrored, aborted, walks, pc, scan>>

Walk == {"void", "results"} \X (1 .. MaxTools + 1)

AbortResult == {"sibling_error", "user_interrupted", "streaming_fallback"}
Tool == [kind : Kind, status : {"queued", "executing", "completed", "yielded"},
         result : {"none", "own", "error"} \cup AbortResult]

TypeOK ==
    /\ tools \in Seq(Tool)
    /\ Len(tools) <= MaxTools
    /\ hasErrored \in BOOLEAN
    /\ aborted \in {"no", "interrupt", "user"}
    /\ walks \in SUBSET Walk
    /\ pc \in {"streaming", "collecting", "draining", "processing", "emitting",
               "waiting", "returned", "dropped"}
    /\ scan \in 1 .. MaxTools + 1

Init ==
    /\ tools = <<>>
    /\ hasErrored = FALSE
    /\ aborted = "no"
    /\ walks = {}
    /\ pc = "streaming"
    /\ scan = 1

-----------------------------------------------------------------------------
Safe(i) == tools[i].kind \in ConcurrencySafe
Executing == {i \in DOMAIN tools : tools[i].status = "executing"}
Finished == {i \in DOMAIN tools : tools[i].status = "completed"}

(* getAbortReason; discard() is pc = "dropped".                            *)
AbortReason_OfSignal(kind) == \* faulty variant
    IF pc = "dropped" THEN "streaming_fallback"
    ELSE IF hasErrored THEN "sibling_error"
    ELSE IF aborted = "no" THEN "none" ELSE aborted
AbortReason_IgnoresSiblings(kind) == \* faulty variant
    IF pc = "dropped" THEN "streaming_fallback"
    ELSE IF aborted = "user" \/ (aborted = "interrupt" /\ kind \in Cancelable)
         THEN "user_interrupted"
    ELSE "none"
AbortReason(kind) ==
    IF pc = "dropped" THEN "streaming_fallback"
    ELSE IF hasErrored THEN "sibling_error"
    ELSE IF aborted = "user" \/ (aborted = "interrupt" /\ kind \in Cancelable)
         THEN "user_interrupted"
    ELSE "none"

CanExecute_IgnoresOwnKind(ts, i) == \* faulty variant
    \A j \in DOMAIN ts : ts[j].status = "executing" => ts[j].kind \in ConcurrencySafe
CanExecute(ts, i) ==
    \A j \in DOMAIN ts : ts[j].status = "executing" =>
        ts[i].kind \in ConcurrencySafe /\ ts[j].kind \in ConcurrencySafe

(* The walk from position p passes over tool i: it is not queued, or it is *)
(* a safe tool that cannot execute yet.  Any other queued tool is started, *)
(* or ends the walk.                                                       *)
Passes(ts, i) ==
    ts[i].status = "queued" => ~CanExecute(ts, i) /\ ts[i].kind \in ConcurrencySafe

StartsAt_SkipsBusy(ts, p, i) == \* faulty variant
    i \in p .. Len(ts) /\ ts[i].status = "queued" /\ CanExecute(ts, i)
StartsAt(ts, p, i) ==
    /\ i \in p .. Len(ts)
    /\ ts[i].status = "queued"
    /\ CanExecute(ts, i)
    /\ \A j \in p .. i - 1 : Passes(ts, j)

(* executeTool: with a reason to abort, collectResults ends at once with a *)
(* synthetic error, and promise.finally walks the queue again; otherwise   *)
(* the tool's generator has been called.                                   *)
Executed(ts, i) ==
    LET reason == AbortReason(ts[i].kind)
    IN  IF reason = "none"
        THEN [ts EXCEPT ![i].status = "executing"]
        ELSE [ts EXCEPT ![i].status = "completed", ![i].result = reason]

EndedWalk(ts, i) == IF AbortReason(ts[i].kind) = "none" THEN {} ELSE {<<"void", 1>>}

(* processQueue, from position p to its next await or its end.             *)
ProcessQueue(who, ts, p, others) ==
    \/ \E i \in p .. Len(ts) :
          /\ StartsAt(ts, p, i)
          /\ tools' = Executed(ts, i)
          /\ walks' = others \cup {<<who, i + 1>>} \cup EndedWalk(ts, i)
    \/ /\ \A i \in p .. Len(ts) : ~StartsAt(ts, p, i)
       /\ tools' = ts
       /\ walks' = others

ResumeWalk(who, p) ==
    /\ <<who, p>> \in walks
    /\ ProcessQueue(who, tools, p, walks \ {<<who, p>>})
    /\ UNCHANGED <<hasErrored, aborted, pc, scan>>

-----------------------------------------------------------------------------
(* A tool that runs.  Its progress messages are left out: they are handed  *)
(* out at once and change nothing here.  Its end wakes getRemainingResults.*)
Woken == IF pc = "waiting" THEN "draining" ELSE pc

(* collectResults leaves its loop, with the tool's own result or error or  *)
(* with the synthetic one; promise.finally walks the queue again.          *)
Complete_QueueNotWalked(i, result) == \* faulty variant
    /\ tools' = [tools EXCEPT ![i].status = "completed", ![i].result = result]
    /\ pc' = Woken
    /\ UNCHANGED walks
Complete(i, result) ==
    /\ tools' = [tools EXCEPT ![i].status = "completed", ![i].result = result]
    /\ walks' = walks \cup {<<"void", 1>>}
    /\ pc' = Woken

Result(i, outcome) ==
    /\ i \in Executing
    /\ AbortReason(tools[i].kind) = "none"
    /\ Complete(i, outcome)
    /\ hasErrored' = (hasErrored \/ (outcome = "error" /\ tools[i].kind \in Bash))
    /\ UNCHANGED <<aborted, scan>>

(* The next update of a tool that has been cancelled meanwhile is replaced *)
(* by the synthetic error, whatever it is.                                 *)
Cancelled(i) ==
    /\ i \in Executing
    /\ AbortReason(tools[i].kind) # "none"
    /\ Complete(i, AbortReason(tools[i].kind))
    /\ UNCHANGED <<hasErrored, aborted, scan>>

(* A rejected permission dialog aborts the tool's own controller, and from *)
(* there the query's, unless a sibling error has aborted it before.        *)
PermissionRejected(i) ==
    /\ i \in Executing
    /\ ~hasErrored /\ aborted = "no" /\ pc # "dropped"
    /\ aborted' = "user"
    /\ UNCHANGED <<tools, hasErrored, walks, pc, scan>>

-----------------------------------------------------------------------------
(* query.ts while the response streams in.                                 *)
NewTool(kind, status, result) ==
    [kind |-> kind, status |-> status, result |-> result]

AddTool(kind) ==
    LET n == Len(tools) + 1
    IN  /\ pc = "streaming"
        /\ aborted = "no"
        /\ n <= MaxTools
        /\ IF kind \in Unknown
           THEN /\ tools' = Append(tools, NewTool(kind, "completed", "error"))
                /\ UNCHANGED walks
           ELSE ProcessQueue("void", Append(tools, NewTool(kind, "queued", "none")), 1, walks)
        /\ UNCHANGED <<hasErrored, aborted, pc, scan>>

CollectWhileStreaming ==
    /\ pc = "streaming"
    /\ aborted = "no"
    /\ pc' = "collecting"
    /\ UNCHANGED <<tools, hasErrored, aborted, walks, scan>>

StreamEnds ==
    /\ pc = "streaming"
    /\ pc' = "draining"
    /\ UNCHANGED <<tools, hasErrored, aborted, walks, scan>>

\* Streaming fallback: query.ts goes on with a fresh executor.
Discard ==
    /\ pc = "streaming"
    /\ pc' = "dropped"
    /\ UNCHANGED <<tools, hasErrored, aborted, walks, scan>>

Abort(reason) ==
    /\ aborted = "no"
    /\ pc # "returned"
    /\ aborted' = reason
    /\ UNCHANGED <<tools, hasErrored, walks, pc, scan>>

-----------------------------------------------------------------------------
(* getCompletedResults: the next tool with something to hand out, unless a *)
(* tool that executes alone comes first.                                   *)
Holds(i) == i \in Executing /\ ~Safe(i)

HandsOut_AsCompleted(i) == i \in scan .. Len(tools) /\ i \in Finished \* faulty variant
HandsOut(i) ==
    /\ i \in scan .. Len(tools)
    /\ i \in Finished
    /\ \A j \in scan .. i - 1 : j \notin Finished /\ ~Holds(j)

Emit(i) ==
    /\ pc \in {"collecting", "emitting"}
    /\ HandsOut(i)
    /\ tools' = [tools EXCEPT ![i].status = "yielded"]
    /\ scan' = i + 1
    /\ UNCHANGED <<hasErrored, aborted, walks, pc>>

(* getRemainingResults: another round, or wait for an executing tool when  *)
(* there is nothing to hand out.                                           *)
AfterEmitting_WaitsForNone == IF Finished = {} THEN "waiting" ELSE "draining" \* faulty variant
AfterEmitting ==
    IF Executing # {} /\ Finished = {} THEN "waiting" ELSE "draining"

EmitEnds ==
    /\ \A i \in DOMAIN tools : ~HandsOut(i)
    /\ \/ pc = "collecting" /\ pc' = "streaming"
       \/ pc = "emitting" /\ pc' = AfterEmitting
    /\ scan' = 1
    /\ UNCHANGED <<tools, hasErrored, aborted, walks>>

Drain ==
    /\ pc = "draining"
    /\ \E i \in DOMAIN tools : tools[i].status # "yielded"
    /\ ProcessQueue("results", tools, 1, walks)
    /\ pc' = "processing"
    /\ UNCHANGED <<hasErrored, aborted, scan>>

Processed ==
    /\ pc = "processing"
    /\ \A w \in walks : w[1] # "results"
    /\ pc' = "emitting"
    /\ UNCHANGED <<tools, hasErrored, aborted, walks, scan>>

Return ==
    /\ pc = "draining"
    /\ \A i \in DOMAIN tools : tools[i].status = "yielded"
    /\ pc' = "returned"
    /\ UNCHANGED <<tools, hasErrored, aborted, walks, scan>>

-----------------------------------------------------------------------------
Next ==
    \/ \E w \in walks : ResumeWalk(w[1], w[2])
    \/ \E i \in DOMAIN tools :
          \/ \E outcome \in {"own", "error"} : Result(i, outcome)
          \/ Cancelled(i)
          \/ PermissionRejected(i)
          \/ Emit(i)
    \/ \E kind \in Kind : AddTool(kind)
    \/ \E reason \in {"interrupt", "user"} : Abort(reason)
    \/ CollectWhileStreaming \/ StreamEnds \/ Discard
    \/ EmitEnds \/ Drain \/ Processed \/ Return

Spec == Init /\ [][Next]_vars

(* The event loop runs every microtask there is before it serves the next  *)
(* timer, child process or socket; that is when a tool comes to its end.   *)
MicrotasksDone ==
    /\ walks = {}
    /\ pc \in {"streaming", "waiting", "returned", "dropped"}

ToolEnds(i) == i \in DOMAIN tools /\ ((\E outcome \in {"own", "error"} : Result(i, outcome)) \/ Cancelled(i))

\* A tool that executes ends, but only while the event loop is served.  Nothing
\* makes the response end or the user act.
Fairness ==
    /\ \A w \in Walk : WF_vars(ResumeWalk(w[1], w[2]))
    /\ WF_vars(EmitEnds \/ Drain \/ Processed \/ Return \/ \E i \in DOMAIN tools : Emit(i))
    /\ \A i \in 1 .. MaxTools : SF_vars(MicrotasksDone /\ ToolEnds(i))

FairSpec == Spec /\ Fairness

-----------------------------------------------------------------------------
\* "Non-concurrent tools must execute alone (exclusive access)", however many
\* walks through the queue are under way when one ends and another is added.
ExclusiveAccess ==
    \A i, j \in Executing : i # j => Safe(i) /\ Safe(j)

\* Tools start in the order of the response: no walk, however stale the position
\* it resumes at, starts a tool while one before it is queued.
StartedInOrder ==
    \A i, j \in DOMAIN tools :
        i < j /\ tools[i].status = "queued"
            => tools[j].status = "queued" \/ tools[j].kind \in Unknown

\* A tool's answer does not reach the conversation before that of an earlier tool
\* that needed exclusive access, although tools end and start while a scan for
\* completed results is suspended in a yield.  A name that does not exist, which is
\* answered at once, between the two breaks this: the scan passes an exclusive tool
\* that is still queued and does not come back to it.
NotOvertaken ==
    \A i, j \in DOMAIN tools :
        /\ i < j /\ ~Safe(i) /\ tools[j].status = "yielded"
        /\ \A k \in i .. j : tools[k].kind \notin Unknown
        => tools[i].status = "yielded"

BashFailed(i) == tools[i].kind \in Bash /\ tools[i].result = "error"

\* A tool is reported as cancelled for a cause: a Bash tool of this response has
\* itself failed, the turn has been aborted, or the executor has been discarded;
\* and a Bash failure is always there when siblings are being cancelled.  They are
\* indeed cancelled: no second Bash command comes to a failure of its own, also
\* when it was executing or half-way started at the first.
CancelledForCause ==
    /\ hasErrored <=> \E i \in DOMAIN tools : BashFailed(i)
    /\ \A i, j \in DOMAIN tools : BashFailed(i) /\ BashFailed(j) => i = j
    /\ \A i \in DOMAIN tools :
           /\ tools[i].result = "sibling_error" => hasErrored
           /\ tools[i].result = "user_interrupted" => aborted # "no"
           /\ tools[i].result = "streaming_fallback" => pc = "dropped"

Queued(i) == i \in DOMAIN tools /\ tools[i].status = "queued"
AllKnown == \A i \in DOMAIN tools : tools[i].kind \notin Unknown

\* A queued tool starts, or is answered with a synthetic error, even if the
\* response never ends and nobody calls getRemainingResults.
QueuedToolStarts ==
    \A i \in 1 .. MaxTools : Queued(i) ~> ~Queued(i) \/ ~AllKnown

\* getRemainingResults returns with an answer for every tool, whatever is
\* aborted or fails, when the model has asked for tools that exist.
RemainingResultsReturn ==
    (pc = "draining" /\ AllKnown) ~> (pc = "returned")

\* "Wait for remaining tools and yield their results as they complete": the same
\* for any response.
ResultsAlwaysReturn == (pc = "draining") ~> (pc = "returned")
=============================================================================
