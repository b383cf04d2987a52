------------------------- MODULE ToolExecutionProofs -------------------------
(***************************************************************************)
(* Theorems about ToolExecution for any kinds of tools and any length of a *)
(* response.  Every action changes the status of one tool at most, so the  *)
(* lemmas speak of a queue ts and the queue us that one Update makes of it.*)
(* What carries the order is WalksPast: a walk has left no queued tool     *)
(* behind, however long ago it was suspended.                              *)
(***************************************************************************)
EXTENDS ToolExecution, TLAPS, WellFoundedInduction

Exclusive(ts) ==
    \A i, j \in DOMAIN ts :
        i # j /\ ts[i].status = "executing" /\ ts[j].status = "executing"
            => ts[i].kind \in ConcurrencySafe /\ ts[j].kind \in ConcurrencySafe

Ordered(ts) ==
    \A i, j \in DOMAIN ts :
        i < j /\ ts[i].status = "queued" => ts[j].status = "queued" \/ ts[j].kind \in Unknown

EmittedInOrder(ts) ==
    \A i, j \in DOMAIN ts :
        /\ i < j /\ ts[i].kind \notin ConcurrencySafe /\ ts[j].status = "yielded"
        /\ \A k \in i .. j : ts[k].kind \notin Unknown
        => ts[i].status = "yielded"

\* An exclusive tool a scan has passed without its answer lies before a name that
\* does not exist, which the scan has handed out.
ScanPasses(ts, at) ==
    \A i \in DOMAIN ts :
        i < at /\ ts[i].kind \notin ConcurrencySafe /\ ts[i].status # "yielded"
            => \E k \in DOMAIN ts : i < k /\ k < at /\ ts[k].kind \in Unknown

NoResultYet(ts) ==
    \A i \in DOMAIN ts : ts[i].status \in {"queued", "executing"} => ts[i].result = "none"

WalksPast(ts, ws) ==
    \A w \in ws : /\ w[2] <= Len(ts) + 1
                  /\ \A i \in DOMAIN ts : i < w[2] => ts[i].status # "queued"

Caused(ts, errored, ab, at) ==
    /\ errored <=> \E i \in DOMAIN ts : ts[i].kind \in Bash /\ ts[i].result = "error"
    /\ \A i, j \in DOMAIN ts :
           /\ ts[i].kind \in Bash /\ ts[i].result = "error"
           /\ ts[j].kind \in Bash /\ ts[j].result = "error"
           => i = j
    /\ \A i \in DOMAIN ts : /\ ts[i].result = "sibling_error" => errored
                            /\ ts[i].result = "user_interrupted" => ab # "no"
                            /\ ts[i].result = "streaming_fallback" => at = "dropped"

QueueInv(ts) ==
    /\ ts \in Seq(Tool)
    /\ Exclusive(ts)
    /\ Ordered(ts)
    /\ EmittedInOrder(ts)
    /\ NoResultYet(ts)

ToolsInv ==
    /\ TypeOK
    /\ scan <= Len(tools) + 1
    /\ QueueInv(tools)
    /\ WalksPast(tools, walks)
    /\ ScanPasses(tools, scan)
    /\ Caused(tools, hasErrored, aborted, pc)

-----------------------------------------------------------------------------
\* us is ts with another status and result of tool i.
Update(ts, us, i, status, result) ==
    /\ us \in Seq(Tool)
    /\ Len(us) = Len(ts)
    /\ \A j \in 1 .. Len(ts) : j # i => us[j] = ts[j]
    /\ us[i].kind = ts[i].kind
    /\ us[i].status = status
    /\ us[i].result = result

Status == {"queued", "executing", "completed", "yielded"}
Outcome == {"none", "own", "error"} \cup AbortResult

LEMMA ExceptUpdates ==
    ASSUME NEW ts \in Seq(Tool), NEW i \in DOMAIN ts, NEW status \in Status, NEW result \in Outcome
    PROVE  /\ Update(ts, [ts EXCEPT ![i].status = status, ![i].result = result], i, status, result)
           /\ Update(ts, [ts EXCEPT ![i].status = status], i, status, ts[i].result)
<1>1. ts[i] \in Tool
  OBVIOUS
<1>2. /\ [ts[i] EXCEPT !.status = status] \in Tool
      /\ [ts[i] EXCEPT !.status = status, !.result = result] \in Tool
  BY <1>1 DEF Tool, Status, Outcome
<1> DEFINE us == [ts EXCEPT ![i].status = status, ![i].result = result]
           vs == [ts EXCEPT ![i].status = status]
<1>3. us \in Seq(Tool) /\ Len(us) = Len(ts) /\ us[i] = [ts[i] EXCEPT !.status = status, !.result = result]
      /\ \A j \in 1 .. Len(ts) : j # i => us[j] = ts[j]
  BY <1>1, <1>2
<1>4. vs \in Seq(Tool) /\ Len(vs) = Len(ts) /\ vs[i] = [ts[i] EXCEPT !.status = status]
      /\ \A j \in 1 .. Len(ts) : j # i => vs[j] = ts[j]
  BY <1>1, <1>2
<1>5. us[i].kind = ts[i].kind /\ us[i].status = status /\ us[i].result = result
  BY <1>1, <1>3 DEF Tool
<1>6. vs[i].kind = ts[i].kind /\ vs[i].status = status /\ vs[i].result = ts[i].result
  BY <1>1, <1>4 DEF Tool
<1> QED BY <1>3, <1>4, <1>5, <1>6 DEF Update

\* A tool starts, or ends one way or another: what may happen to the queue, and
\* what of it survives in the new one.
Moves(ts, us, i, status, result) ==
    /\ QueueInv(ts)
    /\ i \in DOMAIN ts
    /\ Update(ts, us, i, status, result)
    /\ status \in {"executing", "completed"}
    /\ ts[i].status \in {"queued", "executing"}
    /\ ts[i].status = "queued" => \A a \in DOMAIN ts : a < i => ts[a].status # "queued"
    /\ status = "executing" => CanExecute(ts, i) /\ result = "none"

Keeps(ts, us) ==
    /\ QueueInv(us)
    /\ DOMAIN us = DOMAIN ts
    /\ Len(us) = Len(ts)
    /\ \A a \in DOMAIN ts : /\ us[a].kind = ts[a].kind
                            /\ ts[a].status # "queued" => us[a].status # "queued"
                            /\ us[a].status = "yielded" <=> ts[a].status = "yielded"

LEMMA MovesKeep ==
    ASSUME NEW ts, NEW us, NEW i, NEW status, NEW result, Moves(ts, us, i, status, result)
    PROVE  Keeps(ts, us) /\ us[i].status # "queued"
<1> USE DEF Moves, Update
<1>1. ts \in Seq(Tool) /\ DOMAIN ts = 1 .. Len(ts) /\ DOMAIN us = 1 .. Len(ts) /\ us \in Seq(Tool)
  BY DEF QueueInv
<1>2. \A a \in DOMAIN ts : us[a].kind = ts[a].kind /\ (a # i => us[a] = ts[a])
  BY <1>1
<1>3. \A a \in DOMAIN ts : /\ ts[a].status # "queued" => us[a].status # "queued"
                           /\ us[a].status = "yielded" <=> ts[a].status = "yielded"
                           /\ us[i].status # "queued"
  BY <1>1, <1>2
<1>4. Exclusive(us)
  BY <1>1, <1>2 DEF Exclusive, QueueInv, CanExecute
<1>5. Ordered(us)
  BY <1>1, <1>2 DEF Ordered, QueueInv
<1>6. EmittedInOrder(us)
  BY <1>1, <1>2, <1>3 DEF EmittedInOrder, QueueInv
<1>7. NoResultYet(us)
  BY <1>1, <1>2 DEF NoResultYet, QueueInv
<1> QED BY <1>1, <1>2, <1>3, <1>4, <1>5, <1>6, <1>7 DEF QueueInv, Keeps

LEMMA WalksAndScanPreserved ==
    ASSUME NEW ts, NEW us, NEW ws, NEW at, Keeps(ts, us)
    PROVE  /\ WalksPast(ts, ws) => WalksPast(us, ws)
           /\ ScanPasses(ts, at) => ScanPasses(us, at)
<1>1. WalksPast(ts, ws) => WalksPast(us, ws)
  BY DEF WalksPast, Keeps
<1>2. ScanPasses(ts, at) => ScanPasses(us, at)
  BY DEF ScanPasses, Keeps
<1> QED BY <1>1, <1>2

\* The tool a walk starts has no queued tool before it: the walk has passed those
\* it could not start only if an exclusive tool executes, and then it starts none.
LEMMA StartsTheFirst ==
    ASSUME NEW ts, QueueInv(ts), NEW p \in Nat \ {0}, NEW i, StartsAt(ts, p, i),
           \A a \in DOMAIN ts : a < p => ts[a].status # "queued"
    PROVE  /\ i \in DOMAIN ts
           /\ ts[i].status = "queued"
           /\ CanExecute(ts, i)
           /\ \A a \in DOMAIN ts : a < i => ts[a].status # "queued"
<1>1. ts \in Seq(Tool) /\ DOMAIN ts = 1 .. Len(ts) /\ i \in 1 .. Len(ts)
  BY DEF QueueInv, StartsAt
<1>2. ASSUME NEW a \in DOMAIN ts, a < i, ts[a].status = "queued" PROVE FALSE
  <2>1. a \in p .. i - 1
    BY <1>1, <1>2
  <2>2. ~CanExecute(ts, a) /\ ts[a].kind \in ConcurrencySafe
    BY <1>2, <2>1 DEF StartsAt, Passes
  <2> QED BY <1>1, <2>2 DEF StartsAt, CanExecute
<1> QED BY <1>1, <1>2 DEF StartsAt

LEMMA AbortReasonType ==
    ASSUME NEW kind
    PROVE  /\ AbortReason(kind) \in {"none"} \cup AbortResult
           /\ AbortReason(kind) = "sibling_error" => hasErrored
           /\ AbortReason(kind) = "user_interrupted" => aborted # "no"
           /\ AbortReason(kind) = "streaming_fallback" => pc = "dropped"
           /\ AbortReason(kind) = "none" => ~hasErrored /\ pc # "dropped"
BY DEF AbortReason, AbortResult

\* A tool that is cancelled, or starts, leaves the causes as they are.
LEMMA CauseKept ==
    ASSUME NEW ts, NEW us, NEW i \in DOMAIN ts, NEW status, NEW result, NEW ab, NEW at,
           NEW errored,
           QueueInv(ts), Update(ts, us, i, status, result), DOMAIN us = DOMAIN ts,
           Caused(ts, errored, ab, at),
           ts[i].result # "error" /\ result # "error",
           result = "sibling_error" => errored,
           result = "user_interrupted" => ab # "no",
           result = "streaming_fallback" => at = "dropped"
    PROVE  Caused(us, errored, ab, at)
<1>1. DOMAIN ts = 1 .. Len(ts)
  BY DEF QueueInv
<1>2. \A a \in DOMAIN ts : us[a].kind = ts[a].kind /\ (a # i => us[a].result = ts[a].result)
  BY <1>1 DEF Update
<1>3. us[i].result = result
  BY DEF Update
<1>4. (\E a \in DOMAIN us : us[a].kind \in Bash /\ us[a].result = "error")
        <=> \E a \in DOMAIN ts : ts[a].kind \in Bash /\ ts[a].result = "error"
  BY <1>2, <1>3
<1> QED BY <1>2, <1>3, <1>4 DEF Caused

-----------------------------------------------------------------------------
\* One segment of a walk over ts, which may be longer than tools by a new tool.
LEMMA ProcessQueuePreserves ==
    ASSUME NEW who \in {"void", "results"}, NEW ts, NEW p \in Nat \ {0}, NEW others \in SUBSET Walk,
           ProcessQueue(who, ts, p, others),
           QueueInv(ts), Len(ts) <= MaxTools, scan \in Nat,
           WalksPast(ts, others), ScanPasses(ts, scan), Caused(ts, hasErrored, aborted, pc),
           \A a \in DOMAIN ts : a < p => ts[a].status # "queued"
    PROVE  /\ QueueInv(tools') /\ Len(tools') = Len(ts)
           /\ walks' \in SUBSET Walk
           /\ WalksPast(tools', walks')
           /\ ScanPasses(tools', scan)
           /\ Caused(tools', hasErrored, aborted, pc)
<1>1. ASSUME NEW i, StartsAt(ts, p, i), tools' = Executed(ts, i),
             walks' = others \cup {<<who, i + 1>>} \cup EndedWalk(ts, i)
      PROVE  /\ QueueInv(tools') /\ Len(tools') = Len(ts)
             /\ walks' \in SUBSET Walk
             /\ WalksPast(tools', walks')
             /\ ScanPasses(tools', scan)
             /\ Caused(tools', hasErrored, aborted, pc)
  <2> DEFINE reason == AbortReason(ts[i].kind)
             us == Executed(ts, i)
  <2>1. /\ i \in DOMAIN ts
        /\ ts[i].status = "queued"
        /\ CanExecute(ts, i)
        /\ \A a \in DOMAIN ts : a < i => ts[a].status # "queued"
    BY <1>1, StartsTheFirst
  <2>2. ts \in Seq(Tool) /\ DOMAIN ts = 1 .. Len(ts) /\ i \in 1 .. Len(ts) /\ i \in Nat /\ MaxTools \in Nat
    BY <2>1, KindAssumption DEF QueueInv
  <2>3. ts[i].result = "none"
    BY <2>1 DEF QueueInv, NoResultYet
  <2>4. \E status \in {"executing", "completed"}, result \in Outcome :
           /\ Update(ts, us, i, status, result)
           /\ status = "executing" => result = "none"
           /\ result # "error"
           /\ result = "sibling_error" => hasErrored
           /\ result = "user_interrupted" => aborted # "no"
           /\ result = "streaming_fallback" => pc = "dropped"
    <3>1. CASE reason = "none"
      <4>1. us = [ts EXCEPT ![i].status = "executing"]
        BY <3>1 DEF Executed
      <4>2. Update(ts, us, i, "executing", "none")
        BY <2>2, <2>3, <4>1, ExceptUpdates DEF Status, Outcome
      <4> QED BY <4>2 DEF Outcome
    <3>2. CASE reason # "none"
      <4>1. us = [ts EXCEPT ![i].status = "completed", ![i].result = reason]
        BY <3>2 DEF Executed
      <4>2. reason \in AbortResult /\ reason \in Outcome
        BY <3>2, AbortReasonType DEF Outcome
      <4>3. Update(ts, us, i, "completed", reason)
        <5>1. "completed" \in Status /\ i \in DOMAIN ts
          BY <2>1 DEF Status
        <5> HIDE DEF reason, us
        <5> QED BY <2>2, <4>1, <4>2, <5>1, ExceptUpdates
      <4> QED BY <4>2, <4>3, AbortReasonType DEF AbortResult
    <3> QED BY <3>1, <3>2
  <2>5. PICK status \in {"executing", "completed"}, result \in Outcome :
           /\ Update(ts, us, i, status, result)
           /\ status = "executing" => result = "none"
           /\ result # "error"
           /\ result = "sibling_error" => hasErrored
           /\ result = "user_interrupted" => aborted # "no"
           /\ result = "streaming_fallback" => pc = "dropped"
    BY <2>4
  <2>6. tools' = us
    BY <1>1
  <2> HIDE DEF us
  <2>7. Moves(ts, us, i, status, result)
    BY <2>1, <2>5 DEF Moves
  <2>8. Keeps(ts, us) /\ us[i].status # "queued"
    BY <2>7, MovesKeep
  <2>9. WalksPast(us, others) /\ ScanPasses(us, scan)
    BY <2>8, WalksAndScanPreserved
  <2>10. WalksPast(us, others \cup {<<who, i + 1>>} \cup EndedWalk(ts, i))
    <3>1. i + 1 <= Len(us) + 1
      BY <2>2, <2>8 DEF Keeps
    <3>2. \A a \in DOMAIN us : a < i + 1 => us[a].status # "queued"
      BY <2>1, <2>2, <2>8 DEF Keeps
    <3>3. \A a \in DOMAIN us : ~(a < 1)
      BY <2>2, <2>8 DEF Keeps
    <3>4. 1 <= Len(us) + 1
      BY <2>2, <2>8 DEF Keeps
    <3> QED BY <2>9, <3>1, <3>2, <3>3, <3>4 DEF WalksPast, EndedWalk
  <2>11. Caused(us, hasErrored, aborted, pc)
    BY <2>1, <2>3, <2>5, <2>8, CauseKept DEF Keeps
  <2>12. walks' \in SUBSET Walk
    <3>1. i + 1 \in 1 .. MaxTools + 1 /\ 1 \in 1 .. MaxTools + 1
      BY <2>2
    <3> QED BY <1>1, <3>1 DEF Walk, EndedWalk
  <2> QED BY <1>1, <2>6, <2>8, <2>9, <2>10, <2>11, <2>12 DEF Keeps
<1>2. CASE tools' = ts /\ walks' = others
  BY <1>2
<1> QED BY <1>1, <1>2 DEF ProcessQueue

\* A tool that executes ends with the given result.
LEMMA CompletePreserves ==
    ASSUME ToolsInv, NEW i \in Executing, NEW result \in Outcome \ {"none"}, Complete(i, result)
    PROVE  /\ QueueInv(tools') /\ Len(tools') = Len(tools)
           /\ walks' \in SUBSET Walk
           /\ WalksPast(tools', walks')
           /\ ScanPasses(tools', scan)
           /\ Update(tools, tools', i, "completed", result) /\ DOMAIN tools' = DOMAIN tools
           /\ tools[i].result = "none"
<1>1. tools \in Seq(Tool) /\ DOMAIN tools = 1 .. Len(tools) /\ i \in DOMAIN tools /\ MaxTools \in Nat
      /\ tools[i].status = "executing" /\ scan \in Nat /\ walks \in SUBSET Walk
  BY KindAssumption DEF ToolsInv, TypeOK, Executing
<1>2. tools[i].result = "none"
  BY <1>1 DEF ToolsInv, QueueInv, NoResultYet
<1>3. Update(tools, tools', i, "completed", result)
  BY <1>1, ExceptUpdates DEF Complete, Status
<1>4. Moves(tools, tools', i, "completed", result)
  BY <1>1, <1>3 DEF Moves, ToolsInv
<1>5. Keeps(tools, tools') /\ tools'[i].status # "queued"
  BY <1>4, MovesKeep
<1>6. WalksPast(tools', walks) /\ ScanPasses(tools', scan)
  BY <1>5, WalksAndScanPreserved DEF ToolsInv
<1>7. WalksPast(tools', walks \cup {<<"void", 1>>})
  BY <1>1, <1>5, <1>6 DEF WalksPast, Keeps
<1>8. walks' \in SUBSET Walk
  <2>1. 1 \in 1 .. MaxTools + 1
    BY <1>1
  <2> QED BY <1>1, <2>1 DEF Complete, Walk
<1> QED BY <1>2, <1>3, <1>4, <1>5, <1>6, <1>7, <1>8 DEF Complete, Keeps

\* A new tool at the end of the queue.
LEMMA AppendPreserves ==
    ASSUME ToolsInv, NEW kind \in Kind, NEW status \in {"queued", "completed"}, NEW result \in {"none", "error"},
           status = "queued" => result = "none",
           status = "completed" => kind \in Unknown
    PROVE  LET ts == Append(tools, NewTool(kind, status, result))
           IN  /\ QueueInv(ts) /\ Len(ts) = Len(tools) + 1
               /\ WalksPast(ts, walks)
               /\ ScanPasses(ts, scan)
               /\ Caused(ts, hasErrored, aborted, pc)
<1> DEFINE t == NewTool(kind, status, result)
           n == Len(tools) + 1
           ts == Append(tools, t)
<1>1. tools \in Seq(Tool) /\ DOMAIN tools = 1 .. Len(tools) /\ n \in Nat /\ scan \in Nat /\ scan <= n
  BY DEF ToolsInv, TypeOK
<1>2. t \in Tool /\ t.kind = kind /\ t.status = status /\ t.result = result
  BY DEF NewTool, Tool
<1>3. /\ ts \in Seq(Tool) /\ Len(ts) = n /\ DOMAIN ts = 1 .. n
      /\ \A a \in DOMAIN tools : ts[a] = tools[a]
      /\ ts[n] = t
      /\ \A a \in DOMAIN ts : a \in DOMAIN tools \/ a = n
  BY <1>1, <1>2
<1> HIDE DEF t, ts
<1>4. \A a \in DOMAIN tools : a \in DOMAIN ts /\ a < n
  BY <1>1, <1>3
<1>5. Exclusive(ts)
  BY <1>2, <1>3 DEF Exclusive, ToolsInv, QueueInv
<1>6. Ordered(ts)
  BY <1>1, <1>2, <1>3, <1>4 DEF Ordered, ToolsInv, QueueInv
<1>7. EmittedInOrder(ts)
  <2> SUFFICES ASSUME NEW i \in DOMAIN ts, NEW j \in DOMAIN ts,
                      i < j, ts[i].kind \notin ConcurrencySafe, ts[j].status = "yielded",
                      \A k \in i .. j : ts[k].kind \notin Unknown
               PROVE  ts[i].status = "yielded"
    BY DEF EmittedInOrder
  <2>1. j \in DOMAIN tools /\ i \in DOMAIN tools
    BY <1>1, <1>2, <1>3
  <2>2. \A k \in i .. j : tools[k].kind \notin Unknown
    BY <1>1, <1>3, <2>1
  <2> QED BY <1>3, <2>1, <2>2 DEF ToolsInv, QueueInv, EmittedInOrder
<1>8. NoResultYet(ts)
  BY <1>2, <1>3 DEF NoResultYet, ToolsInv, QueueInv
<1>9. WalksPast(ts, walks)
  <2> SUFFICES ASSUME NEW w \in walks
               PROVE  w[2] <= n + 1 /\ \A a \in DOMAIN ts : a < w[2] => ts[a].status # "queued"
    BY <1>3 DEF WalksPast
  <2>1. w[2] <= n /\ w[2] \in Nat
    BY KindAssumption DEF ToolsInv, WalksPast, TypeOK, Walk
  <2>2. \A a \in DOMAIN tools : a < w[2] => tools[a].status # "queued"
    BY DEF ToolsInv, WalksPast
  <2>3. ~(n < w[2]) /\ w[2] <= n + 1
    BY <1>1, <2>1
  <2> QED BY <1>3, <2>2, <2>3
<1>10. ScanPasses(ts, scan)
  <2>1. \A a \in DOMAIN ts : a < scan => a \in DOMAIN tools
    BY <1>1, <1>3
  <2> QED BY <1>3, <1>4, <2>1 DEF ScanPasses, ToolsInv
<1>11. Caused(ts, hasErrored, aborted, pc)
  <2>1. ~(kind \in Bash /\ result = "error")
    BY KindAssumption
  <2>2. (\E a \in DOMAIN ts : ts[a].kind \in Bash /\ ts[a].result = "error")
          <=> \E a \in DOMAIN tools : tools[a].kind \in Bash /\ tools[a].result = "error"
    BY <1>2, <1>3, <1>4, <2>1
  <2>3. \A a \in DOMAIN ts : ts[a].kind \in Bash /\ ts[a].result = "error" =>
          a \in DOMAIN tools /\ tools[a].kind \in Bash /\ tools[a].result = "error"
    BY <1>2, <1>3, <1>4, <2>1
  <2> QED BY <1>2, <1>3, <2>2, <2>3 DEF Caused, ToolsInv
<1> QED BY <1>3, <1>5, <1>6, <1>7, <1>8, <1>9, <1>10, <1>11 DEF QueueInv, ts, t

-----------------------------------------------------------------------------
LEMMA InitEstablishes == Init => ToolsInv
<1> SUFFICES ASSUME Init PROVE ToolsInv
  OBVIOUS
<1>1. tools = <<>> /\ tools \in Seq(Tool) /\ Len(tools) = 0 /\ DOMAIN tools = {} /\ scan = 1 /\ walks = {}
  BY DEF Init
<1>2. TypeOK
  <2>1. MaxTools \in Nat /\ 1 \in 1 .. MaxTools + 1
    BY KindAssumption
  <2>2. Len(tools) <= MaxTools /\ scan \in 1 .. MaxTools + 1
    BY <1>1, <2>1
  <2>3. walks \in SUBSET Walk /\ hasErrored \in BOOLEAN
    BY <1>1 DEF Init
  <2> QED BY <1>1, <2>2, <2>3 DEF Init, TypeOK
<1>3. QueueInv(tools)
  BY <1>1 DEF QueueInv, Exclusive, Ordered, EmittedInOrder, NoResultYet
<1>4. WalksPast(tools, walks) /\ ScanPasses(tools, scan)
  BY <1>1 DEF WalksPast, ScanPasses
<1>5. Caused(tools, hasErrored, aborted, pc)
  BY <1>1 DEF Init, Caused
<1> QED BY <1>1, <1>2, <1>3, <1>4, <1>5 DEF ToolsInv

\* A scan that hands out tool j has passed exclusive tools without their answer
\* only if they are queued, which no known tool after them can have overtaken.
LEMMA EmitPreserves ==
    ASSUME ToolsInv, NEW j \in DOMAIN tools, Emit(j)
    PROVE  ToolsInv'
<1>1. /\ tools \in Seq(Tool) /\ DOMAIN tools = 1 .. Len(tools) /\ Len(tools) <= MaxTools /\ MaxTools \in Nat
      /\ scan \in Nat /\ j \in scan .. Len(tools) /\ tools[j].status = "completed"
      /\ \A a \in scan .. j - 1 : a \notin Finished /\ ~Holds(a)
  BY KindAssumption DEF ToolsInv, TypeOK, Emit, HandsOut, Finished
<1>2. Update(tools, tools', j, "yielded", tools[j].result)
  <2>1. tools[j].result \in Outcome
    <3>1. tools[j] \in Tool
      BY <1>1
    <3> QED BY <3>1 DEF Tool, Outcome
  <2> QED BY <1>1, <2>1, ExceptUpdates DEF Emit, Status
<1>3. /\ tools' \in Seq(Tool) /\ Len(tools') = Len(tools) /\ DOMAIN tools' = DOMAIN tools
      /\ \A a \in DOMAIN tools : /\ tools'[a].kind = tools[a].kind
                                 /\ tools'[a].result = tools[a].result
                                 /\ a # j => tools'[a] = tools[a]
      /\ tools'[j].status = "yielded"
  BY <1>1, <1>2 DEF Update
<1>4. \A a \in DOMAIN tools : scan <= a /\ a < j =>
         tools[a].status \in {"queued", "yielded"} \/ tools[a].kind \in ConcurrencySafe
  <2> SUFFICES ASSUME NEW a \in DOMAIN tools, scan <= a, a < j, tools[a].kind \notin ConcurrencySafe
               PROVE  tools[a].status \in {"queued", "yielded"}
    OBVIOUS
  <2>1. a \in scan .. j - 1 /\ tools[a] \in Tool
    BY <1>1
  <2>2. a \notin Finished /\ a \notin Executing
    BY <1>1, <2>1 DEF Holds, Safe
  <2> QED BY <2>1, <2>2 DEF Finished, Executing, Tool
<1>5. \A a \in DOMAIN tools : a < j /\ tools[a].status = "queued" => tools[j].kind \in Unknown
  BY <1>1 DEF ToolsInv, QueueInv, Ordered
<1>6. ScanPasses(tools', j + 1)
  <2> SUFFICES ASSUME NEW a \in DOMAIN tools, a < j + 1,
                      tools'[a].kind \notin ConcurrencySafe, tools'[a].status # "yielded"
               PROVE  \E k \in DOMAIN tools' : a < k /\ k < j + 1 /\ tools'[k].kind \in Unknown
    BY <1>3 DEF ScanPasses
  <2>1. a < j /\ tools[a].kind \notin ConcurrencySafe /\ tools[a].status # "yielded"
    BY <1>1, <1>3
  <2>2. CASE a < scan
    <3>1. PICK k \in DOMAIN tools : a < k /\ k < scan /\ tools[k].kind \in Unknown
      BY <2>1, <2>2 DEF ToolsInv, ScanPasses
    <3>2. k < j + 1
      BY <1>1, <3>1
    <3> QED BY <1>3, <3>1, <3>2
  <2>3. CASE ~(a < scan)
    <3>1. tools[a].status = "queued"
      BY <1>1, <1>4, <2>1, <2>3
    <3>2. tools[j].kind \in Unknown /\ j < j + 1
      BY <1>1, <1>5, <2>1, <3>1
    <3> QED BY <1>3, <2>1, <3>2
  <2> QED BY <2>2, <2>3
<1>7. EmittedInOrder(tools')
  <2> SUFFICES ASSUME NEW a \in DOMAIN tools, NEW b \in DOMAIN tools,
                      a < b, tools[a].kind \notin ConcurrencySafe, tools'[b].status = "yielded",
                      \A k \in a .. b : tools[k].kind \notin Unknown
               PROVE  tools'[a].status = "yielded"
    <3>1. \A a, b \in DOMAIN tools : \A k \in a .. b : tools'[k].kind = tools[k].kind
      BY <1>1, <1>3
    <3> QED BY <1>3, <3>1 DEF EmittedInOrder
  <2>1. CASE b # j
    BY <1>3, <2>1 DEF ToolsInv, QueueInv, EmittedInOrder
  <2>2. CASE b = j
    <3>1. tools[a].status # "queued"
      <4>1. tools[j].kind \notin Unknown
        BY <1>1, <2>2
      <4> QED BY <1>5, <2>2, <4>1
    <3>2. ~(a < scan) \/ tools[a].status = "yielded"
      <4> SUFFICES ASSUME a < scan, tools[a].status # "yielded" PROVE FALSE
        OBVIOUS
      <4>1. PICK k \in DOMAIN tools : a < k /\ k < scan /\ tools[k].kind \in Unknown
        BY DEF ToolsInv, ScanPasses
      <4>2. k \in a .. b
        BY <1>1, <2>2, <4>1
      <4> QED BY <4>1, <4>2
    <3>3. tools[a].status = "yielded"
      BY <1>1, <1>4, <2>2, <3>1, <3>2
    <3> QED BY <1>1, <1>3, <2>2, <3>3
  <2> QED BY <2>1, <2>2
<1>8. QueueInv(tools')
  <2>1. Exclusive(tools') /\ NoResultYet(tools')
    BY <1>1, <1>3 DEF ToolsInv, QueueInv, Exclusive, NoResultYet
  <2>2. Ordered(tools')
    BY <1>1, <1>3 DEF ToolsInv, QueueInv, Ordered
  <2> QED BY <1>3, <1>7, <2>1, <2>2 DEF QueueInv
<1>9. WalksPast(tools', walks)
  BY <1>1, <1>3 DEF ToolsInv, WalksPast
<1>10. Caused(tools', hasErrored, aborted, pc)
  <2>1. (\E a \in DOMAIN tools' : tools'[a].kind \in Bash /\ tools'[a].result = "error")
          <=> \E a \in DOMAIN tools : tools[a].kind \in Bash /\ tools[a].result = "error"
    BY <1>3
  <2> QED BY <1>3, <2>1 DEF ToolsInv, Caused
<1>11. TypeOK' /\ scan' <= Len(tools') + 1
  BY <1>1, <1>3 DEF ToolsInv, TypeOK, Emit
<1>12. scan' = j + 1 /\ UNCHANGED <<hasErrored, aborted, walks, pc>>
  BY DEF Emit
<1> QED BY <1>6, <1>8, <1>9, <1>10, <1>11, <1>12 DEF ToolsInv

LEMMA NextPreserves == ToolsInv /\ [Next]_vars => ToolsInv'
<1> SUFFICES ASSUME ToolsInv, [Next]_vars PROVE ToolsInv'
  OBVIOUS
<1>t. /\ tools \in Seq(Tool) /\ DOMAIN tools = 1 .. Len(tools) /\ Len(tools) \in Nat /\ Len(tools) <= MaxTools
      /\ MaxTools \in Nat /\ walks \in SUBSET Walk
      /\ scan \in Nat /\ scan \in 1 .. MaxTools + 1 /\ scan <= Len(tools) + 1
      /\ QueueInv(tools) /\ WalksPast(tools, walks) /\ ScanPasses(tools, scan)
      /\ Caused(tools, hasErrored, aborted, pc)
  BY KindAssumption DEF ToolsInv, TypeOK
<1>1. ASSUME NEW w \in walks, ResumeWalk(w[1], w[2]) PROVE ToolsInv'
  <2>1. w[1] \in {"void", "results"} /\ w[2] \in Nat \ {0} /\ w = <<w[1], w[2]>>
    BY <1>t DEF Walk
  <2>2. walks \ {w} \in SUBSET Walk /\ WalksPast(tools, walks \ {w})
    BY <1>t DEF WalksPast
  <2>3. \A a \in DOMAIN tools : a < w[2] => tools[a].status # "queued"
    BY <1>t DEF WalksPast
  <2>4. ProcessQueue(w[1], tools, w[2], walks \ {w})
    BY <1>1, <2>1 DEF ResumeWalk
  <2>5. /\ QueueInv(tools') /\ Len(tools') = Len(tools) /\ walks' \in SUBSET Walk
        /\ WalksPast(tools', walks') /\ ScanPasses(tools', scan)
        /\ Caused(tools', hasErrored, aborted, pc)
    BY <1>t, <2>1, <2>2, <2>3, <2>4, ProcessQueuePreserves
  <2>6. UNCHANGED <<hasErrored, aborted, pc, scan>>
    BY <1>1 DEF ResumeWalk
  <2> QED BY <1>t, <2>5, <2>6 DEF ToolsInv, TypeOK, QueueInv
<1>2. ASSUME NEW i \in DOMAIN tools, NEW outcome \in {"own", "error"}, Result(i, outcome) PROVE ToolsInv'
  <2>1. i \in Executing /\ Complete(i, outcome) /\ outcome \in Outcome \ {"none"}
    BY <1>2 DEF Result, Outcome
  <2>2. /\ QueueInv(tools') /\ Len(tools') = Len(tools) /\ walks' \in SUBSET Walk
        /\ WalksPast(tools', walks') /\ ScanPasses(tools', scan)
        /\ Update(tools, tools', i, "completed", outcome) /\ DOMAIN tools' = DOMAIN tools
        /\ tools[i].result = "none"
    BY <2>1, CompletePreserves
  <2>3. /\ hasErrored' = (outcome = "error" /\ tools[i].kind \in Bash)
        /\ UNCHANGED <<aborted, scan>> /\ ~hasErrored /\ pc # "dropped" /\ pc' # "dropped"
        /\ pc' \in {"streaming", "collecting", "draining", "processing", "emitting", "waiting", "returned"}
    BY <1>2, AbortReasonType DEF Result, Complete, Woken, ToolsInv, TypeOK
  <2>4. /\ \A a \in DOMAIN tools : tools'[a].kind = tools[a].kind /\ (a # i => tools'[a].result = tools[a].result)
        /\ tools'[i].result = outcome
    BY <1>t, <2>2 DEF Update
  <2>5. Caused(tools', hasErrored', aborted', pc')
    <3>1. \A a \in DOMAIN tools : ~(tools[a].kind \in Bash /\ tools[a].result = "error")
      BY <1>t, <2>3 DEF Caused
    <3>2. hasErrored' <=> \E a \in DOMAIN tools' : tools'[a].kind \in Bash /\ tools'[a].result = "error"
      BY <2>2, <2>3, <2>4, <3>1
    <3>3. \A a \in DOMAIN tools' : /\ tools'[a].result # "sibling_error"
                                   /\ tools'[a].result = "user_interrupted" => aborted' # "no"
                                   /\ tools'[a].result # "streaming_fallback"
      BY <1>t, <2>2, <2>3, <2>4 DEF Caused
    <3>4. \A a \in DOMAIN tools' : tools'[a].kind \in Bash /\ tools'[a].result = "error" => a = i
      BY <2>2, <2>4, <3>1
    <3> QED BY <2>2, <3>2, <3>3, <3>4 DEF Caused
  <2> QED BY <1>t, <2>2, <2>3, <2>5 DEF ToolsInv, TypeOK, QueueInv
<1>3. ASSUME NEW i \in DOMAIN tools, Cancelled(i) PROVE ToolsInv'
  <2> DEFINE reason == AbortReason(tools[i].kind)
  <2>1. i \in Executing /\ Complete(i, reason) /\ reason \in AbortResult
    BY <1>3, AbortReasonType DEF Cancelled
  <2>2. /\ reason = "sibling_error" => hasErrored
        /\ reason = "user_interrupted" => aborted # "no"
        /\ reason = "streaming_fallback" => pc = "dropped"
    BY AbortReasonType
  <2>3. UNCHANGED <<hasErrored, aborted, scan>> /\ pc' = Woken
    BY <1>3 DEF Cancelled, Complete
  <2> HIDE DEF reason
  <2>4. reason \in Outcome \ {"none"} /\ reason # "error"
    BY <2>1 DEF Outcome, AbortResult
  <2>5. /\ QueueInv(tools') /\ Len(tools') = Len(tools) /\ walks' \in SUBSET Walk
        /\ WalksPast(tools', walks') /\ ScanPasses(tools', scan)
        /\ Update(tools, tools', i, "completed", reason) /\ DOMAIN tools' = DOMAIN tools
        /\ tools[i].result = "none"
    BY <2>1, <2>4, CompletePreserves
  <2>6. Caused(tools', hasErrored, aborted, pc)
    BY <1>t, <2>2, <2>4, <2>5, CauseKept
  <2>7. Caused(tools', hasErrored, aborted, pc') /\ pc' \in {"streaming", "collecting", "draining", "processing",
            "emitting", "waiting", "returned", "dropped"}
    BY <2>3, <2>6 DEF Caused, Woken, ToolsInv, TypeOK
  <2> QED BY <1>t, <2>3, <2>5, <2>7 DEF ToolsInv, TypeOK, QueueInv
<1>4. ASSUME NEW i \in DOMAIN tools, PermissionRejected(i) PROVE ToolsInv'
  BY <1>t, <1>4 DEF PermissionRejected, ToolsInv, TypeOK, Caused
<1>5. ASSUME NEW i \in DOMAIN tools, Emit(i) PROVE ToolsInv'
  BY <1>5, EmitPreserves
<1>6. ASSUME NEW kind \in Kind, AddTool(kind) PROVE ToolsInv'
  <2>1. UNCHANGED <<hasErrored, aborted, pc, scan>> /\ Len(tools) + 1 <= MaxTools
    BY <1>6 DEF AddTool
  <2>2. CASE kind \in Unknown
    <3> DEFINE ts == Append(tools, NewTool(kind, "completed", "error"))
    <3>1. tools' = ts /\ UNCHANGED walks
      BY <1>6, <2>2 DEF AddTool
    <3>2. /\ QueueInv(ts) /\ Len(ts) = Len(tools) + 1 /\ WalksPast(ts, walks) /\ ScanPasses(ts, scan)
          /\ Caused(ts, hasErrored, aborted, pc)
      BY <2>2, AppendPreserves
    <3> HIDE DEF ts
    <3> QED BY <1>t, <2>1, <3>1, <3>2 DEF ToolsInv, TypeOK, QueueInv
  <2>3. CASE kind \notin Unknown
    <3> DEFINE ts == Append(tools, NewTool(kind, "queued", "none"))
    <3>1. ProcessQueue("void", ts, 1, walks)
      BY <1>6, <2>3 DEF AddTool
    <3>2. /\ QueueInv(ts) /\ Len(ts) = Len(tools) + 1 /\ WalksPast(ts, walks) /\ ScanPasses(ts, scan)
          /\ Caused(ts, hasErrored, aborted, pc)
      BY AppendPreserves
    <3> HIDE DEF ts
    <3>3. \A a \in DOMAIN ts : a < 1 => ts[a].status # "queued"
      BY <3>2 DEF QueueInv
    <3>4. /\ QueueInv(tools') /\ Len(tools') = Len(ts) /\ walks' \in SUBSET Walk
          /\ WalksPast(tools', walks') /\ ScanPasses(tools', scan)
          /\ Caused(tools', hasErrored, aborted, pc)
      BY <1>t, <2>1, <3>1, <3>2, <3>3, ProcessQueuePreserves
    <3> QED BY <1>t, <2>1, <3>2, <3>4 DEF ToolsInv, TypeOK, QueueInv
  <2> QED BY <2>2, <2>3
<1>7. ASSUME NEW reason \in {"interrupt", "user"}, Abort(reason) PROVE ToolsInv'
  BY <1>t, <1>7 DEF Abort, ToolsInv, TypeOK, Caused
<1>8. CASE CollectWhileStreaming \/ StreamEnds \/ Discard \/ Processed \/ Return
  <2>1. UNCHANGED <<tools, hasErrored, aborted, walks, scan>> /\ pc # "dropped"
        /\ pc' \in {"streaming", "collecting", "draining", "processing", "emitting", "waiting", "returned", "dropped"}
    BY <1>8 DEF CollectWhileStreaming, StreamEnds, Discard, Processed, Return
  <2> QED BY <1>t, <2>1 DEF ToolsInv, TypeOK, Caused
<1>9. CASE EmitEnds
  <2>1. UNCHANGED <<tools, hasErrored, aborted, walks>> /\ pc # "dropped" /\ scan' = 1
        /\ pc' \in {"streaming", "draining", "waiting"}
    BY <1>9 DEF EmitEnds, AfterEmitting
  <2>2. ScanPasses(tools, 1) /\ 1 <= Len(tools) + 1 /\ 1 \in 1 .. MaxTools + 1
    BY <1>t DEF ScanPasses
  <2> QED BY <1>t, <2>1, <2>2 DEF ToolsInv, TypeOK, Caused
<1>10. CASE Drain
  <2>1. ProcessQueue("results", tools, 1, walks) /\ UNCHANGED <<hasErrored, aborted, scan>>
        /\ pc = "draining" /\ pc' = "processing"
    BY <1>10 DEF Drain
  <2>2. \A a \in DOMAIN tools : a < 1 => tools[a].status # "queued"
    BY <1>t
  <2>3. /\ QueueInv(tools') /\ Len(tools') = Len(tools) /\ walks' \in SUBSET Walk
        /\ WalksPast(tools', walks') /\ ScanPasses(tools', scan)
        /\ Caused(tools', hasErrored, aborted, pc)
    BY <1>t, <2>1, <2>2, ProcessQueuePreserves
  <2>4. Caused(tools', hasErrored, aborted, pc')
    BY <2>1, <2>3 DEF Caused
  <2> QED BY <1>t, <2>1, <2>3, <2>4 DEF ToolsInv, TypeOK, QueueInv
<1>11. CASE UNCHANGED vars
  BY <1>t, <1>11 DEF vars, ToolsInv, TypeOK
<1> QED BY <1>1, <1>2, <1>3, <1>4, <1>5, <1>6, <1>7, <1>8, <1>9, <1>10, <1>11 DEF Next

\* ToolsInv holds in every reachable state.
THEOREM ToolsInvariant == Spec => []ToolsInv
BY InitEstablishes, NextPreserves, PTL DEF Spec

LEMMA ToolsInvImplies ==
    ToolsInv => TypeOK /\ ExclusiveAccess /\ StartedInOrder /\ NotOvertaken /\ CancelledForCause
<1> SUFFICES ASSUME ToolsInv
             PROVE  TypeOK /\ ExclusiveAccess /\ StartedInOrder /\ NotOvertaken /\ CancelledForCause
  OBVIOUS
<1>1. ExclusiveAccess
  BY DEF ToolsInv, QueueInv, Exclusive, ExclusiveAccess, Executing, Safe
<1>2. StartedInOrder
  BY DEF ToolsInv, QueueInv, Ordered, StartedInOrder
<1>3. NotOvertaken
  BY DEF ToolsInv, QueueInv, EmittedInOrder, NotOvertaken, Safe
<1>4. CancelledForCause
  BY DEF ToolsInv, Caused, CancelledForCause, BashFailed
<1> QED BY <1>1, <1>2, <1>3, <1>4 DEF ToolsInv

\* Every variable keeps its type, and a response has at most MaxTools tools.
THEOREM TypeCorrect == Spec => []TypeOK
BY ToolsInvariant, ToolsInvImplies, PTL

\* A tool that is not safe to run next to others runs alone.
THEOREM ExclusiveAccessCorrect == Spec => []ExclusiveAccess
BY ToolsInvariant, ToolsInvImplies, PTL

\* Tools start in the order in which the model asked for them.
THEOREM StartOrderCorrect == Spec => []StartedInOrder
BY ToolsInvariant, ToolsInvImplies, PTL

\* An exclusive tool's answer is not overtaken by a later tool's.
THEOREM AnswerOrderCorrect == Spec => []NotOvertaken
BY ToolsInvariant, ToolsInvImplies, PTL

\* A tool is cancelled only for a cause, and the failure of a Bash command lets no
\* second one fail by itself.
THEOREM CancellationCorrect == Spec => []CancelledForCause
BY ToolsInvariant, ToolsInvImplies, PTL

-----------------------------------------------------------------------------
(***************************************************************************)
(* The safety half of the two liveness properties: what is queued has      *)
(* something that will start it, what waits has something that will wake   *)
(* it, and a round of getRemainingResults hands something out, unless the  *)
(* response starves it.                                                    *)
(***************************************************************************)
Running(ts) == \E i \in DOMAIN ts : ts[i].status = "executing"

\* Nothing that needs to start has started behind a tool that executes alone.
Blocks(ts) ==
    \A i, j \in DOMAIN ts :
        i < j /\ ts[i].status = "executing" /\ ts[i].kind \notin ConcurrencySafe
            => ts[j].status = "queued" \/ ts[j].kind \in Unknown

Covered(ts, ws) ==
    (\E i \in DOMAIN ts : ts[i].status = "queued") => Running(ts) \/ ws # {}

\* A tool that is queued will start: a tool executes, whose end walks the queue, or
\* a walk is under way, whose position is not behind the tool.
QueuedHasCause ==
    \A i \in DOMAIN tools : Queued(i) =>
        Executing # {} \/ \E w \in walks : w[2] <= i

\* getRemainingResults is never left waiting for a tool that has ended already.
WaitsForATool == pc = "waiting" => Executing # {}

\* Tool i executes alone before tool j, which is completed, while
\* getRemainingResults goes round and round.
Starved(i, j) ==
    /\ i \in Executing /\ ~Safe(i)
    /\ j \in Finished /\ i < j /\ scan <= i
    /\ pc \in {"draining", "processing", "emitting"}

\* A round of getRemainingResults that hands out nothing has nothing to hand out,
\* so that it waits, walks or returns; or it is starved by an unknown tool's answer.
RoundsFruitful ==
    pc = "emitting" /\ scan = 1 /\ (\A i \in DOMAIN tools : ~HandsOut(i)) =>
        \/ Finished = {}
        \/ \E i, j \in DOMAIN tools : Starved(i, j) /\ tools[j].kind \in Unknown

LoopInv ==
    /\ ToolsInv
    /\ Blocks(tools)
    /\ Covered(tools, walks)
    /\ pc = "waiting" => Running(tools)

LEMMA FirstOf ==
    ASSUME NEW S \in SUBSET Nat, S # {}
    PROVE  \E x \in S : \A y \in S : x <= y
<1>1. PICK x \in S : \A y \in S : <<y, x>> \notin OpToRel(<, Nat)
  BY NatLessThanWellFounded, WFMin
<1>2. \A y \in S : ~(y < x)
  BY <1>1 DEF OpToRel
<1> QED BY <1>2

LEMMA WalkCovers ==
    ASSUME NEW who, NEW ts, NEW p \in Nat \ {0}, NEW others,
           ProcessQueue(who, ts, p, others), QueueInv(ts), Blocks(ts),
           \A a \in DOMAIN ts : a < p => ts[a].status # "queued"
    PROVE  /\ Blocks(tools') /\ Covered(tools', walks')
           /\ Running(ts) => Running(tools')
<1>0. ts \in Seq(Tool) /\ DOMAIN ts = 1 .. Len(ts) /\ Len(ts) \in Nat
  BY DEF QueueInv
<1>1. ASSUME NEW i, StartsAt(ts, p, i), tools' = Executed(ts, i), <<who, i + 1>> \in walks'
      PROVE  /\ Blocks(tools') /\ Covered(tools', walks')
             /\ Running(ts) => Running(tools')
  <2>1. /\ i \in DOMAIN ts
        /\ ts[i].status = "queued"
        /\ CanExecute(ts, i)
        /\ \A a \in DOMAIN ts : a < i => ts[a].status # "queued"
    BY <1>1, StartsTheFirst
  <2>2. /\ DOMAIN tools' = DOMAIN ts
        /\ \A a \in DOMAIN ts : a # i => tools'[a] = ts[a]
        /\ tools'[i].kind = ts[i].kind
    BY <1>0, <1>1, <2>1 DEF Executed, Tool
  <2>3. Blocks(tools')
    <3> SUFFICES ASSUME NEW a \in DOMAIN ts, NEW b \in DOMAIN ts, a < b,
                        tools'[a].status = "executing", tools'[a].kind \notin ConcurrencySafe
                 PROVE  tools'[b].status = "queued" \/ tools'[b].kind \in Unknown
      BY <2>2 DEF Blocks
    <3>1. a = i
      BY <2>1, <2>2 DEF CanExecute
    <3>2. ts[b].status = "queued" \/ ts[b].kind \in Unknown
      BY <2>1, <3>1 DEF QueueInv, Ordered
    <3>3. b # i
      BY <1>0, <3>1
    <3> QED BY <2>2, <3>2, <3>3
  <2>4. Covered(tools', walks')
    BY <1>1 DEF Covered
  <2>5. Running(ts) => Running(tools')
    BY <2>1, <2>2 DEF Running
  <2> QED BY <2>3, <2>4, <2>5
<1>2. ASSUME \A i \in p .. Len(ts) : ~StartsAt(ts, p, i), tools' = ts
      PROVE  /\ Blocks(tools') /\ Covered(tools', walks')
             /\ Running(ts) => Running(tools')
  <2>1. ASSUME NEW a \in DOMAIN ts, ts[a].status = "queued" PROVE Running(ts)
    <3> DEFINE waiting == {i \in DOMAIN ts : ts[i].status = "queued"}
    <3>1. waiting \in SUBSET Nat /\ waiting # {}
      BY <1>0, <2>1
    <3> HIDE DEF waiting
    <3>2. PICK first \in waiting : \A y \in waiting : first <= y
      BY <3>1, FirstOf
    <3>3. first \in DOMAIN ts /\ ts[first].status = "queued" /\ first \in Nat
      BY <1>0, <3>2 DEF waiting
    <3>4. \A i \in DOMAIN ts : i < first => ts[i].status # "queued"
      BY <1>0, <3>2, <3>3 DEF waiting
    <3>5. first \in p .. Len(ts)
      BY <1>0, <3>3
    <3>6. \A j \in p .. first - 1 : Passes(ts, j)
      BY <1>0, <3>3, <3>4, <3>5 DEF Passes
    <3>7. ~CanExecute(ts, first)
      BY <1>2, <3>3, <3>5, <3>6 DEF StartsAt
    <3> QED BY <3>7 DEF CanExecute, Running
  <2> QED BY <1>2, <2>1 DEF Covered
<1> QED BY <1>1, <1>2 DEF ProcessQueue

\* A tool that ends, or is handed out, uncovers nothing.
LEMMA EndCovers ==
    ASSUME NEW ts, NEW us, NEW i \in DOMAIN ts, NEW status \in {"completed", "yielded"},
           QueueInv(ts), Blocks(ts), Update(ts, us, i, status, us[i].result),
           \/ status = "completed" /\ ts[i].status = "executing"
           \/ status = "yielded" /\ ts[i].status = "completed"
    PROVE  Blocks(us)
<1>0. DOMAIN ts = 1 .. Len(ts) /\ DOMAIN us = DOMAIN ts
  BY DEF QueueInv, Update
<1>1. \A a \in DOMAIN ts : us[a].kind = ts[a].kind /\ (a # i => us[a].status = ts[a].status)
  BY <1>0 DEF Update
<1>2. us[i].status \in {"completed", "yielded"}
  BY DEF Update
<1> SUFFICES ASSUME NEW a \in DOMAIN ts, NEW b \in DOMAIN ts, a < b,
                    us[a].status = "executing", us[a].kind \notin ConcurrencySafe
             PROVE  us[b].status = "queued" \/ us[b].kind \in Unknown
  BY <1>0 DEF Blocks
<1>3. a # i /\ ts[a].status = "executing" /\ ts[a].kind \notin ConcurrencySafe
  BY <1>1, <1>2
<1>4. ts[b].status = "queued" \/ ts[b].kind \in Unknown
  BY <1>3 DEF Blocks
<1>5. CASE b # i
  BY <1>1, <1>4, <1>5
<1>6. CASE b = i
  <2>1. ts[b].status # "executing"
    BY <1>0, <1>3, <1>6 DEF QueueInv, Exclusive
  <2> QED BY <1>1, <1>4, <1>6, <2>1
<1> QED BY <1>5, <1>6

LEMMA AppendCovers ==
    ASSUME ToolsInv, Blocks(tools), NEW kind \in Kind, NEW status, NEW result,
           \/ status = "queued"
           \/ status = "completed" /\ kind \in Unknown
    PROVE  LET ts == Append(tools, NewTool(kind, status, result))
           IN  /\ Blocks(ts)
               /\ Running(tools) => Running(ts)
               /\ status = "completed" =>
                    (Covered(tools, walks) => Covered(ts, walks))
<1> DEFINE ts == Append(tools, NewTool(kind, status, result))
<1>0. tools \in Seq(Tool) /\ DOMAIN tools = 1 .. Len(tools) /\ Len(tools) \in Nat
  BY DEF ToolsInv, TypeOK
<1>1. /\ DOMAIN ts = 1 .. Len(tools) + 1
      /\ \A a \in DOMAIN tools : a \in DOMAIN ts /\ ts[a] = tools[a]
      /\ ts[Len(tools) + 1].kind = kind /\ ts[Len(tools) + 1].status = status
      /\ \A a \in DOMAIN ts : a \in DOMAIN tools \/ a = Len(tools) + 1
  BY <1>0 DEF NewTool
<1> HIDE DEF ts
<1>2. Blocks(ts)
  <2> SUFFICES ASSUME NEW a \in DOMAIN ts, NEW b \in DOMAIN ts, a < b,
                      ts[a].status = "executing", ts[a].kind \notin ConcurrencySafe
               PROVE  ts[b].status = "queued" \/ ts[b].kind \in Unknown
    BY DEF Blocks
  <2>1. CASE b = Len(tools) + 1
    BY <1>1, <2>1
  <2>2. CASE b \in DOMAIN tools
    <3>1. a \in DOMAIN tools
      BY <1>0, <1>1, <2>2
    <3> QED BY <1>1, <2>2, <3>1 DEF Blocks
  <2> QED BY <1>1, <2>1, <2>2
<1>3. Running(tools) => Running(ts)
  BY <1>1 DEF Running
<1>4. status = "completed" => (Covered(tools, walks) => Covered(ts, walks))
  BY <1>1, <1>3 DEF Covered
<1> QED BY <1>2, <1>3, <1>4 DEF ts

LEMMA LoopInit == Init => LoopInv
<1> SUFFICES ASSUME Init PROVE LoopInv
  OBVIOUS
<1>1. DOMAIN tools = {} /\ pc # "waiting"
  BY DEF Init
<1> QED BY <1>1, InitEstablishes DEF LoopInv, Blocks, Covered

LEMMA LoopStep == LoopInv /\ [Next]_vars => LoopInv'
<1> SUFFICES ASSUME LoopInv, [Next]_vars PROVE LoopInv'
  OBVIOUS
<1>0. /\ ToolsInv /\ ToolsInv' /\ QueueInv(tools) /\ Blocks(tools) /\ Covered(tools, walks)
      /\ pc = "waiting" => Running(tools)
      /\ tools \in Seq(Tool) /\ DOMAIN tools = 1 .. Len(tools) /\ walks \in SUBSET Walk
  BY NextPreserves DEF LoopInv, ToolsInv, TypeOK
<1> SUFFICES Blocks(tools') /\ Covered(tools', walks') /\ (pc' = "waiting" => Running(tools'))
  BY <1>0 DEF LoopInv
<1>1. ASSUME NEW w \in walks, ResumeWalk(w[1], w[2])
      PROVE  Blocks(tools') /\ Covered(tools', walks') /\ (pc' = "waiting" => Running(tools'))
  <2>1. w[2] \in Nat \ {0} /\ \A a \in DOMAIN tools : a < w[2] => tools[a].status # "queued"
    BY <1>0 DEF Walk, ToolsInv, WalksPast
  <2>2. ProcessQueue(w[1], tools, w[2], walks \ {<<w[1], w[2]>>}) /\ pc' = pc
    BY <1>1 DEF ResumeWalk
  <2> QED BY <1>0, <2>1, <2>2, WalkCovers
<1>2. ASSUME NEW i \in Executing, NEW result \in Outcome \ {"none"}, Complete(i, result)
      PROVE  Blocks(tools') /\ Covered(tools', walks') /\ (pc' = "waiting" => Running(tools'))
  <2>1. Update(tools, tools', i, "completed", result) /\ i \in DOMAIN tools
        /\ tools[i].status = "executing"
    BY <1>0, <1>2, CompletePreserves DEF Executing
  <2>2. Blocks(tools')
    BY <1>0, <2>1, EndCovers DEF Update
  <2>3. walks' # {} /\ pc' # "waiting"
    BY <1>2 DEF Complete, Woken
  <2> QED BY <2>2, <2>3 DEF Covered
<1>3. ASSUME NEW i \in DOMAIN tools, NEW outcome \in {"own", "error"}, Result(i, outcome)
      PROVE  Blocks(tools') /\ Covered(tools', walks') /\ (pc' = "waiting" => Running(tools'))
  BY <1>2, <1>3 DEF Result, Outcome
<1>4. ASSUME NEW i \in DOMAIN tools, Cancelled(i)
      PROVE  Blocks(tools') /\ Covered(tools', walks') /\ (pc' = "waiting" => Running(tools'))
  <2>1. AbortReason(tools[i].kind) \in AbortResult
    BY <1>4, AbortReasonType DEF Cancelled
  <2>2. AbortReason(tools[i].kind) \in Outcome \ {"none"}
    BY <2>1 DEF Outcome, AbortResult
  <2> QED BY <1>2, <1>4, <2>2 DEF Cancelled
<1>5. ASSUME NEW i \in DOMAIN tools, Emit(i)
      PROVE  Blocks(tools') /\ Covered(tools', walks') /\ (pc' = "waiting" => Running(tools'))
  <2>1. tools[i].status = "completed" /\ tools[i].result \in Outcome
    <3>1. tools[i] \in Tool
      BY <1>0
    <3>2. tools[i].status = "completed"
      BY <1>5 DEF Emit, HandsOut, Finished
    <3> QED BY <3>1, <3>2 DEF Tool, Outcome
  <2>2. Update(tools, tools', i, "yielded", tools[i].result)
    BY <1>0, <1>5, <2>1, ExceptUpdates DEF Emit, Status
  <2>3. Blocks(tools')
    BY <1>0, <2>1, <2>2, EndCovers DEF Update
  <2>4. Covered(tools', walks')
    <3>1. \A a \in DOMAIN tools : a # i => tools'[a] = tools[a]
      BY <1>0, <2>2 DEF Update
    <3>2. DOMAIN tools' = DOMAIN tools /\ tools'[i].status = "yielded" /\ walks' = walks
      BY <1>0, <1>5, <2>2 DEF Update, Emit
    <3> QED BY <1>0, <2>1, <3>1, <3>2 DEF Covered, Running
  <2>5. pc' # "waiting"
    BY <1>5 DEF Emit
  <2> QED BY <2>3, <2>4, <2>5
<1>6. ASSUME NEW kind \in Kind, AddTool(kind)
      PROVE  Blocks(tools') /\ Covered(tools', walks') /\ (pc' = "waiting" => Running(tools'))
  <2>1. pc' # "waiting"
    BY <1>6 DEF AddTool
  <2>2. CASE kind \in Unknown
    BY <1>0, <1>6, <2>1, <2>2, AppendCovers DEF AddTool
  <2>3. CASE kind \notin Unknown
    <3> DEFINE ts == Append(tools, NewTool(kind, "queued", "none"))
    <3>1. ProcessQueue("void", ts, 1, walks)
      BY <1>6, <2>3 DEF AddTool
    <3>2. QueueInv(ts) /\ Blocks(ts)
      BY <1>0, AppendPreserves, AppendCovers
    <3> HIDE DEF ts
    <3>3. \A a \in DOMAIN ts : a < 1 => ts[a].status # "queued"
      BY <3>2 DEF QueueInv
    <3>4. Blocks(tools') /\ Covered(tools', walks')
      BY <3>1, <3>2, <3>3, WalkCovers
    <3> QED BY <2>1, <3>4
  <2> QED BY <2>2, <2>3
<1>7. CASE EmitEnds
  <2>1. UNCHANGED <<tools, walks>> /\ (pc' = "waiting" => Executing # {})
    BY <1>7 DEF EmitEnds, AfterEmitting
  <2> QED BY <1>0, <2>1 DEF Executing, Running
<1>8. CASE Drain
  <2>1. ProcessQueue("results", tools, 1, walks) /\ pc' # "waiting"
    BY <1>8 DEF Drain
  <2>2. \A a \in DOMAIN tools : a < 1 => tools[a].status # "queued"
    BY <1>0
  <2> QED BY <1>0, <2>1, <2>2, WalkCovers
<1>9. CASE \/ CollectWhileStreaming \/ StreamEnds \/ Discard \/ Processed \/ Return
           \/ \E reason \in {"interrupt", "user"} : Abort(reason)
           \/ \E i \in DOMAIN tools : PermissionRejected(i)
           \/ UNCHANGED vars
  <2>1. UNCHANGED <<tools, walks>> /\ (pc' = "waiting" => pc = "waiting")
    BY <1>9 DEF CollectWhileStreaming, StreamEnds, Discard, Processed, Return, Abort,
                PermissionRejected, vars
  <2> QED BY <1>0, <2>1
<1> QED BY <1>1, <1>3, <1>4, <1>5, <1>6, <1>7, <1>8, <1>9 DEF Next

LEMMA LoopInvHolds == Spec => []LoopInv
BY LoopInit, LoopStep, PTL DEF Spec

\* QueuedToolStarts' safety half: a tool in the queue is never forgotten, even if
\* nobody calls getRemainingResults (StreamingToolExecutor.ts, processQueue).
THEOREM QueuedCaused == Spec => []QueuedHasCause
<1>1. LoopInv => QueuedHasCause
  <2> SUFFICES ASSUME LoopInv, NEW i \in DOMAIN tools, Queued(i), Executing = {}
               PROVE  \E w \in walks : w[2] <= i
    BY DEF QueuedHasCause
  <2>1. PICK w \in walks : TRUE
    BY DEF LoopInv, Covered, Queued, Running, Executing
  <2>2. w[2] \in Nat /\ i \in Nat
    BY DEF LoopInv, ToolsInv, TypeOK, Walk
  <2>3. ~(i < w[2])
    BY DEF LoopInv, ToolsInv, WalksPast, Queued
  <2> QED BY <2>2, <2>3
<1> QED BY <1>1, LoopInvHolds, PTL

\* Promise.race in getRemainingResults always has a promise that is still pending
\* when it is awaited, and the end of that tool ends the wait.
THEOREM WaitCorrect == Spec => []WaitsForATool
<1>1. LoopInv => WaitsForATool
  BY DEF LoopInv, WaitsForATool, Running, Executing
<1> QED BY <1>1, LoopInvHolds, PTL

\* RemainingResultsReturn's safety half: only a name that does not exist can make
\* a round of getRemainingResults fruitless while there are results.
THEOREM RoundsCorrect == Spec => []RoundsFruitful
<1>1. LoopInv => RoundsFruitful
  <2> SUFFICES ASSUME LoopInv, pc = "emitting", scan = 1, \A i \in DOMAIN tools : ~HandsOut(i),
                      Finished # {}
               PROVE  \E i, j \in DOMAIN tools : Starved(i, j) /\ tools[j].kind \in Unknown
    BY DEF RoundsFruitful
  <2>0. tools \in Seq(Tool) /\ DOMAIN tools = 1 .. Len(tools)
    BY DEF LoopInv, ToolsInv, TypeOK
  <2>1. Finished \in SUBSET Nat
    BY <2>0 DEF Finished
  <2>2. PICK j \in Finished : \A k \in Finished : j <= k
    BY <2>1, FirstOf
  <2>3. j \in DOMAIN tools /\ j \in 1 .. Len(tools) /\ tools[j].status = "completed"
    BY <2>0 DEF Finished
  <2>4. PICK i \in 1 .. j - 1 : Holds(i)
    <3>1. ~HandsOut(j)
      BY <2>3
    <3>2. \A k \in 1 .. j - 1 : k \notin Finished
      BY <2>2, <2>3
    <3> QED BY <2>3, <3>1, <3>2 DEF HandsOut
  <2>5. /\ i \in Executing /\ ~Safe(i) /\ i < j /\ scan <= i /\ i \in DOMAIN tools
        /\ tools[i].status = "executing" /\ tools[i].kind \notin ConcurrencySafe
    BY <2>0, <2>3, <2>4 DEF Holds, Executing, Safe
  <2>6. tools[j].kind \in Unknown
    BY <2>3, <2>5 DEF LoopInv, Blocks
  <2> QED BY <2>3, <2>5, <2>6 DEF Starved
<1> QED BY <1>1, LoopInvHolds, PTL

-----------------------------------------------------------------------------
\* The event loop serves timers, processes and sockets, on which every tool's end
\* depends, only when no microtask is left.
EndsWhenServed == \A i \in Executing : i \notin Executing' => MicrotasksDone

LEMMA StarvedStep ==
    ASSUME NEW i \in 1 .. MaxTools, NEW j \in 1 .. MaxTools, ToolsInv, Starved(i, j),
           [Next]_vars, EndsWhenServed
    PROVE  Starved(i, j)'
<1>0. /\ tools \in Seq(Tool) /\ DOMAIN tools = 1 .. Len(tools) /\ walks \in SUBSET Walk
      /\ i \in DOMAIN tools /\ j \in DOMAIN tools /\ scan \in Nat /\ MaxTools \in Nat
      /\ tools[i].status = "executing" /\ tools[i].kind \notin ConcurrencySafe
      /\ tools[j].status = "completed" /\ i < j /\ scan <= i
      /\ pc \in {"draining", "processing", "emitting"} /\ ~MicrotasksDone
  BY KindAssumption DEF ToolsInv, TypeOK, Starved, Executing, Finished, Safe, MicrotasksDone
<1>1. ASSUME tools' = tools, scan' \in {scan, 1}, pc' \in {"draining", "processing", "emitting"}
      PROVE  Starved(i, j)'
  <2>1. scan' <= i
    BY <1>0, <1>1
  <2>2. Executing' = Executing /\ Finished' = Finished /\ (Safe(i)' <=> Safe(i))
    BY <1>1 DEF Executing, Finished, Safe
  <2> QED BY <1>1, <2>1, <2>2 DEF Starved
\* No walk starts a tool next to i.
<1>2. ASSUME NEW who, NEW p, NEW others, ProcessQueue(who, tools, p, others) PROVE tools' = tools
  <2>1. \A k : ~StartsAt(tools, p, k)
    BY <1>0 DEF StartsAt, CanExecute
  <2> QED BY <1>2, <2>1 DEF ProcessQueue
\* No tool ends: the event loop is not served.
<1>3. ASSUME NEW k \in DOMAIN tools, \/ \E outcome \in {"own", "error"} : Result(k, outcome)
                                     \/ Cancelled(k)
      PROVE  FALSE
  <2>1. PICK result : k \in Executing /\ Complete(k, result)
    BY <1>3 DEF Result, Cancelled
  <2>2. tools' = [tools EXCEPT ![k].status = "completed", ![k].result = result]
    BY <2>1 DEF Complete
  <2>3. tools'[k].status = "completed"
    BY <1>0, <2>2 DEF Tool
  <2>4. k \notin Executing'
    BY <2>3 DEF Executing
  <2> QED BY <1>0, <2>1, <2>4 DEF EndsWhenServed
\* What is handed out lies before i.
<1>4. ASSUME NEW k \in DOMAIN tools, Emit(k) PROVE Starved(i, j)'
  <2>1. /\ k \in scan .. Len(tools) /\ k \in Finished /\ pc' = pc
        /\ \A a \in scan .. k - 1 : ~Holds(a)
        /\ tools' = [tools EXCEPT ![k].status = "yielded"] /\ scan' = k + 1
    BY <1>4 DEF Emit, HandsOut
  <2>2. Holds(i) /\ k # i
    BY <1>0, <2>1 DEF Holds, Executing, Safe, Finished
  <2>3. k \in Nat /\ i \in Nat /\ j \in Nat /\ k < i /\ k # j
    BY <1>0, <2>1, <2>2
  <2>4. tools'[i] = tools[i] /\ tools'[j] = tools[j] /\ DOMAIN tools' = DOMAIN tools
    <3>1. tools' = [tools EXCEPT ![k].status = "yielded"] /\ k # i /\ k # j
      BY <2>1, <2>2, <2>3
    <3> QED BY <1>0, <3>1
  <2>5. scan' <= i
    <3>1. scan' = k + 1
      BY <2>1
    <3> QED BY <2>3, <3>1
  <2> QED BY <1>0, <2>1, <2>4, <2>5 DEF Starved, Executing, Finished, Safe
<1>5. ASSUME NEW w \in walks, ResumeWalk(w[1], w[2]) PROVE Starved(i, j)'
  BY <1>0, <1>1, <1>2, <1>5 DEF ResumeWalk
<1>6. ASSUME NEW kind \in Kind, AddTool(kind) PROVE FALSE
  BY <1>0, <1>6 DEF AddTool
<1>7. CASE Drain
  BY <1>1, <1>2, <1>7 DEF Drain
<1>8. CASE EmitEnds
  <2>1. j \in Finished
    BY <1>0 DEF Finished
  <2>2. pc' = "draining"
    BY <1>0, <1>8, <2>1 DEF EmitEnds, AfterEmitting
  <2> QED BY <1>1, <1>8, <2>2 DEF EmitEnds
<1>9. CASE CollectWhileStreaming \/ StreamEnds \/ Discard \/ Return
  BY <1>0, <1>9 DEF CollectWhileStreaming, StreamEnds, Discard, Return
<1>10. CASE \/ Processed \/ UNCHANGED vars
            \/ \E reason \in {"interrupt", "user"} : Abort(reason)
            \/ \E k \in DOMAIN tools : PermissionRejected(k)
  BY <1>0, <1>1, <1>10 DEF Processed, Abort, PermissionRejected, vars
<1> QED BY <1>3, <1>4, <1>5, <1>6, <1>7, <1>8, <1>9, <1>10 DEF Next

\* ResultsAlwaysReturn fails for every response of this shape, however long, and
\* for good: getRemainingResults (StreamingToolExecutor.ts) goes on from microtask
\* to microtask and does not return, and the tool it waits for cannot end.
THEOREM StarvedForEver ==
    ASSUME NEW i \in 1 .. MaxTools, NEW j \in 1 .. MaxTools
    PROVE  Spec /\ [][EndsWhenServed]_vars
             => [](Starved(i, j) => [](Starved(i, j) /\ ~MicrotasksDone /\ pc # "returned"))
<1>1. Starved(i, j) => ~MicrotasksDone /\ pc # "returned"
  BY DEF Starved, MicrotasksDone
<1>2. ToolsInv /\ Starved(i, j) /\ [Next]_vars /\ [EndsWhenServed]_vars => Starved(i, j)'
  <2>1. CASE EndsWhenServed
    BY <2>1, StarvedStep
  <2>2. CASE UNCHANGED vars
    BY <2>2 DEF vars, Starved, Executing, Finished, Safe
  <2> QED BY <2>1, <2>2
<1> QED BY <1>1, <1>2, ToolsInvariant, PTL DEF Spec
=============================================================================
