----------------------------- MODULE QueryGuard -----------------------------
(***************************************************************************)
(* The state machine that keeps the terminal program at one turn at a time *)
(* (src/restored-src/src/utils/QueryGuard.ts), as operators on its value.  *)
(* "dispatching" covers the work on the input that precedes a query; the   *)
(* generation tells a query that ended from one that was superseded.       *)
(***************************************************************************)
EXTENDS Naturals

Guard == [status : {"idle", "dispatching", "running"}, generation : Nat]

IdleGuard == [status |-> "idle", generation |-> 0]

IsActive_OnlyRunning(g) == g.status = "running" \* faulty variant

IsActive(g) == g.status # "idle"

Reserve(g) ==
  IF g.status = "idle" THEN [g EXCEPT !.status = "dispatching"] ELSE g

CancelReservation(g) ==
  IF g.status = "dispatching" THEN [g EXCEPT !.status = "idle"] ELSE g

(* Refused while a query runs; the caller's number is the new generation.  *)
Startable(g) == g.status # "running"
Started(g) == [status |-> "running", generation |-> g.generation + 1]

Owns(g, generation) == g.status = "running" /\ g.generation = generation

EndedBy_AnyGeneration(g, generation) == \* faulty variant
  IF g.status = "running" THEN [g EXCEPT !.status = "idle"] ELSE g

EndedBy(g, generation) ==
  IF Owns(g, generation) THEN [g EXCEPT !.status = "idle"] ELSE g

ForceEnded_TakesBack(g) == \* faulty variant
  IF IsActive(g)
    THEN [status |-> "idle", generation |-> g.generation - 1]
    ELSE g

ForceEnded(g) ==
  IF IsActive(g)
    THEN [status |-> "idle", generation |-> g.generation + 1]
    ELSE g
=============================================================================
