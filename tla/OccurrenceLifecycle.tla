------------------------- MODULE OccurrenceLifecycle -------------------------
(***************************************************************************)
(* What the scheduler promises about each recorded occurrence, without     *)
(* hosts, leases, epochs or time: it waits, is held by some main, is       *)
(* handed to its handler at most MaxAttempts times, and keeps the verdict  *)
(* it once reached until its row goes away.                                *)
(* This is the status diagram of the scheduler's README with the hidden    *)
(* half of "running" (claimed or already handed to the handler) made       *)
(* visible. ScheduledTasks implements it.                                  *)
(***************************************************************************)
EXTENDS Integers

CONSTANTS Task, MaxAttempts

VARIABLES
  stage,  \* where each occurrence stands
  starts  \* how often its handler was started

lifeVars == <<stage, starts>>

Final == {"succeeded", "failed", "missed", "gone"}

LifeInit ==
  /\ stage = [t \in Task |-> "waiting"]
  /\ starts = [t \in Task |-> 0]

\* A stage change that starts no handler.
MoveStage(t, from, to) ==
  /\ stage[t] \in from
  /\ stage' = [stage EXCEPT ![t] = to]
  /\ UNCHANGED starts

Hold(t) == MoveStage(t, {"waiting"}, "held")
PutBack(t) == MoveStage(t, {"held", "handed"}, "waiting")
Succeed(t) == MoveStage(t, {"handed"}, "succeeded")
Fail(t) == MoveStage(t, {"held", "handed"}, "failed")
Miss(t) == MoveStage(t, {"waiting"}, "missed")
Remove(t) == MoveStage(t, {"waiting", "held", "handed", "succeeded", "failed", "missed"}, "gone")

Hand(t) ==
  /\ stage[t] = "held"
  /\ starts[t] < MaxAttempts
  /\ stage' = [stage EXCEPT ![t] = "handed"]
  /\ starts' = [starts EXCEPT ![t] = starts[t] + 1]

LifeStep(t) ==
  Hold(t) \/ PutBack(t) \/ Hand(t) \/ Succeed(t) \/ Fail(t) \/ Miss(t) \/ Remove(t)

LifeNext == \E t \in Task : LifeStep(t)

LifeSpec == LifeInit /\ [][LifeNext]_lifeVars
=============================================================================
