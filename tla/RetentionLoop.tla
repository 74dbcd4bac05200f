---------------------------- MODULE RetentionLoop ----------------------------
(***************************************************************************)
(* The Loop that repeats a scheduler pass on its jittered timeline, driving *)
(* the retention pass prune() over the finished rows of scheduled_task.     *)
(* Instants are relative to the wall clock: 0 is now.                       *)
(***************************************************************************)
EXTENDS Integers, Sequences, FiniteSets, SequencesExt, FiniteSetsExt, Filtering

CONSTANTS
  Pass,        \* identities of passes alive at once, the abandoned included
  Limit,       \* passes in flight: 1 when sequential, maxConcurrent otherwise
  Interval, Jitter, MaxDelay,  \* spacing, deviation and longest setTimeout delay
  Task,        \* finished occurrences; a name is used again once its row is gone
  WindowOf,    \* 1: succeeded or cancelled, 2: failed or missed
  BatchSize, MaxBatches,
  MaxStall,    \* bound: how late a timer fires
  MaxFaults,   \* bound: statements that hang or are rejected, passes that time out
  NoPass, NoAlarm

ASSUME LoopAssumption ==
  /\ Limit \in Nat \ {0} /\ BatchSize \in Nat \ {0} /\ MaxBatches \in Nat
  /\ Interval \in Nat \ {0} /\ Jitter \in 0..Interval - 1 /\ MaxDelay \in Nat \ {0}
  /\ WindowOf \in [Task -> 1..2]

VARIABLES
  stage,    \* new, running, stopping, stopped
  slot,     \* Timeline.slotAt
  alarm,    \* Alarm: where it aims and when its timer fires
  pass,     \* the passes and their local state between two awaits
  rows,     \* finished rows of each window, oldest first, and the pass holding each
  grid,     \* the next instant on the grid fixed at start, modulo Interval
  burst,    \* ticks since the clock moved
  faults

vars == <<stage, slot, alarm, pass, rows, grid, burst, faults>>
clock == <<grid, burst>>
loop == <<stage, slot, alarm>>

Windows == 2
IdlePass == [pc |-> "idle", inFlight |-> FALSE, aborted |-> FALSE, window |-> 1,
             budget |-> 0, batches |-> 0, affected |-> 0]

Init ==
  /\ stage = "new" /\ slot = 0 /\ alarm = NoAlarm
  /\ pass = [p \in Pass |-> IdlePass]
  /\ rows = [w \in 1..Windows |-> <<>>]
  /\ grid = 0 /\ burst = 0 /\ faults = 0

InFlight == {p \in Pass : pass[p].inFlight}

-----------------------------------------------------------------------------
(* prune: what a pass does between two answers of the store. *)

\* Mutant: no statement is kept for the windows ahead.
BugWindowBudget(r) == IF r.budget <= 0 THEN 0 ELSE r.budget

\* Each window ahead keeps one statement of the budget in reserve.
windowBudget(r) == IF r.budget <= 0 THEN 0 ELSE Max({r.budget - (Windows - r.window), 1})

endWindow(r) == [r EXCEPT !.window = @ + 1, !.budget = @ - r.batches, !.batches = 0]

\* Mutants: one statement too many; the signal is not looked at.
BugMayIssue(r) == r.window <= Windows /\ r.batches <= windowBudget(r) /\ ~r.aborted
BugMayIssueAborted(r) == r.window <= Windows /\ r.batches < windowBudget(r)

mayIssue(r) == r.window <= Windows /\ r.batches < windowBudget(r) /\ ~r.aborted

\* The while loop of pruneWindow and the windows after it, up to the next statement.
issueNext(r) ==
  LET later == endWindow(r) IN
  CASE mayIssue(r) -> [r EXCEPT !.pc = "statement"]
    [] ~mayIssue(r) /\ mayIssue(later) -> [later EXCEPT !.pc = "statement"]
    [] OTHER -> IdlePass

\* A batch that comes back short ends its window.
afterBatch(r) ==
  LET counted == [r EXCEPT !.batches = @ + 1, !.affected = 0]
  IN issueNext(IF r.affected < BatchSize THEN endWindow(counted) ELSE counted)

setPass(p, local) == pass' = [pass EXCEPT ![p] = local]

-----------------------------------------------------------------------------
(* The loop. *)

\* Alarm.set: a delay beyond the longest one is waited out in hops.
aimAt(target) == [target |-> target, fire |-> Min({Max({0, target}), MaxDelay})]

Start ==
  /\ stage = "new"
  /\ stage' = "running"
  /\ \E first \in 0..Interval - 1 :
       /\ slot' = first
       /\ alarm' = aimAt(first)
       /\ grid' = first
  /\ UNCHANGED <<pass, rows, burst, faults>>

\* What a pass is to delete.
dueRows == UNION {{row.task : row \in {x \in Range(rows[w]) : x.due}} : w \in 1..Windows}

\* launch and runOnce, to the pass's first await; a tick with no free slot is dropped.
Launch ==
  IF Cardinality(InFlight) >= Limit THEN UNCHANGED pass
  ELSE \E p \in Pass :
         /\ pass[p].pc = "idle"
         /\ LET r == issueNext([IdlePass EXCEPT !.budget = MaxBatches])
            IN setPass(p, [r EXCEPT !.inFlight = r.pc # "idle"])

\* Mutants: a late tick re-anchors the timeline; slots in the past are kept.
BugNextSlot == Interval
BugNextSlotReplays == slot + Interval

\* Timeline.nextTickAt: slots wholly in the past are skipped.
nextSlot == slot + ((Max({0, -slot}) \div Interval) + 1) * Interval

\* The alarm's timer fires: it was clamped and hops on, or it is a tick, which arms the
\* next one before its pass runs.
FireAlarm ==
  /\ alarm # NoAlarm /\ alarm.fire <= 0
  /\ IF alarm.target > 0
     THEN alarm' = aimAt(alarm.target) /\ UNCHANGED <<slot, pass, burst>>
     ELSE /\ slot' = nextSlot
          /\ \E j \in -Jitter..Jitter : alarm' = aimAt(nextSlot + j)
          /\ burst' = burst + 1
          /\ Launch
  /\ UNCHANGED <<stage, rows, grid, faults>>

\* Mutant: the slot is held until the pass itself settles.
BugTimeOut(p) ==
  /\ pass[p].inFlight
  /\ pass[p].pc = "hung" \/ faults < MaxFaults
  /\ setPass(p, [pass[p] EXCEPT !.aborted = TRUE])
  /\ faults' = IF pass[p].pc = "hung" THEN faults ELSE faults + 1
  /\ UNCHANGED <<loop, rows, clock>>

\* The timeout wins the race: the signal is aborted and the slot freed, and the pass
\* goes on to its next cancellation point.
TimeOut(p) ==
  /\ pass[p].inFlight
  /\ pass[p].pc = "hung" \/ faults < MaxFaults
  /\ setPass(p, [pass[p] EXCEPT !.aborted = TRUE, !.inFlight = FALSE])
  /\ faults' = IF pass[p].pc = "hung" THEN faults ELSE faults + 1
  /\ UNCHANGED <<loop, rows, clock>>

Stop ==
  /\ stage \in {"new", "running"}
  /\ stage' = "stopping" /\ alarm' = NoAlarm
  /\ pass' = [p \in Pass |-> IF pass[p].inFlight THEN [pass[p] EXCEPT !.aborted = TRUE]
                             ELSE pass[p]]
  /\ UNCHANGED <<slot, rows, clock, faults>>

\* Every run in flight has settled or timed out.
StopReturns ==
  /\ stage = "stopping" /\ InFlight = {}
  /\ stage' = "stopped"
  /\ UNCHANGED <<slot, alarm, pass, rows, clock, faults>>

-----------------------------------------------------------------------------
(* deleteFinishedOlderThan: rows other statements hold are skipped. *)

LockRows(p) ==
  /\ pass[p].pc = "statement"
  /\ LET w == pass[p].window
         due == {i \in DOMAIN rows[w] : rows[w][i].due}
         free == {i \in due : rows[w][i].heldBy = NoPass}
         oldest == {i \in free : Cardinality({j \in free : j < i}) < BatchSize}
     IN /\ rows' = [rows EXCEPT ![w] = [i \in DOMAIN rows[w] |->
                       IF i \in oldest THEN [rows[w][i] EXCEPT !.heldBy = p] ELSE rows[w][i]]]
        /\ setPass(p, [pass[p] EXCEPT !.pc = "locked"])
  /\ UNCHANGED <<loop, clock, faults>>

CommitDelete(p) ==
  /\ pass[p].pc = "locked"
  /\ LET w == pass[p].window
         held == {row \in Range(rows[w]) : row.heldBy = p}
     IN /\ rows' = [rows EXCEPT ![w] = Without(@, held)]
        /\ setPass(p, [pass[p] EXCEPT !.pc = "answer", !.affected = Cardinality(held)])
  /\ UNCHANGED <<loop, clock, faults>>

\* The answer arrives: the pass issues another statement, or returns and its run settles.
Answer(p) ==
  /\ pass[p].pc = "answer"
  /\ setPass(p, afterBatch(pass[p]))
  /\ UNCHANGED <<loop, rows, clock, faults>>

\* The statement is rejected: its locks go, the pass rejects and its run settles.
RejectStatement(p) ==
  /\ pass[p].pc \in {"statement", "locked"} /\ faults < MaxFaults
  /\ faults' = faults + 1
  /\ rows' = [w \in 1..Windows |-> [i \in DOMAIN rows[w] |->
                IF rows[w][i].heldBy = p THEN [rows[w][i] EXCEPT !.heldBy = NoPass]
                ELSE rows[w][i]]]
  /\ setPass(p, IdlePass)
  /\ UNCHANGED <<loop, clock>>

\* The store never answers.
HangStatement(p) ==
  /\ pass[p].pc = "statement" /\ faults < MaxFaults
  /\ faults' = faults + 1
  /\ setPass(p, [pass[p] EXCEPT !.pc = "hung"])
  /\ UNCHANGED <<loop, rows, clock>>

-----------------------------------------------------------------------------
(* The environment: occurrences finish, rows grow old, the wall clock moves. *)

Finish(t) ==
  LET w == WindowOf[t] IN
  /\ \A row \in Range(rows[w]) : row.task # t
  /\ rows' = [rows EXCEPT ![w] = Append(@, [task |-> t, due |-> FALSE, heldBy |-> NoPass])]
  /\ UNCHANGED <<loop, pass, clock, faults>>

\* The oldest row inside its window leaves it.
GrowOld(w) ==
  LET young == {i \in DOMAIN rows[w] : ~rows[w][i].due} IN
  /\ young # {}
  /\ rows' = [rows EXCEPT ![w][Min(young)].due = TRUE]
  /\ UNCHANGED <<loop, pass, clock, faults>>

Tick ==
  /\ alarm # NoAlarm /\ alarm.fire > -MaxStall
  /\ grid' = (grid - 1) % Interval
  /\ slot' = slot - 1
  /\ alarm' = [target |-> alarm.target - 1, fire |-> alarm.fire - 1]
  /\ burst' = 0
  /\ UNCHANGED <<stage, pass, rows, faults>>

PassStep(p) == LockRows(p) \/ CommitDelete(p) \/ Answer(p)

Next ==
  \/ Start \/ FireAlarm \/ Stop \/ StopReturns \/ Tick
  \/ \E p \in Pass : PassStep(p) \/ TimeOut(p) \/ RejectStatement(p) \/ HangStatement(p)
  \/ \E t \in Task : Finish(t)
  \/ \E w \in 1..Windows : GrowOld(w)

\* Timers fire and the store answers, unless it hangs; nobody has to stop the loop.
Fairness ==
  /\ WF_vars(Tick) /\ WF_vars(FireAlarm) /\ WF_vars(StopReturns)
  /\ \A p \in Pass : WF_vars(PassStep(p)) /\ WF_vars(pass[p].pc = "hung" /\ TimeOut(p))

Spec == Init /\ [][Next]_vars /\ Fairness

-----------------------------------------------------------------------------
(* Properties. *)

\* Every field is in its range, the statement a pass waits for is within its budget, and
\* only a live statement holds rows.
TypeOK ==
  /\ stage \in {"new", "running", "stopping", "stopped"}
  /\ slot \in Int /\ (alarm = NoAlarm \/ alarm \in [target : Int, fire : Int])
  /\ \A p \in Pass :
       /\ pass[p].pc \in {"idle", "statement", "locked", "answer", "hung"}
       /\ pass[p].window \in 1..Windows /\ pass[p].budget \in 0..MaxBatches
       /\ pass[p].pc # "idle" => pass[p].batches < pass[p].budget
  /\ \A w \in 1..Windows : \A row \in Range(rows[w]) :
       row.heldBy # NoPass => row.due /\ pass[row.heldBy].pc = "locked"

\* A stalled process fires a late tick and at most the next slot's early one; it does
\* not replay the slots it slept through.
NoBurst == burst <= 2

\* However late ticks fire and however long passes take, the slots stay on the grid
\* fixed at start.
CadenceKept == stage = "running" => slot % Interval = grid

\* A pass told to abort lands at most the statement it has already issued.
AbortedIssuesNothing ==
  [][\A p \in Pass : pass[p].aborted /\ pass'[p].pc = "statement" =>
       pass[p].pc = "statement"]_vars

\* stop() resolves even when a pass's statement never comes back.
StopResolves == stage = "stopping" ~> stage = "stopped"

\* A row past its window is deleted in the end, while the other window is kept full by
\* occurrences that go on finishing.
FinishedRowsGo ==
  \A t \in Task : t \in dueRows ~> (t \notin dueRows \/ stage # "running")

-----------------------------------------------------------------------------
(* The inductive invariant behind the safety theorems. *)

PassLocal == [pc : {"idle", "statement", "locked", "answer", "hung"},
              inFlight : BOOLEAN, aborted : BOOLEAN, window : 1..Windows,
              budget : 0..MaxBatches, batches : Nat, affected : Nat]
Row == [task : Task, due : BOOLEAN, heldBy : Pass \cup {NoPass}]

Shapes == /\ pass \in [Pass -> PassLocal] /\ rows \in [1..Windows -> Seq(Row)]
          /\ grid \in 0..Interval - 1 /\ burst \in Nat /\ faults \in Nat

\* A pass that has returned is in nobody's way.
IdleIsFresh == \A p \in Pass : pass[p].pc = "idle" => ~pass[p].inFlight /\ ~pass[p].aborted

\* A statement holds rows of the window its pass is in, and no other.
HeldInWindow ==
  \A w \in 1..Windows : \A row \in Range(rows[w]) :
    row.heldBy # NoPass => row.heldBy \in Pass /\ pass[row.heldBy].window = w

\* A tick leaves the slot ahead of the clock, and a second one the alarm too.
TicksAhead ==
  /\ stage = "new" => burst = 0 /\ alarm = NoAlarm
  /\ burst >= 1 => slot >= 1
  /\ burst >= 2 /\ alarm # NoAlarm => alarm.target > 0

IInv == /\ TypeOK /\ Shapes /\ IdleIsFresh /\ HeldInWindow /\ TicksAhead
        /\ NoBurst /\ CadenceKept
=============================================================================
