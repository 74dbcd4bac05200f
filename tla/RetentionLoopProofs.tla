------------------------- MODULE RetentionLoopProofs -------------------------
(***************************************************************************)
(* Theorems about RetentionLoop: the loop keeps its cadence and never       *)
(* replays the ticks it slept through, a pass spends no more statements     *)
(* than its budget, and a pass told to abort issues none.                   *)
(***************************************************************************)
EXTENDS RetentionLoop, CollectionLemmas

-----------------------------------------------------------------------------
\* The inductive invariant, grouped by what a step changes: passes, rows, the loop.

\* A pass waiting for a statement has one to spend; one that has returned is fresh.
PassOK(r) == /\ r.pc # "idle" => r.batches < r.budget
             /\ r.pc = "idle" => ~r.inFlight /\ ~r.aborted

PassesOK == pass \in [Pass -> PassLocal] /\ \A p \in Pass : PassOK(pass[p])

\* Rows of window w, under the passes of the function all: only a live statement in that
\* window holds one, and only one that is due.
HeldOK(w, row, all) ==
  row.heldBy # NoPass => /\ row.heldBy \in Pass /\ row.due
                         /\ all[row.heldBy].pc = "locked" /\ all[row.heldBy].window = w

RowsOK == /\ rows \in [1..Windows -> Seq(Row)]
          /\ \A w \in 1..Windows : \A row \in Range(rows[w]) : HeldOK(w, row, pass)

LoopOK == /\ stage \in {"new", "running", "stopping", "stopped"}
          /\ slot \in Int /\ (alarm = NoAlarm \/ alarm \in [target : Int, fire : Int])
          /\ grid \in 0..Interval - 1 /\ burst \in Nat
          /\ TicksAhead /\ NoBurst /\ CadenceKept

\* The three groups are the invariant.
LEMMA Groups == IInv <=> PassesOK /\ RowsOK /\ LoopOK /\ faults \in Nat
<1>1. IInv => PassesOK BY DEF IInv, TypeOK, Shapes, IdleIsFresh, PassesOK, PassOK
<1>2. IInv => RowsOK BY DEF IInv, TypeOK, Shapes, HeldInWindow, RowsOK, HeldOK
<1>3. IInv => LoopOK /\ faults \in Nat BY DEF IInv, TypeOK, Shapes, LoopOK
<1>4. ASSUME PassesOK, RowsOK, LoopOK, faults \in Nat PROVE IInv
  <2>1. Shapes BY <1>4 DEF Shapes, PassesOK, RowsOK, LoopOK
  <2>2. IdleIsFresh BY <1>4 DEF IdleIsFresh, PassesOK, PassOK
  <2>3. HeldInWindow BY <1>4 DEF HeldInWindow, RowsOK, HeldOK
  <2>4. TypeOK
    <3>1. \A p \in Pass :
            /\ pass[p].pc \in {"idle", "statement", "locked", "answer", "hung"}
            /\ pass[p].window \in 1..Windows /\ pass[p].budget \in 0..MaxBatches
            /\ pass[p].pc # "idle" => pass[p].batches < pass[p].budget
      BY <1>4 DEF PassesOK, PassOK, PassLocal
    <3>2. \A w \in 1..Windows : \A row \in Range(rows[w]) :
            row.heldBy # NoPass => row.due /\ pass[row.heldBy].pc = "locked"
      BY <1>4 DEF RowsOK, HeldOK
    <3> QED BY <1>4, <3>1, <3>2 DEF LoopOK, TypeOK
  <2> QED BY <1>4, <2>1, <2>2, <2>3, <2>4 DEF IInv, LoopOK
<1> QED BY <1>1, <1>2, <1>3, <1>4

\* And they are after a step.
LEMMA Regrouped == PassesOK' /\ RowsOK' /\ LoopOK' /\ faults' \in Nat => IInv'
<1>1. (IInv <=> PassesOK /\ RowsOK /\ LoopOK /\ faults \in Nat)' BY Groups, PTL
<1> QED BY <1>1

\* A step that leaves passes, rows or the loop alone keeps what is said of them.
LEMMA LoopKept == ASSUME LoopOK, UNCHANGED <<loop, clock>> PROVE LoopOK'
BY DEF LoopOK, loop, clock, TicksAhead, NoBurst, CadenceKept

\* The same for a step that leaves the rows and what the holders of rows are doing alone.
LEMMA RowsKept ==
  ASSUME RowsOK, UNCHANGED rows,
         \A p \in Pass : pass[p].pc = "locked" =>
                           pass'[p].pc = "locked" /\ pass'[p].window = pass[p].window
  PROVE  RowsOK'
BY DEF RowsOK, HeldOK

\* One pass moves.
LEMMA OnePassMoves ==
  ASSUME PassesOK, NEW p \in Pass, NEW r \in PassLocal, PassOK(r), setPass(p, r)
  PROVE  /\ PassesOK' /\ pass'[p] = r
         /\ \A q \in Pass \ {p} : pass'[q] = pass[q]
<1>1. pass' = [pass EXCEPT ![p] = r] /\ pass \in [Pass -> PassLocal]
  BY DEF setPass, PassesOK
<1>2. pass' \in [Pass -> PassLocal] /\ pass'[p] = r /\ \A q \in Pass \ {p} : pass'[q] = pass[q]
  BY <1>1
<1>3. \A q \in Pass : PassOK(pass[q]) BY DEF PassesOK
<1>4. \A q \in Pass : PassOK(pass'[q]) BY <1>2, <1>3
<1> QED BY <1>2, <1>4 DEF PassesOK

-----------------------------------------------------------------------------
\* prune.

\* A pass between two statements: the windows may all be behind it.
Candidate == [pc : {"idle", "statement", "locked", "answer", "hung"},
              inFlight : BOOLEAN, aborted : BOOLEAN, window : 1..Windows + 1,
              budget : 0..MaxBatches, batches : Nat, affected : Nat]

\* No window has more than what is left of the budget.
LEMMA WithinBudget ==
  ASSUME NEW r, r.window \in Nat, r.window <= Windows, r.budget \in Nat
  PROVE  windowBudget(r) \in Nat /\ windowBudget(r) <= r.budget
<1> DEFINE spare == r.budget - (Windows - r.window)
<1>1. spare \in Int /\ spare <= r.budget BY DEF Windows
<1> HIDE DEF spare
<1>2. Max({spare, 1}) = IF spare >= 1 THEN spare ELSE 1 BY <1>1, MaxOfTwo
<1> QED BY <1>1, <1>2 DEF windowBudget, spare

\* What endWindow leaves.
LEMMA EndWindow ==
  ASSUME NEW r \in Candidate, r.batches <= r.budget
  PROVE  /\ endWindow(r).window = r.window + 1
         /\ endWindow(r).budget \in 0..MaxBatches /\ endWindow(r).batches = 0
         /\ endWindow(r).inFlight = r.inFlight /\ endWindow(r).aborted = r.aborted
         /\ r.window <= Windows => endWindow(r) \in Candidate
<1> DEFINE e == endWindow(r)
<1>1. MaxBatches \in Nat BY LoopAssumption
<1>2. /\ r.window \in 1..3 /\ r.budget \in 0..MaxBatches /\ r.batches \in Nat
      /\ r.budget - r.batches \in 0..MaxBatches
  BY <1>1 DEF Candidate, Windows
<1>3. /\ e.pc = r.pc /\ e.window = r.window + 1 /\ e.budget = r.budget - r.batches /\ e.batches = 0
      /\ e.inFlight = r.inFlight /\ e.aborted = r.aborted /\ e.affected = r.affected
  BY DEF endWindow, Candidate
<1>4. ASSUME r.window <= Windows PROVE e \in Candidate
  <2>1. r.window + 1 \in 1..Windows + 1 BY <1>2, <1>4 DEF Windows
  <2> QED BY <1>2, <2>1 DEF endWindow, Candidate
<1> QED BY <1>2, <1>3, <1>4

\* A pass goes on to a statement it has the budget for, unless it was told to abort, or it
\* returns.
LEMMA IssueNext ==
  ASSUME NEW r \in Candidate, r.batches <= r.budget
  PROVE  /\ issueNext(r) \in PassLocal
         /\ issueNext(r) = IdlePass \/ /\ issueNext(r).pc = "statement" /\ ~r.aborted
                                       /\ issueNext(r).batches < issueNext(r).budget
                                       /\ issueNext(r).inFlight = r.inFlight
<1> DEFINE later == endWindow(r)
<1>1. MaxBatches \in Nat BY LoopAssumption
<1>2. IdlePass \in PassLocal BY <1>1 DEF IdlePass, PassLocal, Windows
<1>3. CASE mayIssue(r)
  <2>1. issueNext(r) = [r EXCEPT !.pc = "statement"] BY <1>3 DEF issueNext
  <2>2. r.window \in 1..Windows /\ r.budget \in Nat /\ r.window \in Nat /\ r.batches \in Nat
    BY <1>3 DEF mayIssue, Candidate, Windows
  <2>3. r.batches < r.budget BY <1>3, <2>2, WithinBudget DEF mayIssue
  <2>4. issueNext(r) \in PassLocal BY <2>1, <2>2 DEF Candidate, PassLocal
  <2>5. /\ issueNext(r).pc = "statement" /\ issueNext(r).batches = r.batches
        /\ issueNext(r).budget = r.budget /\ issueNext(r).inFlight = r.inFlight
    BY <2>1 DEF Candidate
  <2> QED BY <1>3, <2>3, <2>4, <2>5 DEF mayIssue
<1>4. CASE ~mayIssue(r) /\ mayIssue(later)
  <2>1. issueNext(r) = [later EXCEPT !.pc = "statement"] BY <1>4 DEF issueNext
  <2>2. later.window <= Windows BY <1>4 DEF mayIssue
  <2>3. later.window = r.window + 1 /\ r.window \in 1..3 BY EndWindow DEF Candidate, Windows
  <2>4. later \in Candidate /\ later.aborted = r.aborted /\ later.inFlight = r.inFlight
    BY <2>2, <2>3, EndWindow DEF Windows
  <2> HIDE DEF later
  <2>5. later.window \in 1..Windows /\ later.budget \in Nat /\ later.window \in Nat /\ later.batches \in Nat
    BY <2>2, <2>4 DEF Candidate, Windows
  <2>6. later.batches < later.budget BY <1>4, <2>5, WithinBudget DEF mayIssue
  <2>7. issueNext(r) \in PassLocal BY <2>1, <2>4, <2>5 DEF Candidate, PassLocal
  <2>8. /\ issueNext(r).pc = "statement" /\ issueNext(r).batches = later.batches
        /\ issueNext(r).budget = later.budget /\ issueNext(r).inFlight = later.inFlight
    BY <2>1, <2>4 DEF Candidate
  <2> QED BY <1>4, <2>4, <2>6, <2>7, <2>8 DEF mayIssue
<1>5. CASE ~mayIssue(r) /\ ~mayIssue(later)
  <2>1. issueNext(r) = IdlePass BY <1>5 DEF issueNext
  <2> QED BY <1>2, <2>1
<1> QED BY <1>3, <1>4, <1>5

\* So does one whose answer has arrived.
LEMMA AfterBatch ==
  ASSUME NEW r \in PassLocal, r.batches < r.budget
  PROVE  /\ afterBatch(r) \in PassLocal /\ PassOK(afterBatch(r))
         /\ r.aborted => afterBatch(r).pc = "idle"
<1> DEFINE counted == [r EXCEPT !.batches = @ + 1, !.affected = 0]
           next == IF r.affected < BatchSize THEN endWindow(counted) ELSE counted
<1>1. counted \in Candidate
  <2>1. r.window \in 1..Windows + 1 /\ r.batches + 1 \in Nat BY DEF PassLocal, Windows
  <2>2. r \in Candidate BY <2>1 DEF PassLocal, Candidate
  <2> QED BY <2>1, <2>2 DEF Candidate
<1>2. counted.batches = r.batches + 1 /\ counted.aborted = r.aborted
      /\ counted.budget = r.budget /\ counted.window = r.window BY DEF PassLocal
<1>3. counted.batches <= counted.budget /\ counted.window <= Windows
  BY <1>2, LoopAssumption DEF PassLocal, Windows
<1> HIDE DEF counted
<1>4. next \in Candidate /\ next.batches <= next.budget /\ next.aborted = r.aborted
  BY <1>1, <1>2, <1>3, EndWindow
<1>5. afterBatch(r) = issueNext(next) BY DEF afterBatch, counted
<1> HIDE DEF next
<1>6. IdlePass.pc = "idle" /\ ~IdlePass.inFlight /\ ~IdlePass.aborted BY DEF IdlePass
<1> QED BY <1>4, <1>5, <1>6, IssueNext DEF PassOK

-----------------------------------------------------------------------------
\* The actions of a pass.

\* The statement locks rows that nobody holds.
LEMMA LockRowsInv ==
  ASSUME IInv, NEW p \in Pass, LockRows(p) PROVE IInv'
<1> DEFINE r == [pass[p] EXCEPT !.pc = "locked"]
           w == pass[p].window
           due == {i \in DOMAIN rows[w] : rows[w][i].due}
           free == {i \in due : rows[w][i].heldBy = NoPass}
           oldest == {i \in free : Cardinality({j \in free : j < i}) < BatchSize}
           held == [i \in DOMAIN rows[w] |->
                      IF i \in oldest THEN [rows[w][i] EXCEPT !.heldBy = p] ELSE rows[w][i]]
<1>1. PassesOK /\ RowsOK /\ LoopOK /\ faults \in Nat BY Groups
<1>2. pass[p].pc = "statement" /\ rows' = [rows EXCEPT ![w] = held] /\ setPass(p, r)
      /\ UNCHANGED <<loop, clock, faults>>
  BY DEF LockRows
<1>3. pass[p] \in PassLocal /\ PassOK(pass[p]) /\ w \in 1..Windows BY <1>1 DEF PassesOK, PassLocal
<1>4. r \in PassLocal /\ PassOK(r) /\ r.pc = "locked" /\ r.window = w
  BY <1>2, <1>3 DEF PassLocal, PassOK
<1> HIDE DEF r
<1>5. /\ PassesOK' /\ pass'[p] = r /\ \A q \in Pass \ {p} : pass'[q] = pass[q]
  BY <1>1, <1>2, <1>4, OnePassMoves
<1>6. rows \in [1..Windows -> Seq(Row)] /\ rows[w] \in Seq(Row) BY <1>1, <1>3 DEF RowsOK
<1>7. DOMAIN rows[w] = 1..Len(rows[w]) /\ Len(rows[w]) \in Nat
      /\ \A i \in DOMAIN rows[w] : rows[w][i] \in Row
  BY <1>6
<1>8. \A i \in DOMAIN rows[w] :
        /\ held[i] \in Row
        /\ held[i] = rows[w][i] \/ (rows[w][i].due /\ held[i].due /\ held[i].heldBy = p)
  <2> HIDE DEF w
  <2> SUFFICES ASSUME NEW i \in DOMAIN rows[w]
               PROVE  /\ held[i] \in Row
                      /\ held[i] = rows[w][i] \/ (rows[w][i].due /\ held[i].due /\ held[i].heldBy = p)
    OBVIOUS
  <2>1. CASE i \in oldest
    <3>1. rows[w][i].due /\ rows[w][i] \in Row BY <1>7, <2>1
    <3>2. held[i] = [rows[w][i] EXCEPT !.heldBy = p] BY <2>1
    <3> HIDE DEF held, oldest
    <3> QED BY <3>1, <3>2 DEF Row
  <2>2. CASE i \notin oldest
    <3>1. held[i] = rows[w][i] BY <2>2
    <3> HIDE DEF held, oldest
    <3> QED BY <1>7, <3>1
  <2> QED BY <2>1, <2>2
<1>9. DOMAIN held = DOMAIN rows[w] OBVIOUS
<1> HIDE DEF held
<1>10. held \in Seq(Row)
  <2>1. held \in [1..Len(rows[w]) -> Row]
    <3>1. held = [i \in DOMAIN held |-> held[i]] BY DEF held
    <3> QED BY <1>7, <1>8, <1>9, <3>1
  <2> QED BY <1>7, <2>1, SeqDef
<1>11. rows' \in [1..Windows -> Seq(Row)] /\ rows'[w] = held
       /\ \A v \in 1..Windows : v # w => rows'[v] = rows[v]
  BY <1>2, <1>3, <1>6, <1>10
<1>12. ASSUME NEW v \in 1..Windows, NEW row \in Range(rows'[v]) PROVE HeldOK(v, row, pass')
  <2>1. CASE row \in Range(rows[v])
    <3>1. HeldOK(v, row, pass) BY <1>1, <2>1 DEF RowsOK
    <3> QED BY <1>2, <1>5, <3>1 DEF HeldOK
  <2>2. CASE v = w /\ row.heldBy = p /\ row.due
    BY <1>4, <1>5, <2>2 DEF HeldOK
  <2>3. v = w => row \in Range(rows[v]) \/ (row.heldBy = p /\ row.due)
    <3> SUFFICES ASSUME v = w PROVE row \in Range(rows[v]) \/ (row.heldBy = p /\ row.due)
      OBVIOUS
    <3>1. PICK i \in DOMAIN held : row = held[i] BY <1>11 DEF Range
    <3>2. rows[w][i] \in Range(rows[w]) BY <1>9 DEF Range
    <3> QED BY <1>8, <1>9, <3>1, <3>2
  <2>4. v # w => row \in Range(rows[v]) BY <1>11
  <2> QED BY <2>1, <2>2, <2>3, <2>4
<1>13. RowsOK' BY <1>11, <1>12 DEF RowsOK
<1>14. LoopOK' /\ faults' \in Nat BY <1>1, <1>2, LoopKept
<1> QED BY <1>5, <1>13, <1>14, Regrouped

\* The answer of a committed statement finds none of its locks left.
LEMMA CommitDeleteInv ==
  ASSUME IInv, NEW p \in Pass, CommitDelete(p) PROVE IInv'
<1> DEFINE w == pass[p].window
           held == {row \in Range(rows[w]) : row.heldBy = p}
           r == [pass[p] EXCEPT !.pc = "answer", !.affected = Cardinality(held)]
<1>1. PassesOK /\ RowsOK /\ LoopOK /\ faults \in Nat BY Groups
<1>2. pass[p].pc = "locked" /\ rows' = [rows EXCEPT ![w] = Without(rows[w], held)]
      /\ setPass(p, r) /\ UNCHANGED <<loop, clock, faults>>
  BY DEF CommitDelete
<1>3. pass[p] \in PassLocal /\ PassOK(pass[p]) /\ w \in 1..Windows BY <1>1 DEF PassesOK, PassLocal
<1>4. rows \in [1..Windows -> Seq(Row)] /\ rows[w] \in Seq(Row) BY <1>1, <1>3 DEF RowsOK
<1>5. Cardinality(held) \in Nat
  <2> DEFINE all == Range(rows[w])
  <2>1. IsFiniteSet(all) BY <1>4, RangeFinite
  <2>2. held \subseteq all OBVIOUS
  <2> HIDE DEF held, all
  <2> QED BY <2>1, <2>2, FS_Subset, FS_CardinalityType
<1> HIDE DEF w
<1>6. Without(rows[w], held) \in Seq(Row) /\ Range(Without(rows[w], held)) = Range(rows[w]) \ held
  <2> HIDE DEF held
  <2> QED BY <1>4, WithoutElements
<1>7. r \in PassLocal /\ PassOK(r)
  <2> HIDE DEF held
  <2> QED BY <1>2, <1>3, <1>5 DEF PassLocal, PassOK
<1> HIDE DEF r
<1>8. /\ PassesOK' /\ pass'[p] = r /\ \A q \in Pass \ {p} : pass'[q] = pass[q]
  BY <1>1, <1>2, <1>7, OnePassMoves
<1>9. rows' \in [1..Windows -> Seq(Row)] /\ Range(rows'[w]) = Range(rows[w]) \ held
       /\ \A v \in 1..Windows : v # w => rows'[v] = rows[v]
  BY <1>2, <1>3, <1>4, <1>6
<1>10. ASSUME NEW v \in 1..Windows, NEW row \in Range(rows'[v]) PROVE HeldOK(v, row, pass')
  <2>1. row \in Range(rows[v]) /\ (v = w => row \notin held) BY <1>9
  <2>2. HeldOK(v, row, pass) BY <1>1, <2>1 DEF RowsOK
  <2>3. row.heldBy = p /\ p # NoPass => v = w BY <2>2 DEF HeldOK, w
  <2>4. row.heldBy = p => row.heldBy = NoPass BY <2>1, <2>3
  <2> HIDE DEF held
  <2> QED BY <1>8, <2>2, <2>4 DEF HeldOK
<1>11. RowsOK' BY <1>9, <1>10 DEF RowsOK
<1>12. LoopOK' /\ faults' \in Nat BY <1>1, <1>2, LoopKept
<1> QED BY <1>8, <1>11, <1>12, Regrouped

\* A pass moves on from a statement that holds nothing.
LEMMA PassMovesInv ==
  ASSUME IInv, NEW p \in Pass, NEW r \in PassLocal, PassOK(r), setPass(p, r),
         pass[p].pc = "locked" => r.pc = "locked" /\ r.window = pass[p].window,
         UNCHANGED <<loop, rows, clock>>, faults' \in Nat
  PROVE  IInv'
<1>1. PassesOK /\ RowsOK /\ LoopOK BY Groups
<1>2. /\ PassesOK' /\ pass'[p] = r /\ \A q \in Pass \ {p} : pass'[q] = pass[q]
  BY <1>1, OnePassMoves
<1>3. \A q \in Pass : pass[q].pc = "locked" =>
                         pass'[q].pc = "locked" /\ pass'[q].window = pass[q].window
  BY <1>2
<1>4. RowsOK' BY <1>1, <1>3, RowsKept
<1>5. LoopOK' BY <1>1, LoopKept
<1> QED BY <1>2, <1>4, <1>5, Regrouped

\* The answer.
LEMMA AnswerInv ==
  ASSUME IInv, NEW p \in Pass, Answer(p) PROVE IInv'
<1>1. PassesOK /\ faults \in Nat BY Groups
<1>2. /\ pass[p].pc = "answer" /\ setPass(p, afterBatch(pass[p]))
      /\ UNCHANGED <<loop, rows, clock, faults>>
  BY DEF Answer
<1>3. pass[p] \in PassLocal /\ pass[p].batches < pass[p].budget BY <1>1, <1>2 DEF PassesOK, PassOK
<1>4. PICK r : r = afterBatch(pass[p]) OBVIOUS
<1>5. r \in PassLocal /\ PassOK(r) BY <1>3, <1>4, AfterBatch
<1> QED BY <1>1, <1>2, <1>4, <1>5, PassMovesInv

\* The timeout.
LEMMA TimeOutInv ==
  ASSUME IInv, NEW p \in Pass, TimeOut(p) PROVE IInv'
<1> DEFINE r == [pass[p] EXCEPT !.aborted = TRUE, !.inFlight = FALSE]
<1>1. PassesOK /\ faults \in Nat BY Groups
<1>2. pass[p].inFlight /\ setPass(p, r) /\ UNCHANGED <<loop, rows, clock>> /\ faults' \in Nat
  BY <1>1 DEF TimeOut
<1>3. pass[p] \in PassLocal /\ PassOK(pass[p]) BY <1>1 DEF PassesOK
<1>4. r \in PassLocal /\ PassOK(r) /\ r.pc = pass[p].pc /\ r.window = pass[p].window
  BY <1>2, <1>3 DEF PassLocal, PassOK
<1> HIDE DEF r
<1> QED BY <1>2, <1>4, PassMovesInv

\* A statement that is never answered.
LEMMA HangStatementInv ==
  ASSUME IInv, NEW p \in Pass, HangStatement(p) PROVE IInv'
<1> DEFINE r == [pass[p] EXCEPT !.pc = "hung"]
<1>1. PassesOK /\ faults \in Nat BY Groups
<1>2. pass[p].pc = "statement" /\ setPass(p, r) /\ UNCHANGED <<loop, rows, clock>> /\ faults' \in Nat
  BY <1>1 DEF HangStatement
<1>3. pass[p] \in PassLocal /\ PassOK(pass[p]) BY <1>1 DEF PassesOK
<1>4. r \in PassLocal /\ PassOK(r) BY <1>2, <1>3 DEF PassLocal, PassOK
<1> HIDE DEF r
<1> QED BY <1>2, <1>4, PassMovesInv

\* A rejected statement gives its locks up.
LEMMA RejectStatementInv ==
  ASSUME IInv, NEW p \in Pass, RejectStatement(p) PROVE IInv'
<1> DEFINE let(w, i) == IF rows[w][i].heldBy = p THEN [rows[w][i] EXCEPT !.heldBy = NoPass]
                        ELSE rows[w][i]
<1>1. PassesOK /\ RowsOK /\ LoopOK /\ faults \in Nat BY Groups
<1>2. /\ rows' = [w \in 1..Windows |-> [i \in DOMAIN rows[w] |-> let(w, i)]]
      /\ setPass(p, IdlePass) /\ UNCHANGED <<loop, clock>> /\ faults' \in Nat
  BY <1>1 DEF RejectStatement
<1>3. IdlePass \in PassLocal /\ PassOK(IdlePass)
  BY LoopAssumption DEF IdlePass, PassLocal, Windows, PassOK
<1>4. PassesOK' /\ \A q \in Pass \ {p} : pass'[q] = pass[q]
  <2>1. PICK r : r = IdlePass OBVIOUS
  <2> QED BY <1>1, <1>2, <1>3, <2>1, OnePassMoves
<1>5. ASSUME NEW w \in 1..Windows, NEW i \in DOMAIN rows[w]
      PROVE  let(w, i) \in Row /\ HeldOK(w, let(w, i), pass')
  <2>1. rows[w] \in Seq(Row) /\ rows[w][i] \in Range(rows[w]) BY <1>1 DEF RowsOK, Range
  <2>2. rows[w][i] \in Row BY <2>1, RangeInType
  <2>3. HeldOK(w, rows[w][i], pass) BY <1>1, <2>1 DEF RowsOK
  <2>4. CASE rows[w][i].heldBy = p
    <3>1. let(w, i) = [rows[w][i] EXCEPT !.heldBy = NoPass] BY <2>4
    <3>2. let(w, i) \in Row /\ let(w, i).heldBy = NoPass BY <2>2, <3>1 DEF Row
    <3> QED BY <3>2 DEF HeldOK
  <2>5. CASE rows[w][i].heldBy # p
    <3>1. let(w, i) = rows[w][i] BY <2>5
    <3> HIDE DEF let
    <3> QED BY <1>4, <2>2, <2>3, <2>5, <3>1 DEF HeldOK
  <2> QED BY <2>4, <2>5
<1>6. ASSUME NEW w \in 1..Windows PROVE rows'[w] \in Seq(Row) /\ \A row \in Range(rows'[w]) : HeldOK(w, row, pass')
  <2>1. rows[w] \in Seq(Row) BY <1>1 DEF RowsOK
  <2>2. DOMAIN rows[w] = 1..Len(rows[w]) /\ Len(rows[w]) \in Nat BY <2>1
  <2> HIDE DEF let
  <2>3. rows'[w] = [i \in DOMAIN rows[w] |-> let(w, i)] BY <1>2
  <2>4. rows'[w] \in [1..Len(rows[w]) -> Row] BY <1>5, <2>2, <2>3
  <2>5. rows'[w] \in Seq(Row) BY <2>2, <2>4, SeqDef
  <2>6. ASSUME NEW row \in Range(rows'[w]) PROVE HeldOK(w, row, pass')
    <3>1. PICK i \in DOMAIN rows[w] : row = let(w, i) BY <2>3 DEF Range
    <3> QED BY <1>5, <3>1
  <2> QED BY <2>5, <2>6
<1>7. rows' \in [1..Windows -> Seq(Row)]
  <2>1. rows' = [w \in 1..Windows |-> rows'[w]] BY <1>2
  <2> QED BY <1>6, <2>1
<1>8. RowsOK' BY <1>6, <1>7 DEF RowsOK
<1>9. LoopOK' BY <1>1, <1>2, LoopKept
<1> QED BY <1>2, <1>4, <1>8, <1>9, Regrouped

-----------------------------------------------------------------------------
\* The environment.

\* A step of the environment on one window's rows.
LEMMA RowsMove ==
  ASSUME IInv, NEW w \in 1..Windows, NEW s \in Seq(Row),
         \A row \in Range(s) : HeldOK(w, row, pass),
         rows' = [rows EXCEPT ![w] = s], UNCHANGED <<loop, pass, clock, faults>>
  PROVE  IInv'
<1>1. PassesOK /\ RowsOK /\ LoopOK /\ faults \in Nat BY Groups
<1>2. rows' \in [1..Windows -> Seq(Row)] /\ rows'[w] = s /\ \A v \in 1..Windows : v # w => rows'[v] = rows[v]
  BY <1>1 DEF RowsOK
<1>3. \A v \in 1..Windows : \A row \in Range(rows'[v]) : HeldOK(v, row, pass)
  <2>1. \A v \in 1..Windows : \A row \in Range(rows[v]) : HeldOK(v, row, pass) BY <1>1 DEF RowsOK
  <2> QED BY <1>2, <2>1
<1>4. RowsOK' BY <1>2, <1>3 DEF RowsOK, HeldOK
<1>5. PassesOK' BY <1>1 DEF PassesOK, PassOK
<1>6. LoopOK' BY <1>1, LoopKept
<1> QED BY <1>1, <1>4, <1>5, <1>6, Regrouped

\* A row that has just finished is held by nobody.
LEMMA FinishInv ==
  ASSUME IInv, NEW t \in Task, Finish(t) PROVE IInv'
<1> DEFINE row == [task |-> t, due |-> FALSE, heldBy |-> NoPass]
<1>1. RowsOK BY Groups
<1>2. PICK w \in 1..Windows : w = WindowOf[t] BY LoopAssumption DEF Windows
<1>3. rows' = [rows EXCEPT ![w] = Append(rows[w], row)] /\ UNCHANGED <<loop, pass, clock, faults>>
  BY <1>2 DEF Finish
<1>4. row \in Row /\ HeldOK(w, row, pass) BY DEF Row, HeldOK
<1> HIDE DEF row
<1>5. rows[w] \in Seq(Row) /\ \A x \in Range(rows[w]) : HeldOK(w, x, pass) BY <1>1 DEF RowsOK
<1>6. PICK s : s = Append(rows[w], row) OBVIOUS
<1>7. s \in Seq(Row) /\ Range(s) = Range(rows[w]) \cup {row} BY <1>4, <1>5, <1>6, RangeOfAppend
<1>8. \A x \in Range(s) : HeldOK(w, x, pass) BY <1>4, <1>5, <1>7
<1> QED BY <1>3, <1>6, <1>7, <1>8, RowsMove

\* A row grows old where it stands.
LEMMA GrowOldInv ==
  ASSUME IInv, NEW w \in 1..Windows, GrowOld(w) PROVE IInv'
<1> DEFINE young == {i \in DOMAIN rows[w] : ~rows[w][i].due}
           old == [rows[w][Min(young)] EXCEPT !.due = TRUE]
           s == [rows[w] EXCEPT ![Min(young)] = old]
<1>1. RowsOK BY Groups
<1>2. rows[w] \in Seq(Row) /\ \A x \in Range(rows[w]) : HeldOK(w, x, pass) BY <1>1 DEF RowsOK
<1>3. DOMAIN rows[w] = 1..Len(rows[w]) /\ Len(rows[w]) \in Nat BY <1>2
<1>4. Min(young) \in young
  <2>1. young # {} /\ young \in SUBSET Nat BY <1>3 DEF GrowOld
  <2> HIDE DEF young
  <2> QED BY <2>1, MinOfNats
<1>5. PICK m \in DOMAIN rows[w] : m = Min(young) BY <1>4
<1>6. rows' = [rows EXCEPT ![w] = s] /\ UNCHANGED <<loop, pass, clock, faults>>
  BY DEF GrowOld
<1>7. rows[w][m] \in Row /\ HeldOK(w, rows[w][m], pass) BY <1>2, <1>3 DEF Range
<1>8. old \in Row /\ HeldOK(w, old, pass)
  <2>1. old = [rows[w][m] EXCEPT !.due = TRUE] BY <1>5
  <2>2. old \in Row /\ old.due /\ old.heldBy = rows[w][m].heldBy BY <1>7, <2>1 DEF Row
  <2> HIDE DEF old
  <2> QED BY <1>7, <2>2 DEF HeldOK
<1>9. s = [rows[w] EXCEPT ![m] = old] BY <1>5
<1> HIDE DEF s, old, young
<1>10. s \in Seq(Row) /\ \A x \in Range(s) : x = old \/ x \in Range(rows[w])
  <2>1. rows[w] \in [1..Len(rows[w]) -> Row] BY <1>2, <1>3
  <2>2. s \in [1..Len(rows[w]) -> Row] BY <1>3, <1>8, <1>9, <2>1
  <2>3. s \in Seq(Row) BY <1>3, <2>2, SeqDef
  <2>4. \A x \in Range(s) : x = old \/ x \in Range(rows[w]) BY <1>3, <1>9, <2>1, <2>2 DEF Range
  <2> QED BY <2>3, <2>4
<1>11. \A x \in Range(s) : HeldOK(w, x, pass) BY <1>2, <1>8, <1>10
<1> QED BY <1>6, <1>10, <1>11, RowsMove

-----------------------------------------------------------------------------
\* The loop.

\* An alarm aims at its target.
LEMMA AimAt ==
  ASSUME NEW target \in Int
  PROVE  aimAt(target) \in [target : Int, fire : Int] /\ aimAt(target).target = target
<1>1. PICK later : later = Max({0, target}) OBVIOUS
<1>2. later \in Int BY <1>1, MaxOfTwo
<1>3. MaxDelay \in Int BY LoopAssumption
<1>4. PICK delay : delay = Min({later, MaxDelay}) OBVIOUS
<1>5. delay \in Int BY <1>2, <1>3, <1>4, MinOfTwo
<1> QED BY <1>1, <1>4, <1>5 DEF aimAt

\* The next slot lies ahead of the clock, on the grid, and one interval on unless slots were
\* missed.
LEMMA NextSlot ==
  ASSUME slot \in Int
  PROVE  /\ nextSlot \in Int /\ nextSlot >= 1 /\ nextSlot % Interval = slot % Interval
         /\ slot >= 1 => nextSlot >= slot + Interval
<1>1. PICK k \in Nat \ {0} : k = Interval BY LoopAssumption
<1>2. PICK b : b = Max({0, -slot}) OBVIOUS
<1>3. b = IF 0 >= -slot THEN 0 ELSE -slot
  <2>1. PICK m \in Int : m = -slot OBVIOUS
  <2>2. b = Max({0, m}) BY <1>2, <2>1
  <2>3. PICK z \in Int : z = 0 OBVIOUS
  <2>4. Max({z, m}) = IF z >= m THEN z ELSE m BY MaxOfTwo
  <2> QED BY <2>1, <2>2, <2>3, <2>4
<1>4. b \in Nat BY <1>3
<1>5. PICK n \in Nat : n = b \div k + 1 BY <1>4
<1>6. n * k \in Nat /\ n * k > b BY <1>4, <1>5, NextMultiple
<1>7. nextSlot = slot + n * k BY <1>1, <1>2, <1>5 DEF nextSlot
<1>8. (slot + n * k) % k = slot % k
  <2>1. PICK a \in Int : a = slot OBVIOUS
  <2>2. n \in Int OBVIOUS
  <2>3. (a + n * k) % k = a % k BY <2>2, RemainderOfSum
  <2> QED BY <2>1, <2>3
<1>9. n * k >= k
  <2>1. n >= 1 BY <1>4, <1>5
  <2> QED BY <2>1
<1> QED BY <1>1, <1>3, <1>6, <1>7, <1>8, <1>9

\* Launching a pass.
LEMMA LaunchInv ==
  ASSUME PassesOK, RowsOK, Launch, UNCHANGED rows PROVE PassesOK' /\ RowsOK'
<1>1. CASE UNCHANGED pass BY <1>1 DEF PassesOK, PassOK, RowsOK, HeldOK
<1>2. CASE \E p \in Pass :
             /\ pass[p].pc = "idle"
             /\ LET r == issueNext([IdlePass EXCEPT !.budget = MaxBatches])
                IN setPass(p, [r EXCEPT !.inFlight = r.pc # "idle"])
  <2> DEFINE fresh == [IdlePass EXCEPT !.budget = MaxBatches]
             r == issueNext(fresh)
             q == [r EXCEPT !.inFlight = r.pc # "idle"]
  <2>1. PICK p \in Pass : pass[p].pc = "idle" /\ setPass(p, q) BY <1>2
  <2>2. fresh \in Candidate /\ fresh.batches <= fresh.budget
    <3>1. IdlePass \in Candidate BY LoopAssumption DEF IdlePass, Candidate, Windows
    <3>2. IdlePass.batches = 0 BY DEF IdlePass
    <3>3. MaxBatches \in 0..MaxBatches BY LoopAssumption
    <3> HIDE DEF IdlePass
    <3>4. fresh.batches = 0 /\ fresh.budget = MaxBatches BY <3>1, <3>2 DEF Candidate
    <3>5. fresh \in Candidate BY <3>1, <3>3 DEF Candidate
    <3> QED BY <3>3, <3>4, <3>5
  <2> HIDE DEF fresh
  <2>3. /\ r \in PassLocal
        /\ r = IdlePass \/ (r.pc = "statement" /\ r.batches < r.budget)
    BY <2>2, IssueNext
  <2> HIDE DEF r
  <2>4. q \in PassLocal /\ q.pc = r.pc /\ q.inFlight = (r.pc # "idle") /\ q.aborted = r.aborted
        /\ q.batches = r.batches /\ q.budget = r.budget
    BY <2>3 DEF PassLocal
  <2>5. IdlePass.pc = "idle" /\ ~IdlePass.aborted BY DEF IdlePass
  <2>6. PassOK(q) BY <2>3, <2>4, <2>5 DEF PassOK
  <2> HIDE DEF q
  <2>7. PassesOK' /\ \A o \in Pass \ {p} : pass'[o] = pass[o] BY <2>1, <2>4, <2>6, OnePassMoves
  <2>8. \A o \in Pass : pass[o].pc = "locked" =>
                          pass'[o].pc = "locked" /\ pass'[o].window = pass[o].window
    BY <2>1, <2>7
  <2> QED BY <2>7, <2>8, RowsKept
<1> QED BY <1>1, <1>2 DEF Launch

\* The timer fires: only the first tick after the clock moved may find another one due.
LEMMA FireAlarmInv == ASSUME IInv, FireAlarm PROVE IInv'
<1>1. PassesOK /\ RowsOK /\ LoopOK /\ faults \in Nat BY Groups
<1>2. /\ alarm # NoAlarm /\ alarm \in [target : Int, fire : Int]
      /\ UNCHANGED <<stage, rows, grid, faults>>
  BY <1>1 DEF FireAlarm, LoopOK
<1>3. alarm.target \in Int BY <1>2
<1>4. CASE alarm.target > 0
  <2>1. alarm' = aimAt(alarm.target) /\ UNCHANGED <<slot, pass, burst>> BY <1>4 DEF FireAlarm
  <2>2. PICK to \in Int : to = alarm.target BY <1>3
  <2>3. alarm' \in [target : Int, fire : Int] /\ alarm'.target = to BY <2>1, <2>2, AimAt
  <2>4. LoopOK' BY <1>1, <1>2, <1>4, <2>1, <2>2, <2>3 DEF LoopOK, TicksAhead, NoBurst, CadenceKept
  <2>5. PassesOK' BY <1>1, <2>1 DEF PassesOK, PassOK
  <2>6. RowsOK' BY <1>1, <1>2, <2>1, RowsKept
  <2> QED BY <1>1, <1>2, <2>4, <2>5, <2>6, Regrouped
<1>5. CASE ~(alarm.target > 0)
  <2>1. PICK j \in -Jitter..Jitter : alarm' = aimAt(nextSlot + j) BY <1>5 DEF FireAlarm
  <2>2. slot' = nextSlot /\ burst' = burst + 1 /\ Launch BY <1>5 DEF FireAlarm
  <2>3. /\ nextSlot \in Int /\ nextSlot >= 1 /\ nextSlot % Interval = slot % Interval
        /\ slot >= 1 => nextSlot >= slot + Interval
    BY <1>1, NextSlot DEF LoopOK
  <2>4. PICK to \in Int : to = nextSlot + j BY <2>1, <2>3, LoopAssumption
  <2>5. alarm' \in [target : Int, fire : Int] /\ alarm'.target = to BY <2>1, <2>4, AimAt
  <2>6. burst \in Nat /\ burst < 2 /\ stage # "new" /\ slot \in Int
    BY <1>1, <1>2, <1>5 DEF LoopOK, TicksAhead, NoBurst
  <2>7. TicksAhead'
    <3>1. burst >= 1 => slot >= 1 BY <1>1 DEF LoopOK, TicksAhead
    <3>2. burst >= 1 => to > 0 BY <2>1, <2>3, <2>4, <2>6, <3>1, LoopAssumption
    <3> QED BY <1>2, <2>2, <2>3, <2>5, <2>6, <3>2 DEF TicksAhead
  <2>8. LoopOK'
    BY <1>1, <1>2, <2>2, <2>3, <2>5, <2>6, <2>7 DEF LoopOK, NoBurst, CadenceKept
  <2>9. PassesOK' /\ RowsOK' BY <1>1, <1>2, <2>2, LaunchInv
  <2> QED BY <1>1, <1>2, <2>8, <2>9, Regrouped
<1> QED BY <1>4, <1>5

\* The first slot fixes the grid.
LEMMA StartInv == ASSUME IInv, Start PROVE IInv'
<1>1. PassesOK /\ RowsOK /\ LoopOK /\ faults \in Nat BY Groups
<1>2. PICK first \in 0..Interval - 1 : slot' = first /\ alarm' = aimAt(first) /\ grid' = first
  BY DEF Start
<1>3. stage = "new" /\ stage' = "running" /\ UNCHANGED <<pass, rows, burst, faults>> BY DEF Start
<1>4. PICK k \in Nat \ {0} : k = Interval BY LoopAssumption
<1>5. first \in Int /\ first \in 0..k - 1 BY <1>4
<1>6. alarm' \in [target : Int, fire : Int] BY <1>2, <1>5, AimAt
<1>7. first % k = first
  <2>1. PICK z \in Int : z = 0 OBVIOUS
  <2>2. (z * k + first) % k = first BY <1>5, RemainderUnique
  <2>3. z * k + first = first BY <1>5, <2>1
  <2> QED BY <2>2, <2>3
<1>8. LoopOK'
  BY <1>1, <1>2, <1>3, <1>4, <1>5, <1>6, <1>7 DEF LoopOK, TicksAhead, NoBurst, CadenceKept
<1>9. PassesOK' /\ RowsOK' BY <1>1, <1>3 DEF PassesOK, PassOK, RowsOK, HeldOK
<1> QED BY <1>1, <1>3, <1>8, <1>9, Regrouped

\* The clock moves.
LEMMA TickInv == ASSUME IInv, Tick PROVE IInv'
<1>1. PassesOK /\ RowsOK /\ LoopOK /\ faults \in Nat BY Groups
<1>2. /\ alarm # NoAlarm /\ grid' = (grid - 1) % Interval /\ slot' = slot - 1 /\ burst' = 0
      /\ alarm' = [target |-> alarm.target - 1, fire |-> alarm.fire - 1]
      /\ UNCHANGED <<stage, pass, rows, faults>>
  BY DEF Tick
<1>3. PICK k \in Nat \ {0} : k = Interval BY LoopAssumption
<1>4. slot \in Int /\ grid \in 0..k - 1 /\ alarm \in [target : Int, fire : Int] /\ stage # "new"
  BY <1>1, <1>2, <1>3 DEF LoopOK, TicksAhead
<1>5. (slot - 1) % k = ((slot % k) - 1) % k BY <1>4, RemainderBelow
<1>6. grid' \in 0..k - 1 BY <1>2, <1>3, <1>4
<1>7. CadenceKept' BY <1>1, <1>2, <1>3, <1>5 DEF LoopOK, CadenceKept
<1>8. slot' \in Int /\ alarm' \in [target : Int, fire : Int] BY <1>2, <1>4
<1>9. LoopOK' BY <1>1, <1>2, <1>3, <1>4, <1>6, <1>7, <1>8 DEF LoopOK, TicksAhead, NoBurst
<1>10. PassesOK' /\ RowsOK' BY <1>1, <1>2 DEF PassesOK, PassOK, RowsOK, HeldOK
<1> QED BY <1>1, <1>2, <1>9, <1>10, Regrouped

\* stop() tells the passes in flight to abort.
LEMMA StopInv == ASSUME IInv, Stop PROVE IInv'
<1> DEFINE told(p) == IF pass[p].inFlight THEN [pass[p] EXCEPT !.aborted = TRUE] ELSE pass[p]
<1>1. PassesOK /\ RowsOK /\ LoopOK /\ faults \in Nat BY Groups
<1>2. /\ stage' = "stopping" /\ alarm' = NoAlarm /\ pass' = [p \in Pass |-> told(p)]
      /\ UNCHANGED <<slot, rows, clock, faults>>
  BY DEF Stop
<1>3. ASSUME NEW p \in Pass
      PROVE  /\ told(p) \in PassLocal /\ PassOK(told(p))
             /\ told(p).pc = pass[p].pc /\ told(p).window = pass[p].window
  <2>1. pass[p] \in PassLocal /\ PassOK(pass[p]) BY <1>1 DEF PassesOK
  <2> QED BY <2>1 DEF PassLocal, PassOK
<1> HIDE DEF told
<1>4. PassesOK' BY <1>2, <1>3 DEF PassesOK
<1>5. RowsOK'
  <2>1. \A p \in Pass : pass'[p].pc = pass[p].pc /\ pass'[p].window = pass[p].window BY <1>2, <1>3
  <2> QED BY <1>1, <1>2, <2>1, RowsKept
<1>6. LoopOK' BY <1>1, <1>2 DEF LoopOK, clock, TicksAhead, NoBurst, CadenceKept
<1> QED BY <1>1, <1>2, <1>4, <1>5, <1>6, Regrouped

\* stop() returns.
LEMMA StopReturnsInv == ASSUME IInv, StopReturns PROVE IInv'
<1>1. PassesOK /\ RowsOK /\ LoopOK /\ faults \in Nat BY Groups
<1>2. stage' = "stopped" /\ UNCHANGED <<slot, alarm, pass, rows, clock, faults>> BY DEF StopReturns
<1>3. LoopOK' BY <1>1, <1>2 DEF LoopOK, clock, TicksAhead, NoBurst, CadenceKept
<1>4. PassesOK' /\ RowsOK' BY <1>1, <1>2 DEF PassesOK, PassOK, RowsOK, HeldOK
<1> QED BY <1>1, <1>2, <1>3, <1>4, Regrouped

-----------------------------------------------------------------------------
(* Theorems. *)

\* Before the loop starts nothing is owed.
LEMMA InitInv == Init => IInv
<1> SUFFICES ASSUME Init PROVE IInv OBVIOUS
<1>1. IdlePass \in PassLocal /\ PassOK(IdlePass)
  BY LoopAssumption DEF IdlePass, PassLocal, Windows, PassOK
<1> HIDE DEF IdlePass
<1>2. PassesOK BY <1>1 DEF Init, PassesOK
<1>3. RowsOK BY RangeOfEmpty DEF Init, RowsOK
<1>4. LoopOK /\ faults \in Nat
  BY LoopAssumption DEF Init, LoopOK, TicksAhead, NoBurst, CadenceKept
<1> QED BY <1>2, <1>3, <1>4, Groups

\* Every step keeps the invariant.
LEMMA InvStep == IInv /\ [Next]_vars => IInv'
<1> SUFFICES ASSUME IInv, [Next]_vars PROVE IInv' OBVIOUS
<1>1. CASE Start BY <1>1, StartInv
<1>2. CASE FireAlarm BY <1>2, FireAlarmInv
<1>3. CASE Stop BY <1>3, StopInv
<1>4. CASE StopReturns BY <1>4, StopReturnsInv
<1>5. CASE Tick BY <1>5, TickInv
<1>6. ASSUME NEW p \in Pass, PassStep(p) \/ TimeOut(p) \/ RejectStatement(p) \/ HangStatement(p)
      PROVE  IInv'
  BY <1>6, LockRowsInv, CommitDeleteInv, AnswerInv, TimeOutInv, RejectStatementInv,
     HangStatementInv DEF PassStep
<1>7. ASSUME NEW t \in Task, Finish(t) PROVE IInv' BY <1>7, FinishInv
<1>8. ASSUME NEW w \in 1..Windows, GrowOld(w) PROVE IInv' BY <1>8, GrowOldInv
<1>9. CASE UNCHANGED vars
  <2>1. PassesOK /\ RowsOK /\ LoopOK /\ faults \in Nat BY Groups
  <2>2. UNCHANGED <<loop, clock, pass, rows, faults>> BY <1>9 DEF vars, loop, clock
  <2>3. LoopOK' BY <2>1, <2>2, LoopKept
  <2>4. PassesOK' /\ RowsOK' BY <2>1, <2>2 DEF PassesOK, PassOK, RowsOK, HeldOK
  <2> QED BY <2>1, <2>2, <2>3, <2>4, Regrouped
<1> QED BY <1>1, <1>2, <1>3, <1>4, <1>5, <1>6, <1>7, <1>8, <1>9 DEF Next

\* The inductive invariant, for every interval, jitter, budget, limit and set of passes.
THEOREM LoopInvariant == Spec => []IInv
<1> QED BY InitInv, InvStep, PTL DEF Spec

\* The fields stay in range, every pass stays within its statement budget, and only a live
\* statement holds rows (prune and deleteFinishedOlderThan).
THEOREM TypeCorrect == Spec => []TypeOK
<1>1. IInv => TypeOK BY DEF IInv
<1> QED BY LoopInvariant, <1>1, PTL

\* However long the process stalled and whatever the jitter, the loop runs at most two ticks
\* before the clock moves: Timeline.nextTickAt skips the slots slept through.
THEOREM NeverBursts == Spec => []NoBurst
<1>1. IInv => NoBurst BY DEF IInv
<1> QED BY LoopInvariant, <1>1, PTL

\* Skipped slots, late timers and long passes never move a running loop off the grid its
\* first slot fixed.
THEOREM GridKept == Spec => []CadenceKept
<1>1. IInv => CadenceKept BY DEF IInv
<1> QED BY LoopInvariant, <1>1, PTL

\* Only an answered pass and a fresh one go on to a statement, and neither does once it has
\* been told to abort.
LEMMA AbortStep == IInv /\ [Next]_vars =>
  [\A p \in Pass : pass[p].aborted /\ pass'[p].pc = "statement" => pass[p].pc = "statement"]_vars
<1> SUFFICES ASSUME IInv, [Next]_vars, NEW p \in Pass, pass[p].aborted, pass'[p].pc = "statement"
             PROVE  pass[p].pc = "statement"
  OBVIOUS
<1>1. PassesOK BY Groups
<1>2. pass \in [Pass -> PassLocal] /\ pass[p] \in PassLocal /\ PassOK(pass[p]) BY <1>1 DEF PassesOK
<1>3. pass[p].pc # "idle" BY <1>2 DEF PassOK
<1>4. IdlePass.pc = "idle" BY DEF IdlePass
<1>5. CASE UNCHANGED pass BY <1>5
<1>6. CASE Launch
  <2> DEFINE r == issueNext([IdlePass EXCEPT !.budget = MaxBatches])
             q == [r EXCEPT !.inFlight = r.pc # "idle"]
  <2> SUFFICES ASSUME NEW o \in Pass, pass[o].pc = "idle", setPass(o, q) PROVE pass'[p] = pass[p]
    BY <1>6 DEF Launch
  <2> HIDE DEF q
  <2> QED BY <1>2, <1>3 DEF setPass
<1>7. CASE Stop
  <2>1. pass'[p] = IF pass[p].inFlight THEN [pass[p] EXCEPT !.aborted = TRUE] ELSE pass[p]
    BY <1>7 DEF Stop
  <2> QED BY <1>2, <2>1 DEF PassLocal
<1>8. ASSUME NEW o \in Pass, PassStep(o) \/ TimeOut(o) \/ RejectStatement(o) \/ HangStatement(o)
      PROVE  pass[p].pc = "statement"
  <2>1. CASE o # p
    <3>1. \E r : setPass(o, r)
      BY <1>8 DEF PassStep, LockRows, CommitDelete, Answer, TimeOut, RejectStatement, HangStatement
    <3>2. pass'[p] = pass[p] BY <1>2, <2>1, <3>1 DEF setPass
    <3> QED BY <3>2
  <2>2. CASE o = p /\ Answer(o)
    <3>1. pass'[p] = afterBatch(pass[p]) /\ pass[p].pc = "answer" BY <1>2, <2>2 DEF Answer, setPass
    <3>2. pass[p].batches < pass[p].budget BY <1>2, <3>1 DEF PassOK
    <3> QED BY <1>2, <3>1, <3>2, AfterBatch
  <2>3. CASE o = p /\ (LockRows(o) \/ HangStatement(o)) BY <2>3 DEF LockRows, HangStatement
  <2>4. CASE o = p /\ CommitDelete(o)
    <3>1. PICK n : pass'[p] = [pass[p] EXCEPT !.pc = "answer", !.affected = n]
      BY <1>2, <2>4 DEF CommitDelete, setPass
    <3>2. pass'[p].pc = "answer" BY <1>2, <3>1 DEF PassLocal
    <3> QED BY <3>2
  <2>5. CASE o = p /\ TimeOut(o)
    <3>1. pass'[p] = [pass[p] EXCEPT !.aborted = TRUE, !.inFlight = FALSE]
      BY <1>2, <2>5 DEF TimeOut, setPass
    <3> QED BY <1>2, <3>1 DEF PassLocal
  <2>6. CASE o = p /\ RejectStatement(o)
    <3>1. pass'[p] = IdlePass BY <1>2, <2>6 DEF RejectStatement, setPass
    <3> QED BY <1>4, <3>1
  <2> QED BY <1>8, <2>1, <2>2, <2>3, <2>4, <2>5, <2>6 DEF PassStep
<1> QED BY <1>5, <1>6, <1>7, <1>8
     DEF Next, vars, Start, FireAlarm, StopReturns, Tick, Finish, GrowOld

\* A pass whose signal is aborted, by its timeout or by stop(), issues no statement after
\* the one it is waiting for (the checks of pruneWindow's while loop).
THEOREM AbortedPassesEnd == Spec => AbortedIssuesNothing
<1> QED BY LoopInvariant, AbortStep, PTL DEF Spec, AbortedIssuesNothing
=============================================================================
