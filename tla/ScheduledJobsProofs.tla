------------------------- MODULE ScheduledJobsProofs -------------------------
(***************************************************************************)
(* Proofs about ScheduledJobs, for any jobs, schedules, mains and knobs:   *)
(* types, one row per instant, the bound on lateness, clocks that never    *)
(* run back, one late run per owner, and ended occurrences that stay so.   *)
(***************************************************************************)
EXTENDS ScheduledJobs, CollectionLemmas

-----------------------------------------------------------------------------
\* Recurrence.

Instant == Nat \cup {NULL}

\* A first run is an instant ahead, or none.
LEMMA FirstRunType ==
  ASSUME NEW s \in Schedules, NEW t \in Nat
  PROVE  /\ computeFirstRunAt(s, t) \in Instant
         /\ computeFirstRunAt(s, t) # NULL => computeFirstRunAt(s, t) > t
<1>1. s.kind \in {"cron", "interval", "one_off"} /\ s.at \in Nat \ {0} BY ScheduleAssumption
<1>2. cronNextRun(s, t) \in Nat /\ cronNextRun(s, t) > t BY <1>1, NextMultiple DEF cronNextRun
<1>3. intervalNextRun(s, t) \in Nat /\ intervalNextRun(s, t) > t BY <1>1 DEF intervalNextRun
<1>4. /\ oneOffNextRun(s, t) \in Instant
      /\ oneOffNextRun(s, t) # NULL => oneOffNextRun(s, t) > t
  BY <1>1 DEF oneOffNextRun, Instant
<1> QED BY <1>1, <1>2, <1>3, <1>4 DEF computeFirstRunAt, Instant

\* The fire after one of a walk.
Following(s, t) ==
  IF t = NULL \/ s.kind = "one_off" THEN NULL
  ELSE IF s.kind = "cron" THEN cronNextRun(s, t) ELSE intervalNextRun(s, t)

\* It is later, or there is none.
LEMMA FollowingLater ==
  ASSUME NEW s \in Schedules, NEW t \in Instant
  PROVE  /\ Following(s, t) \in Instant
         /\ Following(s, t) # NULL => t # NULL /\ Following(s, t) > t
<1>1. s.at \in Nat \ {0} BY ScheduleAssumption
<1>2. t # NULL => cronNextRun(s, t) \in Nat /\ cronNextRun(s, t) > t
  BY <1>1, NextMultiple DEF cronNextRun, Instant
<1>3. t # NULL => intervalNextRun(s, t) \in Nat /\ intervalNextRun(s, t) > t
  BY <1>1 DEF intervalNextRun, Instant
<1> QED BY <1>2, <1>3 DEF Following, Instant

\* A walk starts at its first fire and goes on from each to the one after it.
LEMMA WalkSteps ==
  ASSUME NEW s, NEW first, NEW n \in Nat
  PROVE  LET fire == occurrencesFrom(s, first, n) IN
         fire = [i \in 0..n |-> IF i = 0 THEN first ELSE Following(s, fire[i-1])]
<1> DEFINE Walk(k, f) == f = [i \in 0..k |-> IF i = 0 THEN first ELSE Following(s, f[i-1])]
           bad == {k \in Nat : \A f : ~Walk(k, f)}
<1>1. bad = {}
  <2> SUFFICES ASSUME bad # {} PROVE FALSE OBVIOUS
  <2>1. bad \in SUBSET Nat OBVIOUS
  <2>2. PICK k \in bad : \A l \in bad : k <= l
    <3> HIDE DEF bad
    <3> QED BY <2>1, MinOfNats
  <2>3. k \in Nat /\ \A f : ~Walk(k, f) OBVIOUS
  <2>4. CASE k = 0
    <3> DEFINE f == [i \in 0..0 |-> first]
    <3>1. Walk(0, f) OBVIOUS
    <3> QED BY <2>3, <2>4, <3>1
  <2>5. CASE k # 0
    <3>1. k - 1 \in Nat /\ ~(k <= k - 1) BY <2>3, <2>5
    <3>2. k - 1 \notin bad
      <4> HIDE DEF bad
      <4> QED BY <2>2, <3>1
    <3>3. PICK g : Walk(k - 1, g) BY <3>1, <3>2
    <3> DEFINE f == [i \in 0..k |-> IF i = k THEN Following(s, g[k-1]) ELSE g[i]]
    <3>4. \A i \in 0..k : f[i] = IF i = 0 THEN first ELSE Following(s, f[i-1])
      <4> SUFFICES ASSUME NEW i \in 0..k
                   PROVE  f[i] = IF i = 0 THEN first ELSE Following(s, f[i-1])
        OBVIOUS
      <4>1. CASE i = k
        <5>1. f[i] = Following(s, g[k-1]) /\ k - 1 \in 0..k /\ f[k-1] = g[k-1] BY <2>3, <3>1, <4>1
        <5> QED BY <2>5, <4>1, <5>1
      <4>2. CASE i # k
        <5>1. i \in 0..k-1 /\ f[i] = g[i] BY <2>3, <4>2
        <5>2. g[i] = IF i = 0 THEN first ELSE Following(s, g[i-1]) BY <3>3, <5>1
        <5>3. i # 0 => i - 1 \in 0..k /\ i - 1 # k /\ f[i-1] = g[i-1] BY <2>3, <5>1
        <5> QED BY <5>1, <5>2, <5>3
      <4> QED BY <4>1, <4>2
    <3>5. Walk(k, f)
      <4> DEFINE h == [i \in 0..k |-> IF i = 0 THEN first ELSE Following(s, f[i-1])]
      <4>1. f = [i \in 0..k |-> f[i]] OBVIOUS
      <4> HIDE DEF f
      <4>2. f = h BY <3>4, <4>1
      <4> QED BY <4>2
    <3> QED BY <2>3, <3>5
  <2> QED BY <2>4, <2>5
<1>2. PICK f : Walk(n, f) BY <1>1
<1>3. occurrencesFrom(s, first, n) = CHOOSE g : Walk(n, g) BY DEF occurrencesFrom, Following
<1>4. Walk(n, CHOOSE g : Walk(n, g))
  <2> HIDE DEF Walk
  <2> QED BY <1>2
<1> QED BY <1>3, <1>4

\* Its fires are instants, each later than those before it.
LEMMA WalkGrows ==
  ASSUME NEW s \in Schedules, NEW first \in Nat, NEW n \in Nat
  PROVE  LET fire == occurrencesFrom(s, first, n) IN
         /\ fire[0] = first
         /\ \A k \in 0..n : /\ fire[k] \in Instant
                            /\ \A i \in 0..k : fire[k] # NULL =>
                                 fire[i] # NULL /\ fire[k] >= fire[i] + (k - i)
<1> DEFINE fire == occurrencesFrom(s, first, n)
           Good(k) == /\ fire[k] \in Instant
                      /\ \A i \in 0..k : fire[k] # NULL =>
                           fire[i] # NULL /\ fire[k] >= fire[i] + (k - i)
           bad == {k \in 0..n : ~Good(k)}
<1>1. fire = [k \in 0..n |-> IF k = 0 THEN first ELSE Following(s, fire[k-1])] BY WalkSteps
<1> HIDE DEF fire
<1>2. \A k \in 0..n : fire[k] = IF k = 0 THEN first ELSE Following(s, fire[k-1]) BY <1>1
<1>3. fire[0] = first BY <1>2
<1>4. bad = {}
  <2> SUFFICES ASSUME bad # {} PROVE FALSE OBVIOUS
  <2>1. bad \in SUBSET Nat OBVIOUS
  <2>2. PICK k \in bad : \A l \in bad : k <= l
    <3> HIDE DEF bad
    <3> QED BY <2>1, MinOfNats
  <2>3. k \in 0..n /\ ~Good(k) OBVIOUS
  <2>4. k # 0 BY <1>3, <2>3 DEF Instant
  <2>5. k - 1 \in 0..n /\ ~(k <= k - 1) BY <2>3, <2>4
  <2>6. Good(k - 1)
    <3> HIDE DEF Good
    <3> QED BY <2>2, <2>5
  <2>7. fire[k] = Following(s, fire[k-1]) BY <1>2, <2>3, <2>4
  <2>8. fire[k] \in Instant /\ (fire[k] # NULL => fire[k-1] # NULL /\ fire[k] > fire[k-1])
    BY <2>6, <2>7, FollowingLater
  <2>9. ASSUME NEW i \in 0..k, fire[k] # NULL PROVE fire[i] # NULL /\ fire[k] >= fire[i] + (k - i)
    <3>1. fire[k] \in Nat /\ fire[k-1] \in Nat /\ fire[k] > fire[k-1]
      BY <2>6, <2>8, <2>9 DEF Instant
    <3>2. CASE i = k BY <2>3, <2>9, <3>1, <3>2
    <3>3. CASE i # k
      <4>1. i \in 0..(k - 1) /\ i \in 0..n BY <2>3, <3>3
      <4>2. fire[i] # NULL /\ fire[k-1] >= fire[i] + (k - 1 - i) BY <2>6, <2>8, <2>9, <4>1
      <4>3. fire[i] \in Nat
        <5>1. i \notin bad
          <6> HIDE DEF bad
          <6> QED BY <2>1, <2>2, <2>3, <4>1
        <5> QED BY <4>1, <4>2, <5>1 DEF Instant
      <4> QED BY <2>3, <3>1, <4>1, <4>2, <4>3
    <3> QED BY <3>2, <3>3
  <2> QED BY <2>3, <2>8, <2>9
<1> QED BY <1>3, <1>4 DEF fire

\* A set of naturals below n that has all those under its members is an interval from 0.
LEMMA InitialSegment ==
  ASSUME NEW n \in Nat, NEW S \in SUBSET (0..(n - 1)), \A k \in S : \A i \in 0..k : i \in S
  PROVE  S = 0..(Cardinality(S) - 1) /\ Cardinality(S) \in 0..n
<1> DEFINE out == {k \in Nat : k \notin S}
<1>1. out \in SUBSET Nat /\ n \in out OBVIOUS
<1> HIDE DEF out
<1>2. PICK c \in out : \A l \in out : c <= l BY <1>1, MinOfNats
<1>3. c \in Nat /\ c \notin S /\ c <= n BY <1>1, <1>2 DEF out
<1>4. \A i \in Nat : i < c => i \in S BY <1>2, <1>3 DEF out
<1>5. \A k \in S : k \in Nat /\ k < c
  <2> SUFFICES ASSUME NEW k \in S PROVE k < c OBVIOUS
  <2>1. k \in Nat OBVIOUS
  <2>2. c <= k => c \in 0..k BY <1>3, <2>1
  <2> QED BY <1>3, <2>1, <2>2
<1>6. S = 0..(c - 1)
  <2>1. \A k \in S : k \in 0..(c - 1) BY <1>3, <1>5
  <2>2. \A k \in 0..(c - 1) : k \in S BY <1>3, <1>4
  <2> QED BY <2>1, <2>2
<1>7. Cardinality(0..(c - 1)) = c
  <2> DEFINE b == c - 1
  <2>1. b \in Int /\ (0 > b => c = 0) /\ b - 0 + 1 = c BY <1>3
  <2> HIDE DEF b
  <2>2. Cardinality(0..b) = IF 0 > b THEN 0 ELSE b - 0 + 1 BY <2>1, FS_Interval
  <2> QED BY <1>3, <2>1, <2>2 DEF b
<1> QED BY <1>3, <1>6, <1>7

-----------------------------------------------------------------------------
\* Planning.

\* The greatest of the instants up to some time is one of them.
LEMMA MaxOfBounded ==
  ASSUME NEW S \in SUBSET Nat, S # {}, NEW b \in Nat, \A x \in S : x <= b
  PROVE  Max(S) \in S /\ \A y \in S : Max(S) >= y
<1>1. S \subseteq 0..b OBVIOUS
<1>2. IsFiniteSet(0..b) BY FS_Interval
<1>3. IsFiniteSet(S) BY <1>1, <1>2, FS_Subset
<1> QED BY <1>3, MaxOfFinite

Plan == [occurrences : SUBSET Nat, skipped : SUBSET Nat, catchUpAt : Instant,
         retireBefore : Instant, nextRunAt : Instant, lastFiredAt : Instant]

\* What matters of the plan of a row at t: its clock goes on, and what it records lies
\* between the two clocks, within the window, and is recent or its catch-up run.
PlanOK(p, row, t) ==
  /\ p \in Plan
  /\ p.nextRunAt # NULL => p.nextRunAt >= row.nextRunAt
  /\ \A s \in p.occurrences : s = p.catchUpAt \/ s > t - Grace
  /\ \A s \in p.occurrences : /\ s >= row.nextRunAt /\ s <= t + Window
                              /\ p.nextRunAt # NULL => s < p.nextRunAt

\* A plan that was not put off covers the window, or as many instants as the cap allows.
Reaches(p, row, t) ==
  p.nextRunAt # NULL => p.nextRunAt > t + Window \/ p.nextRunAt >= row.nextRunAt + MaxPerJob

\* The misfire policy keeps instants of the walk; late ones only under its catch-up run.
LEMMA MisfirePolicy ==
  ASSUME NEW due \in SUBSET Nat, NEW t \in Nat, NEW policy, NEW truncated
  PROVE  LET kept == applyMisfirePolicy(due, t, policy, truncated) IN
         /\ kept.occurrences \in SUBSET due /\ kept.catchUpAt \in Instant
         /\ \A s \in kept.occurrences : s = kept.catchUpAt \/ s > t - Grace
<1> DEFINE behind == {s \in due : s <= t}
           ahead == due \ behind
           kept == applyMisfirePolicy(due, t, policy, truncated)
<1> SUFFICES /\ kept.occurrences \in SUBSET due /\ kept.catchUpAt \in Instant
             /\ \A s \in kept.occurrences : s = kept.catchUpAt \/ s > t - Grace
  OBVIOUS
<1>1. behind \in SUBSET Nat /\ \A s \in behind : s <= t OBVIOUS
<1>2. ahead \subseteq due /\ \A s \in ahead : s \in Nat /\ s > t /\ s > t - Grace BY KnobAssumption
<1>3. behind # {} => Max(behind) \in behind
  <2> HIDE DEF behind
  <2> QED BY <1>1, MaxOfBounded
<1>4. CASE behind = {} \/ Min(behind) > t - Grace
  <2>1. kept = [occurrences |-> due, catchUpAt |-> NULL] BY <1>4 DEF applyMisfirePolicy
  <2>2. \A s \in due : s > t - Grace
    <3> SUFFICES ASSUME NEW s \in due PROVE s > t - Grace OBVIOUS
    <3>1. CASE s \in ahead BY <1>2, <3>1
    <3>2. CASE s \in behind
      <4>1. Min(behind) \in behind /\ Min(behind) <= s
        <5> HIDE DEF behind
        <5> QED BY <1>1, <3>2, MinOfNats
      <4>2. Min(behind) > t - Grace BY <1>4, <3>2
      <4> QED BY <1>1, <4>1, <4>2, KnobAssumption
    <3> QED BY <3>1, <3>2
  <2> HIDE DEF kept
  <2>3. kept.occurrences = due /\ kept.catchUpAt = NULL BY <2>1
  <2> QED BY <2>2, <2>3 DEF Instant
<1>5. CASE ~(behind = {} \/ Min(behind) > t - Grace)
  <2>1. \/ kept = [occurrences |-> ahead, catchUpAt |-> NULL]
        \/ kept = [occurrences |-> {}, catchUpAt |-> NULL]
        \/ kept = [occurrences |-> {Max(behind)} \cup ahead, catchUpAt |-> Max(behind)]
    BY <1>5 DEF applyMisfirePolicy
  <2>2. Max(behind) \in due /\ Max(behind) \in Nat BY <1>3, <1>5
  <2> HIDE DEF kept, ahead, behind
  <2>3. CASE kept = [occurrences |-> ahead, catchUpAt |-> NULL]
    <3>1. kept.occurrences = ahead /\ kept.catchUpAt = NULL BY <2>3
    <3> QED BY <1>2, <3>1 DEF Instant
  <2>4. CASE kept = [occurrences |-> {}, catchUpAt |-> NULL]
    <3>1. kept.occurrences = {} /\ kept.catchUpAt = NULL BY <2>4
    <3> QED BY <3>1 DEF Instant
  <2>5. CASE kept = [occurrences |-> {Max(behind)} \cup ahead, catchUpAt |-> Max(behind)]
    <3>1. kept.occurrences = {Max(behind)} \cup ahead /\ kept.catchUpAt = Max(behind) BY <2>5
    <3> QED BY <1>2, <2>2, <3>1 DEF Instant
  <2> QED BY <2>1, <2>3, <2>4, <2>5
<1> QED BY <1>4, <1>5

\* A planned job: its clock goes on.
LEMMA PlanJob ==
  ASSUME NEW row \in JobRow, row.nextRunAt # NULL, NEW t \in Nat
  PROVE  PlanOK(planOccurrences(row, t), row, t) /\ Reaches(planOccurrences(row, t), row, t)
<1> DEFINE fire == occurrencesFrom(row.schedule, row.nextRunAt, MaxPerJob)
           walked == {i \in 0..(MaxPerJob - 1) : fire[i] # NULL /\ fire[i] <= t + Window}
           due == {fire[i] : i \in walked}
           next == fire[Cardinality(walked)]
           truncated == next # NULL /\ next <= t + Window
           kept == applyMisfirePolicy(due, t, row.misfirePolicy, truncated)
           last == IF due = {} THEN row.lastFiredAt ELSE Max(due)
           p == [occurrences |-> kept.occurrences, skipped |-> due \ kept.occurrences,
                 catchUpAt |-> kept.catchUpAt, retireBefore |-> kept.catchUpAt,
                 nextRunAt |-> next, lastFiredAt |-> last]
<1>1. planOccurrences(row, t) = p BY DEF planOccurrences
<1>2. row.schedule \in Schedules /\ row.nextRunAt \in Nat /\ row.lastFiredAt \in Instant
  BY DEF JobRow, Instant
<1>3. MaxPerJob \in Nat /\ t + Window \in Nat BY KnobAssumption
<1> DEFINE c == Cardinality(walked)
<1>4. /\ fire[0] = row.nextRunAt
      /\ \A k \in 0..MaxPerJob : /\ fire[k] \in Instant
                                 /\ \A i \in 0..k : fire[k] # NULL =>
                                      fire[i] # NULL /\ fire[k] >= fire[i] + (k - i)
  BY <1>2, <1>3, WalkGrows
<1> HIDE DEF fire
<1>5. walked = 0..(c - 1) /\ c \in 0..MaxPerJob
  <2>1. walked \in SUBSET (0..(MaxPerJob - 1)) OBVIOUS
  <2>2. ASSUME NEW k \in walked, NEW i \in 0..k PROVE i \in walked
    <3>1. k \in 0..MaxPerJob /\ i \in 0..MaxPerJob /\ i \in 0..(MaxPerJob - 1) BY <1>3, <2>2
    <3>2. fire[k] # NULL /\ fire[k] <= t + Window BY <2>2
    <3>3. fire[k] \in Nat /\ fire[i] # NULL /\ fire[i] \in Nat /\ fire[k] >= fire[i] + (k - i)
      BY <1>4, <3>1, <3>2 DEF Instant
    <3>4. fire[i] <= t + Window BY <1>3, <3>1, <3>2, <3>3
    <3> QED BY <3>1, <3>3, <3>4
  <2> HIDE DEF walked
  <2> QED BY <1>3, <2>1, <2>2, InitialSegment
<1>6. /\ next \in Instant
      /\ next # NULL => /\ next >= row.nextRunAt
                        /\ next > t + Window \/ next >= row.nextRunAt + MaxPerJob
  <2>1. next = fire[c] /\ next \in Instant BY <1>4, <1>5
  <2>2. next # NULL => next >= row.nextRunAt + c BY <1>2, <1>4, <1>5, <2>1
  <2>3. c \notin walked
    <3> HIDE DEF walked, c
    <3> QED BY <1>5
  <2>4. c # MaxPerJob => c \in 0..(MaxPerJob - 1) BY <1>3, <1>5
  <2>5. next # NULL /\ c # MaxPerJob => ~(next <= t + Window) BY <2>1, <2>3, <2>4
  <2> HIDE DEF walked, c, next
  <2> QED BY <1>2, <1>3, <1>5, <2>1, <2>2, <2>5 DEF Instant
<1>11. \A x \in due : x >= row.nextRunAt /\ (next # NULL => x < next)
  <2> SUFFICES ASSUME NEW i \in walked
               PROVE  fire[i] >= row.nextRunAt /\ (next # NULL => fire[i] < next)
    OBVIOUS
  <2>1. i \in 0..(c - 1) /\ i \in 0..MaxPerJob /\ fire[i] # NULL /\ c \in 0..MaxPerJob BY <1>3, <1>5
  <2>2. next = fire[c] OBVIOUS
  <2> HIDE DEF walked, c, next
  <2>3. fire[i] \in Nat /\ fire[i] >= row.nextRunAt BY <1>2, <1>4, <2>1 DEF Instant
  <2>4. next # NULL => next \in Nat /\ next >= fire[i] + (c - i) BY <1>4, <2>1, <2>2 DEF Instant
  <2> QED BY <2>1, <2>3, <2>4
<1>7. due \in SUBSET Nat /\ \A x \in due : x <= t + Window
  <2> HIDE DEF c
  <2> QED BY <1>3, <1>4 DEF Instant
<1> HIDE DEF due, next, truncated, c
<1>8. last \in Instant BY <1>2, <1>3, <1>7, MaxOfBounded DEF Instant
<1>9. /\ kept.occurrences \in SUBSET due /\ kept.catchUpAt \in Instant
      /\ \A s \in kept.occurrences : s = kept.catchUpAt \/ s > t - Grace
  BY <1>7, MisfirePolicy
<1> HIDE DEF kept, last
<1>10. p \in Plan BY <1>6, <1>7, <1>8, <1>9 DEF Plan
<1>12. \A x \in kept.occurrences : /\ x >= row.nextRunAt /\ x <= t + Window
                                   /\ next # NULL => x < next
  BY <1>7, <1>9, <1>11
<1>13. /\ p.occurrences = kept.occurrences /\ p.catchUpAt = kept.catchUpAt
       /\ p.nextRunAt = next
  OBVIOUS
<1> HIDE DEF p
<1>14. PlanOK(p, row, t)
  <2>1. p.nextRunAt # NULL => p.nextRunAt >= row.nextRunAt BY <1>6, <1>13
  <2>2. \A x \in p.occurrences : x = p.catchUpAt \/ x > t - Grace BY <1>9, <1>13
  <2>3. \A x \in p.occurrences : /\ x >= row.nextRunAt /\ x <= t + Window
                                 /\ p.nextRunAt # NULL => x < p.nextRunAt
    BY <1>12, <1>13
  <2> QED BY <1>10, <2>1, <2>2, <2>3 DEF PlanOK
<1>15. Reaches(p, row, t) BY <1>6, <1>13 DEF Reaches
<1> QED BY <1>1, <1>14, <1>15

\* A job that could not be planned: its retry is no earlier than its clock, since the claim
\* looked no further ahead than the retry delay.
LEMMA DeferJob ==
  ASSUME NEW row \in JobRow, row.nextRunAt # NULL, NEW t \in Nat, row.nextRunAt <= t + Lookahead
  PROVE  PlanOK(deferredPlan(row, t), row, t)
<1>1. row.nextRunAt \in Nat /\ row.lastFiredAt \in Instant BY DEF JobRow, Instant
<1>2. t + PlanRetry \in Nat /\ t + PlanRetry >= row.nextRunAt BY <1>1, KnobAssumption, SlackAssumption
<1>3. deferredPlan(row, t) \in Plan BY <1>1, <1>2 DEF deferredPlan, Plan, Instant
<1> QED BY <1>2, <1>3 DEF deferredPlan, PlanOK

\* The plans of a pass, one per row.
PlansOK(plans, rows, t) ==
  /\ plans = [j \in DOMAIN rows |-> plans[j]]
  /\ \A j \in DOMAIN rows : PlanOK(plans[j], rows[j], t)

\* Of an owner's jobs that coalesce together, one keeps its late run.
OneWinner(plans, rows) ==
  \A j, k \in DOMAIN rows :
    /\ plans[j].catchUpAt # NULL /\ rows[j].misfirePolicy = "coalesce_owner"
    /\ plans[k].catchUpAt # NULL /\ rows[k].misfirePolicy = "coalesce_owner"
    /\ Owner[j] = Owner[k]
    => j = k

\* The rows a pass may claim: they have a clock, within the lookahead where planning fails.
RowsOK(rows, t, failing) ==
  /\ DOMAIN rows \subseteq Job
  /\ \A j \in DOMAIN rows :
       /\ rows[j] \in JobRow /\ rows[j].nextRunAt # NULL
       /\ j \in failing => rows[j].nextRunAt <= t + Lookahead

\* Dropping a late run leaves a good plan, without one.
LEMMA DropLateRun ==
  ASSUME NEW p, NEW row, NEW t, PlanOK(p, row, t)
  PROVE  LET d == [p EXCEPT !.occurrences = p.occurrences \ {p.catchUpAt}, !.catchUpAt = NULL] IN
         PlanOK(d, row, t) /\ d.catchUpAt = NULL /\ d.nextRunAt = p.nextRunAt
<1> DEFINE d == [p EXCEPT !.occurrences = p.occurrences \ {p.catchUpAt}, !.catchUpAt = NULL]
<1>1. p \in Plan BY DEF PlanOK
<1>2. /\ d \in Plan /\ d.catchUpAt = NULL /\ d.occurrences = p.occurrences \ {p.catchUpAt}
      /\ d.nextRunAt = p.nextRunAt
  BY <1>1 DEF Plan, Instant
<1> HIDE DEF d
<1>3. PlanOK(d, row, t) BY <1>2 DEF PlanOK
<1> QED BY <1>2, <1>3 DEF d

\* The owner policy leaves at most one late run to an owner.
LEMMA CoalesceOwner ==
  ASSUME NEW rows, NEW plans, NEW t, PlansOK(plans, rows, t), DOMAIN rows \subseteq Job
  PROVE  LET out == applyCoalesceOwnerPolicy(plans, rows) IN
         /\ PlansOK(out, rows, t) /\ OneWinner(out, rows)
         /\ \A j \in DOMAIN rows : out[j].nextRunAt = plans[j].nextRunAt
<1> DEFINE members == {j \in DOMAIN plans :
                         plans[j].catchUpAt # NULL /\ rows[j].misfirePolicy = "coalesce_owner"}
           loses(j) == j \in members /\ \E k \in members :
                         Owner[k] = Owner[j] /\ k # j /\ latestThenLowestId(plans, k, j)
           dropLateRun(p) == [p EXCEPT !.occurrences = p.occurrences \ {p.catchUpAt},
                                       !.catchUpAt = NULL]
           out == applyCoalesceOwnerPolicy(plans, rows)
<1>1. DOMAIN plans = DOMAIN rows /\ \A j \in DOMAIN rows : PlanOK(plans[j], rows[j], t)
  BY DEF PlansOK
<1>2. out = [j \in DOMAIN rows |-> IF loses(j) THEN dropLateRun(plans[j]) ELSE plans[j]]
  BY <1>1 DEF applyCoalesceOwnerPolicy
<1>3. \A j \in DOMAIN rows :
        /\ PlanOK(dropLateRun(plans[j]), rows[j], t) /\ dropLateRun(plans[j]).catchUpAt = NULL
        /\ dropLateRun(plans[j]).nextRunAt = plans[j].nextRunAt
  BY <1>1, DropLateRun
<1>4. \A j \in members : j \in Nat /\ plans[j].catchUpAt \in Nat
  BY <1>1, JobAssumption DEF PlanOK, Plan, Instant
<1> HIDE DEF dropLateRun, out
<1>5. PlansOK(out, rows, t)
  <2>1. \A j \in DOMAIN rows : PlanOK(out[j], rows[j], t) BY <1>1, <1>2, <1>3
  <2>2. out = [j \in DOMAIN rows |-> out[j]] BY <1>2
  <2> QED BY <2>1, <2>2 DEF PlansOK
<1>6. OneWinner(out, rows)
  <2> SUFFICES ASSUME NEW j \in DOMAIN rows, NEW k \in DOMAIN rows, j # k,
                      out[j].catchUpAt # NULL, rows[j].misfirePolicy = "coalesce_owner",
                      out[k].catchUpAt # NULL, rows[k].misfirePolicy = "coalesce_owner",
                      Owner[j] = Owner[k]
               PROVE  FALSE
    BY DEF OneWinner
  <2>1. ~loses(j) /\ ~loses(k) /\ out[j] = plans[j] /\ out[k] = plans[k]
    BY <1>2, <1>3
  <2>2. j \in members /\ k \in members BY <1>1, <2>1
  <2>3. ~latestThenLowestId(plans, k, j) /\ ~latestThenLowestId(plans, j, k) BY <2>1, <2>2
  <2> QED BY <1>4, <2>2, <2>3 DEF latestThenLowestId
<1>7. \A j \in DOMAIN rows : out[j].nextRunAt = plans[j].nextRunAt BY <1>2, <1>3
<1> QED BY <1>5, <1>6, <1>7 DEF out

\* So the plans of a pass are good, and one of an owner's late runs is kept.
LEMMA PassPlans ==
  ASSUME NEW rows, NEW t \in Nat, NEW failing, RowsOK(rows, t, failing)
  PROVE  LET plans == passPlans(rows, t, failing) IN
         /\ PlansOK(plans, rows, t) /\ OneWinner(plans, rows)
         /\ \A j \in DOMAIN rows \ failing : Reaches(plans[j], rows[j], t)
<1> DEFINE raw == [j \in DOMAIN rows |-> IF j \in failing THEN deferredPlan(rows[j], t)
                                         ELSE planOccurrences(rows[j], t)]
<1>1. \A j \in DOMAIN rows :
        PlanOK(raw[j], rows[j], t) /\ (j \notin failing => Reaches(raw[j], rows[j], t))
  <2> SUFFICES ASSUME NEW j \in DOMAIN rows
               PROVE  PlanOK(raw[j], rows[j], t) /\ (j \notin failing => Reaches(raw[j], rows[j], t))
    OBVIOUS
  <2>1. rows[j] \in JobRow /\ rows[j].nextRunAt # NULL
        /\ (j \in failing => rows[j].nextRunAt <= t + Lookahead)
    BY DEF RowsOK
  <2> QED BY <2>1, PlanJob, DeferJob
<1>2. raw = [j \in DOMAIN rows |-> raw[j]] OBVIOUS
<1>3. passPlans(rows, t, failing) = applyCoalesceOwnerPolicy(raw, rows) BY DEF passPlans
<1> HIDE DEF raw
<1>4. PlansOK(raw, rows, t) BY <1>1, <1>2 DEF PlansOK
<1> DEFINE out == applyCoalesceOwnerPolicy(raw, rows)
<1>5. /\ PlansOK(out, rows, t) /\ OneWinner(out, rows)
      /\ \A j \in DOMAIN rows : out[j].nextRunAt = raw[j].nextRunAt
  <2>1. DOMAIN rows \subseteq Job BY DEF RowsOK
  <2> QED BY <1>4, <2>1, CoalesceOwner
<1> HIDE DEF out
<1>6. \A j \in DOMAIN rows \ failing : Reaches(out[j], rows[j], t) BY <1>1, <1>5 DEF Reaches
<1> QED BY <1>3, <1>5, <1>6 DEF out

-----------------------------------------------------------------------------
\* Recording.

\* Rows with one per instant and tight deadlines.
RowsKept(rs) ==
  /\ rs \subseteq TaskRow
  /\ \A r, q \in rs : SameKey(r, q) => r = q
  /\ \A r \in rs : ~r.attempted /\ r.runAt = r.scheduledFor
                    => r.missedAfter <= r.scheduledFor + 2 * Grace

\* The rows a pass would record: pending, and late only as a catch-up run.
LEMMA NewOccurrences ==
  ASSUME NEW rows, NEW plans, NEW t \in Nat, PlansOK(plans, rows, t), DOMAIN rows \subseteq Job
  PROVE  LET new == toNewOccurrences(plans, t) IN
         /\ RowsKept(new)
         /\ \A q \in new : /\ q.status = "pending" /\ q.jobId \in DOMAIN rows
                           /\ q.scheduledFor \in plans[q.jobId].occurrences
                           /\ q.runAt > q.scheduledFor =>
                                /\ plans[q.jobId].catchUpAt # NULL
                                /\ q.scheduledFor = plans[q.jobId].catchUpAt
<1> DEFINE runAt(j, s) == IF s = plans[j].catchUpAt THEN t ELSE s
           row(j, s) == [jobId |-> j, scheduledFor |-> s, runAt |-> runAt(j, s),
                         missedAfter |-> Max({runAt(j, s), t}) + Grace,
                         attempted |-> FALSE, status |-> "pending"]
           new == toNewOccurrences(plans, t)
<1>1. DOMAIN plans = DOMAIN rows /\ \A j \in DOMAIN rows : PlanOK(plans[j], rows[j], t)
  BY DEF PlansOK
<1>2. new = UNION {{row(j, s) : s \in plans[j].occurrences} : j \in DOMAIN rows}
  BY <1>1 DEF toNewOccurrences
<1>3. ASSUME NEW j \in DOMAIN rows, NEW s \in plans[j].occurrences
      PROVE  /\ row(j, s) \in TaskRow /\ row(j, s).jobId = j /\ row(j, s).scheduledFor = s
             /\ row(j, s).status = "pending"
             /\ row(j, s).runAt = s => row(j, s).missedAfter <= s + 2 * Grace
             /\ row(j, s).runAt > s => plans[j].catchUpAt # NULL /\ s = plans[j].catchUpAt
  <2>1. s \in Nat /\ (s = plans[j].catchUpAt \/ s > t - Grace) BY <1>1 DEF PlanOK, Plan
  <2>2. runAt(j, s) \in Nat /\ (runAt(j, s) = s \/ (s = plans[j].catchUpAt /\ runAt(j, s) = t))
    BY <2>1
  <2> DEFINE m == Max({runAt(j, s), t})
  <2>3. m = IF runAt(j, s) >= t THEN runAt(j, s) ELSE t BY <2>2, MaxOfTwo
  <2>4. m + Grace \in Nat BY <2>2, <2>3, KnobAssumption
  <2>5. runAt(j, s) = s => m + Grace <= s + 2 * Grace
    <3> SUFFICES ASSUME runAt(j, s) = s PROVE m + Grace <= s + 2 * Grace OBVIOUS
    <3>1. m <= s + Grace BY <2>1, <2>2, <2>3, KnobAssumption
    <3> QED BY <2>1, <2>3, <3>1, KnobAssumption
  <2>6. runAt(j, s) > s => plans[j].catchUpAt # NULL /\ s = plans[j].catchUpAt
    BY <2>1, <2>2, JobAssumption
  <2>7. j \in Job OBVIOUS
  <2> HIDE DEF runAt, m
  <2>8. row(j, s) = [jobId |-> j, scheduledFor |-> s, runAt |-> runAt(j, s),
                     missedAfter |-> m + Grace, attempted |-> FALSE, status |-> "pending"]
    BY DEF m
  <2> HIDE DEF row
  <2>9. row(j, s) \in TaskRow BY <2>1, <2>2, <2>4, <2>7, <2>8 DEF TaskRow
  <2> QED BY <2>5, <2>6, <2>8, <2>9
<1> HIDE DEF row, runAt, new
<1>4. \A q \in new : \E j \in DOMAIN rows : \E s \in plans[j].occurrences : q = row(j, s)
  BY <1>2
<1>5. ASSUME NEW r \in new, NEW q \in new, SameKey(r, q) PROVE r = q
  <2>1. PICK j \in DOMAIN rows : \E s \in plans[j].occurrences : r = row(j, s) BY <1>4
  <2>2. PICK s \in plans[j].occurrences : r = row(j, s) BY <2>1
  <2>3. PICK k \in DOMAIN rows : \E u \in plans[k].occurrences : q = row(k, u) BY <1>4
  <2>4. PICK u \in plans[k].occurrences : q = row(k, u) BY <2>3
  <2>5. j = k /\ s = u BY <1>3, <1>5, <2>2, <2>4 DEF SameKey
  <2> QED BY <2>2, <2>4, <2>5
<1>6. RowsKept(new)
  <2>1. new \subseteq TaskRow BY <1>3, <1>4
  <2>2. \A r \in new : ~r.attempted /\ r.runAt = r.scheduledFor
                         => r.missedAfter <= r.scheduledFor + 2 * Grace
    BY <1>3, <1>4
  <2> QED BY <1>5, <2>1, <2>2 DEF RowsKept
<1>7. \A q \in new : /\ q.status = "pending" /\ q.jobId \in DOMAIN rows
                     /\ q.scheduledFor \in plans[q.jobId].occurrences
                     /\ q.runAt > q.scheduledFor =>
                          /\ plans[q.jobId].catchUpAt # NULL
                          /\ q.scheduledFor = plans[q.jobId].catchUpAt
  BY <1>3, <1>4
<1> QED BY <1>6, <1>7 DEF new

\* A row whose status changes keeps the rest.
LEMMA StatusChanged ==
  ASSUME NEW r \in TaskRow, NEW status \in {"pending", "running", "finished", "missed"}
  PROVE  LET c == [r EXCEPT !.status = status] IN
         /\ c \in TaskRow /\ c.jobId = r.jobId /\ c.scheduledFor = r.scheduledFor
         /\ c.runAt = r.runAt /\ c.missedAfter = r.missedAfter
         /\ c.attempted = r.attempted /\ c.status = status
BY DEF TaskRow

\* What a step over the planned jobs makes of the rows rs: ended ones stay, and each row
\* stands for one of rs, no more alive than it, or is planned and was not there.
Carries(rs, plans, out) ==
  /\ \A x \in rs : ~Live(x) => x \in out
  /\ \A q \in out :
       \/ \E x \in rs : SameKey(x, q) /\ (Live(q) => Live(x))
       \/ /\ q.jobId \in DOMAIN plans /\ q.scheduledFor \in plans[q.jobId].occurrences
          /\ \A x \in rs : ~SameKey(x, q)

\* What a pass leaves of the rows: one per instant still, and a pending row with no
\* predecessor is one of the new ones.
LEMMA Recorded ==
  ASSUME NEW rs, RowsKept(rs), NEW new, RowsKept(new), NEW plans
  PROVE  LET out == updateToMissed(insertIgnoringDuplicates(rs, new), plans) IN
         /\ RowsKept(out)
         /\ \A q \in out : q.status = "pending" /\ (\A r \in rs : ~SameKey(r, q)) => q \in new
         /\ \A q \in out : q.status = "running" => q \in rs \cup new
         /\ \A x \in rs : ~Live(x) => x \in out
         /\ \A q \in out :
              \/ \E x \in rs : SameKey(x, q) /\ (Live(q) => Live(x))
              \/ \E x \in new : SameKey(x, q) /\ \A r \in rs : ~SameKey(r, q)
<1> DEFINE all == insertIgnoringDuplicates(rs, new)
           superseded(r) == /\ r.status = "pending" /\ r.jobId \in DOMAIN plans
                            /\ plans[r.jobId].retireBefore # NULL
                            /\ r.scheduledFor < plans[r.jobId].retireBefore
           after(r) == IF superseded(r) THEN [r EXCEPT !.status = "missed"] ELSE r
           out == updateToMissed(all, plans)
<1>1. all \subseteq TaskRow /\ all = rs \cup {q \in new : \A r \in rs : ~SameKey(r, q)}
  BY DEF insertIgnoringDuplicates, RowsKept
<1>2. \A r, q \in all : SameKey(r, q) => r = q
  <2> SUFFICES ASSUME NEW r \in all, NEW q \in all, SameKey(r, q) PROVE r = q OBVIOUS
  <2>1. SameKey(q, r) BY DEF SameKey
  <2> HIDE DEF all
  <2> QED BY <1>1, <2>1 DEF RowsKept
<1>3. \A r \in all : ~r.attempted /\ r.runAt = r.scheduledFor
                      => r.missedAfter <= r.scheduledFor + 2 * Grace
  <2> HIDE DEF all
  <2> QED BY <1>1 DEF RowsKept
<1>4. out = {after(r) : r \in all} BY DEF updateToMissed
<1>5. \A r \in all : /\ after(r) \in TaskRow /\ after(r).jobId = r.jobId
                     /\ after(r).scheduledFor = r.scheduledFor /\ after(r).runAt = r.runAt
                     /\ after(r).missedAfter = r.missedAfter
                     /\ after(r).attempted = r.attempted
                     /\ after(r).status \in {"pending", "running"} => after(r) = r
                     /\ r.status # "pending" => after(r) = r
  <2> SUFFICES ASSUME NEW r \in all
               PROVE  /\ after(r) \in TaskRow /\ after(r).jobId = r.jobId
                      /\ after(r).scheduledFor = r.scheduledFor /\ after(r).runAt = r.runAt
                      /\ after(r).missedAfter = r.missedAfter
                      /\ after(r).attempted = r.attempted
                      /\ after(r).status \in {"pending", "running"} => after(r) = r
                      /\ r.status # "pending" => after(r) = r
    OBVIOUS
  <2>0. superseded(r) => r.status = "pending" OBVIOUS
  <2> HIDE DEF superseded, all
  <2>1. r \in TaskRow BY <1>1
  <2> QED BY <2>0, <2>1, StatusChanged
<1> HIDE DEF after, all, out
<1>6. RowsKept(out)
  <2>1. out \subseteq TaskRow BY <1>4, <1>5
  <2>2. \A r, q \in out : SameKey(r, q) => r = q
    <3> SUFFICES ASSUME NEW r \in out, NEW q \in out, SameKey(r, q) PROVE r = q OBVIOUS
    <3>1. PICK x \in all : r = after(x) BY <1>4
    <3>2. PICK y \in all : q = after(y) BY <1>4
    <3>3. SameKey(x, y) BY <1>5, <3>1, <3>2 DEF SameKey
    <3> QED BY <1>2, <3>1, <3>2, <3>3
  <2>3. \A r \in out : ~r.attempted /\ r.runAt = r.scheduledFor
                         => r.missedAfter <= r.scheduledFor + 2 * Grace
    BY <1>3, <1>4, <1>5
  <2> QED BY <2>1, <2>2, <2>3 DEF RowsKept
<1>7. ASSUME NEW q \in out, q.status = "pending", \A r \in rs : ~SameKey(r, q) PROVE q \in new
  <2>1. PICK x \in all : q = after(x) BY <1>4
  <2>2. q = x BY <1>5, <1>7, <2>1
  <2>3. SameKey(q, q) BY DEF SameKey
  <2> QED BY <1>1, <1>7, <2>2, <2>3
<1>8. ASSUME NEW q \in out, q.status = "running" PROVE q \in rs \cup new
  <2>1. PICK x \in all : q = after(x) BY <1>4
  <2> QED BY <1>1, <1>5, <1>8, <2>1
<1>9. ASSUME NEW x \in rs, ~Live(x) PROVE x \in out
  <2>1. x \in all /\ x.status # "pending" BY <1>1, <1>9 DEF Live
  <2> QED BY <1>4, <1>5, <2>1
<1>10. ASSUME NEW q \in out
       PROVE  \/ \E x \in rs : SameKey(x, q) /\ (Live(q) => Live(x))
              \/ \E x \in new : SameKey(x, q) /\ \A r \in rs : ~SameKey(r, q)
  <2>1. PICK x \in all : q = after(x) BY <1>4
  <2>2. SameKey(x, q) /\ (Live(q) => Live(x)) BY <1>5, <2>1 DEF SameKey, Live
  <2>3. x \notin rs => x \in new /\ \A r \in rs : ~SameKey(r, q)
    BY <1>1, <1>5, <2>1 DEF SameKey
  <2> QED BY <2>2, <2>3
<1> QED BY <1>6, <1>7, <1>8, <1>9, <1>10 DEF out, all

\* Advancing the clocks of the planned jobs.
LEMMA AdvanceMany ==
  ASSUME NEW js \in [Job -> JobRow \cup {NULL}], NEW rows, NEW plans, NEW t, PlansOK(plans, rows, t),
         DOMAIN rows \subseteq Job, \A j \in DOMAIN rows : js[j] \in JobRow
  PROVE  LET out == advanceMany(js, plans) IN
         /\ out \in [Job -> JobRow \cup {NULL}]
         /\ \A j \in Job \ DOMAIN rows : out[j] = js[j]
         /\ \A j \in DOMAIN rows : /\ out[j] \in JobRow /\ out[j].schedule = js[j].schedule
                                   /\ out[j].nextRunAt = plans[j].nextRunAt
<1> DEFINE next(j) == [js[j] EXCEPT !.nextRunAt = plans[j].nextRunAt,
                                    !.lastFiredAt = plans[j].lastFiredAt]
           out == advanceMany(js, plans)
<1>1. DOMAIN plans = DOMAIN rows BY DEF PlansOK
<1>2. out = [j \in Job |-> IF j \in DOMAIN rows THEN next(j) ELSE js[j]] BY <1>1 DEF advanceMany
<1>3. \A j \in DOMAIN rows : /\ next(j) \in JobRow /\ next(j).schedule = js[j].schedule
                             /\ next(j).nextRunAt = plans[j].nextRunAt
  <2> SUFFICES ASSUME NEW j \in DOMAIN rows
               PROVE  /\ next(j) \in JobRow /\ next(j).schedule = js[j].schedule
                      /\ next(j).nextRunAt = plans[j].nextRunAt
    OBVIOUS
  <2>1. plans[j] \in Plan BY DEF PlansOK, PlanOK
  <2>2. plans[j].nextRunAt \in Nat \cup {NULL} /\ plans[j].lastFiredAt \in Nat \cup {NULL}
    BY <2>1 DEF Plan, Instant
  <2>3. js[j] \in JobRow OBVIOUS
  <2> QED BY <2>2, <2>3 DEF JobRow
<1> HIDE DEF next, out
<1>4. out \in [Job -> JobRow \cup {NULL}] BY <1>2, <1>3
<1> QED BY <1>2, <1>3, <1>4 DEF out

\* What a pass over rows records in rs, and which of its late runs are new.
LEMMA PassRecords ==
  ASSUME NEW rows, NEW t \in Nat, NEW failing, RowsOK(rows, t, failing), NEW rs, RowsKept(rs)
  PROVE  LET plans == passPlans(rows, t, failing)
             out == updateToMissed(insertIgnoringDuplicates(rs, toNewOccurrences(plans, t)), plans)
         IN /\ PlansOK(plans, rows, t) /\ RowsKept(out) /\ Carries(rs, plans, out)
            /\ \A j \in DOMAIN rows \ failing : Reaches(plans[j], rows[j], t)
            /\ \A q \in out : q.status = "running" => q \in rs
            /\ \A r, q \in out :
                 /\ r.status = "pending" /\ r.runAt > r.scheduledFor
                 /\ q.status = "pending" /\ q.runAt > q.scheduledFor
                 /\ \A p \in rs : ~SameKey(p, r) /\ ~SameKey(p, q)
                 => /\ r.jobId \in DOMAIN rows /\ q.jobId \in DOMAIN rows
                    /\ r.jobId = q.jobId => r = q
                    /\ /\ Owner[r.jobId] = Owner[q.jobId]
                       /\ rows[r.jobId].misfirePolicy = "coalesce_owner"
                       /\ rows[q.jobId].misfirePolicy = "coalesce_owner"
                       => r = q
<1> DEFINE plans == passPlans(rows, t, failing)
           new == toNewOccurrences(plans, t)
           out == updateToMissed(insertIgnoringDuplicates(rs, new), plans)
<1>1. /\ PlansOK(plans, rows, t) /\ OneWinner(plans, rows)
      /\ \A j \in DOMAIN rows \ failing : Reaches(plans[j], rows[j], t)
  BY PassPlans
<1> HIDE DEF plans
<1>2. /\ RowsKept(new)
      /\ \A q \in new : /\ q.status = "pending" /\ q.jobId \in DOMAIN rows
                        /\ q.scheduledFor \in plans[q.jobId].occurrences
                        /\ q.runAt > q.scheduledFor =>
                             /\ plans[q.jobId].catchUpAt # NULL
                             /\ q.scheduledFor = plans[q.jobId].catchUpAt
  BY <1>1, NewOccurrences DEF RowsOK
<1> HIDE DEF new
<1>3. /\ RowsKept(out)
      /\ \A q \in out : q.status = "pending" /\ (\A r \in rs : ~SameKey(r, q)) => q \in new
      /\ \A q \in out : q.status = "running" => q \in rs \cup new
      /\ \A x \in rs : ~Live(x) => x \in out
      /\ \A q \in out :
           \/ \E x \in rs : SameKey(x, q) /\ (Live(q) => Live(x))
           \/ \E x \in new : SameKey(x, q) /\ \A r \in rs : ~SameKey(r, q)
  BY <1>2, Recorded
<1> HIDE DEF out
<1>4. ASSUME NEW r \in out, NEW q \in out,
             r.status = "pending", r.runAt > r.scheduledFor,
             q.status = "pending", q.runAt > q.scheduledFor,
             \A p \in rs : ~SameKey(p, r) /\ ~SameKey(p, q)
      PROVE  /\ r.jobId \in DOMAIN rows /\ q.jobId \in DOMAIN rows
             /\ r.jobId = q.jobId => r = q
             /\ /\ Owner[r.jobId] = Owner[q.jobId]
                /\ rows[r.jobId].misfirePolicy = "coalesce_owner"
                /\ rows[q.jobId].misfirePolicy = "coalesce_owner"
                => r = q
  <2>1. r \in new /\ q \in new BY <1>3, <1>4
  <2>2. /\ r.jobId \in DOMAIN rows /\ plans[r.jobId].catchUpAt # NULL
        /\ r.scheduledFor = plans[r.jobId].catchUpAt
    BY <1>2, <1>4, <2>1
  <2>3. /\ q.jobId \in DOMAIN rows /\ plans[q.jobId].catchUpAt # NULL
        /\ q.scheduledFor = plans[q.jobId].catchUpAt
    BY <1>2, <1>4, <2>1
  <2>4. r.jobId = q.jobId => r = q
    BY <1>3, <2>2, <2>3 DEF RowsKept, SameKey
  <2>5. /\ Owner[r.jobId] = Owner[q.jobId]
        /\ rows[r.jobId].misfirePolicy = "coalesce_owner"
        /\ rows[q.jobId].misfirePolicy = "coalesce_owner"
        => r.jobId = q.jobId
    BY <1>1, <2>2, <2>3 DEF OneWinner
  <2> QED BY <2>2, <2>3, <2>4, <2>5
<1>5. \A q \in out : q.status = "running" => q \in rs BY <1>2, <1>3
<1>6. Carries(rs, plans, out)
  <2>1. DOMAIN plans = DOMAIN rows BY <1>1 DEF PlansOK
  <2>2. \A x \in new : \A q : SameKey(x, q) =>
          q.jobId \in DOMAIN plans /\ q.scheduledFor \in plans[q.jobId].occurrences
    BY <1>2, <2>1 DEF SameKey
  <2> QED BY <1>3, <2>2 DEF Carries
<1> QED BY <1>1, <1>3, <1>4, <1>5, <1>6 DEF out, new, plans

-----------------------------------------------------------------------------
\* The steps.

\* What every step has to show besides the invariant.
ClocksGoOn ==
  \A j \in Job :
    /\ jobs[j] # NULL /\ jobs'[j] # NULL /\ jobs[j].nextRunAt # NULL
    /\ jobs'[j].schedule = jobs[j].schedule
    => jobs'[j].nextRunAt = NULL \/ jobs'[j].nextRunAt >= jobs[j].nextRunAt

OneLateRun ==
  \A r, q \in tasks' \ tasks :
    /\ r.status = "pending" /\ r.runAt > r.scheduledFor
    /\ q.status = "pending" /\ q.runAt > q.scheduledFor
    /\ \A p \in tasks : ~SameKey(p, r) /\ ~SameKey(p, q)
    /\ Owner[r.jobId] = Owner[q.jobId]
    /\ jobs[r.jobId].misfirePolicy = "coalesce_owner"
    /\ jobs[q.jobId].misfirePolicy = "coalesce_owner"
    => r = q

ClaimsInTime ==
  \A r \in tasks, q \in tasks' :
    /\ SameKey(r, q) /\ r.status = "pending" /\ q.status = "running"
    /\ ~r.attempted /\ r.runAt = r.scheduledFor
    => now < r.scheduledFor + 2 * Grace

StepOK == ClocksGoOn /\ OneLateRun /\ ClaimsInTime

\* A step that claims no row.
LEMMA NothingClaimed ==
  ASSUME IInv, \A q \in tasks' : q.status = "running" => q \in tasks PROVE ClaimsInTime
BY DEF IInv, OneRowPerInstant, ClaimsInTime

\* Nor does one that leaves the rows alone or takes some away, and it records none.
LEMMA NothingRecorded ==
  ASSUME IInv, tasks' \subseteq tasks PROVE OneLateRun /\ ClaimsInTime
BY NothingClaimed DEF OneLateRun

\* The part of the invariant that is about rows.
LEMMA RowsOfInv ==
  /\ IInv => RowsKept(tasks)
  /\ RowsKept(tasks') => tasks' \subseteq TaskRow /\ OneRowPerInstant' /\ DeadlinesTight'
BY DEF IInv, TypeOK, OneRowPerInstant, DeadlinesTight, RowsKept, SameKey

\* The ended rows' keys are keys.
LEMMA SettledTyped ==
  ASSUME IInv, NEW rs \in SUBSET TaskRow PROVE settledBy(rs) \subseteq Job \X Nat
BY DEF IInv, TypeOK, TaskRow, settledBy, Key

\* Passes keep the rest when no claimed job changes under another pass.
LEMMA ClaimInv ==
  ASSUME IInv, NEW m \in Main, ClaimDueJobs(m) PROVE IInv' /\ StepOK
<1> DEFINE due == {j \in Job : /\ jobs[j] # NULL /\ ~Locked(j)
                               /\ jobs[j].nextRunAt # NULL
                               /\ jobs[j].nextRunAt <= now + Lookahead}
<1>1. PICK claimed \in SUBSET due : tx' = [tx EXCEPT ![m] = [now |-> now, jobs |-> claimed]]
  BY DEF ClaimDueJobs
<1>2. UNCHANGED <<now, jobs, tasks, issued, prov, settled, owed, budget>>
  BY DEF ClaimDueJobs, Calm, history
<1>3. [now |-> now, jobs |-> claimed] \in Transaction BY DEF IInv, TypeOK, Transaction
<1>4. \A n \in Main : tx'[n] = IF n = m THEN [now |-> now, jobs |-> claimed] ELSE tx[n]
  BY <1>1 DEF IInv, TypeOK
<1>5. TypeOK' BY <1>1, <1>2, <1>3 DEF IInv, TypeOK
<1>6. ClaimsOK' BY <1>2, <1>4 DEF IInv, ClaimsOK
<1>7. ClaimsApart'
  <2> SUFFICES ASSUME NEW a \in Main, NEW b \in Main, a # b, tx'[a] # NULL, tx'[b] # NULL,
                      NEW j \in tx'[a].jobs, j \in tx'[b].jobs
               PROVE  FALSE
    BY DEF ClaimsApart
  <2>1. CASE a = m BY <1>4, <2>1 DEF Locked
  <2>2. CASE b = m BY <1>4, <2>2 DEF Locked
  <2>3. CASE a # m /\ b # m BY <1>4, <2>3 DEF IInv, ClaimsApart
  <2> QED BY <2>1, <2>2, <2>3
<1>8. OneRowPerInstant' /\ ProvisionCurrent' /\ DeadlinesTight'
  BY <1>2 DEF IInv, OneRowPerInstant, ProvisionCurrent, DeadlinesTight
<1>9. ClocksGoOn
  <2>1. \A j \in Job : jobs[j] # NULL /\ jobs[j].nextRunAt # NULL => jobs[j].nextRunAt \in Nat
    BY DEF IInv, TypeOK, JobRow
  <2> QED BY <1>2, <2>1 DEF ClocksGoOn
<1>10. OneLateRun /\ ClaimsInTime BY <1>2, NothingRecorded
<1> QED BY <1>5, <1>6, <1>7, <1>8, <1>9, <1>10 DEF IInv, StepOK

\* What a pass that commits makes of the rows and clocks: ended rows stay, a row it adds
\* lies between the clocks of its job and within the window of the claim.
PassCarries(m) ==
  /\ \A x \in tasks : ~Live(x) => x \in tasks'
  /\ \A q \in tasks' :
       \/ \E x \in tasks : SameKey(x, q) /\ (Live(q) => Live(x))
       \/ /\ q.jobId \in tx[m].jobs /\ q.scheduledFor <= tx[m].now + Window
          /\ q.scheduledFor >= jobs[q.jobId].nextRunAt
          /\ jobs'[q.jobId].nextRunAt # NULL => q.scheduledFor < jobs'[q.jobId].nextRunAt
  /\ \A j \in Job \ tx[m].jobs : jobs'[j] = jobs[j]
  /\ \A j \in tx[m].jobs : jobs'[j].nextRunAt # NULL => jobs'[j].nextRunAt >= jobs[j].nextRunAt

\* A pass that commits.
LEMMA CommitPassInv ==
  ASSUME IInv, NEW m \in Main, CommitPass(m) PROVE IInv' /\ StepOK /\ PassCarries(m)
<1> DEFINE t == tx[m].now
           claimed == tx[m].jobs
           rows == [j \in claimed |-> jobs[j]]
<1>1. PICK failing \in SUBSET claimed :
        LET plans == passPlans(rows, t, failing)
            recorded == insertIgnoringDuplicates(tasks, toNewOccurrences(plans, t))
        IN /\ (Calm \/ Disturb)
           /\ tasks' = updateToMissed(recorded, plans)
           /\ jobs' = advanceMany(jobs, plans)
           /\ owed' = nowOwed(plans, t, rows)
  BY DEF CommitPass
<1> DEFINE plans == passPlans(rows, t, failing)
           out == updateToMissed(insertIgnoringDuplicates(tasks, toNewOccurrences(plans, t)), plans)
<1>2. /\ tx[m] # NULL /\ (Calm \/ Disturb) /\ tasks' = out /\ jobs' = advanceMany(jobs, plans)
      /\ owed' = nowOwed(plans, t, rows)
      /\ settled' = settledBy(tasks')
      /\ tx' = [tx EXCEPT ![m] = NULL] /\ UNCHANGED <<now, issued, prov>>
  BY <1>1 DEF CommitPass
<1>3. t \in Nat /\ claimed \subseteq Job BY <1>2 DEF IInv, TypeOK, Transaction
<1>4. \A j \in claimed : /\ jobs[j] \in JobRow /\ jobs[j].nextRunAt # NULL
                         /\ jobs[j].nextRunAt <= t + Lookahead
  <2>1. \A j \in claimed : /\ jobs[j] # NULL /\ jobs[j].nextRunAt # NULL
                           /\ jobs[j].nextRunAt <= t + Lookahead
    BY <1>2 DEF IInv, ClaimsOK
  <2> QED BY <1>3, <2>1 DEF IInv, TypeOK
<1> HIDE DEF t, claimed
<1>5. DOMAIN rows = claimed /\ \A j \in claimed : rows[j] = jobs[j] OBVIOUS
<1> HIDE DEF rows
<1>6. RowsOK(rows, t, failing) BY <1>3, <1>4, <1>5 DEF RowsOK
<1>7. RowsKept(tasks) BY RowsOfInv
<1>8. /\ PlansOK(plans, rows, t) /\ RowsKept(out) /\ Carries(tasks, plans, out)
      /\ \A q \in out : q.status = "running" => q \in tasks
      /\ \A r, q \in out :
           /\ r.status = "pending" /\ r.runAt > r.scheduledFor
           /\ q.status = "pending" /\ q.runAt > q.scheduledFor
           /\ \A p \in tasks : ~SameKey(p, r) /\ ~SameKey(p, q)
           => /\ r.jobId \in DOMAIN rows /\ q.jobId \in DOMAIN rows
              /\ r.jobId = q.jobId => r = q
              /\ /\ Owner[r.jobId] = Owner[q.jobId]
                 /\ rows[r.jobId].misfirePolicy = "coalesce_owner"
                 /\ rows[q.jobId].misfirePolicy = "coalesce_owner"
                 => r = q
  BY <1>3, <1>6, <1>7, PassRecords
<1> HIDE DEF plans, out
<1>9. /\ jobs' \in [Job -> JobRow \cup {NULL}]
      /\ \A j \in Job \ claimed : jobs'[j] = jobs[j]
      /\ \A j \in claimed : /\ jobs'[j] \in JobRow /\ jobs'[j].schedule = jobs[j].schedule
                            /\ jobs'[j].nextRunAt = plans[j].nextRunAt
  <2>1. jobs \in [Job -> JobRow \cup {NULL}] BY DEF IInv, TypeOK
  <2> QED BY <1>2, <1>3, <1>4, <1>5, <1>8, <2>1, AdvanceMany
<1>10. \A n \in Main : tx'[n] # NULL => n # m /\ tx'[n] = tx[n] BY <1>2 DEF IInv, TypeOK
<1>11. owed' \subseteq Job
  <2>1. DOMAIN plans \subseteq Job BY <1>3, <1>5, <1>8 DEF PlansOK
  <2> QED BY <1>2, <2>1 DEF nowOwed, IInv, TypeOK
<1>12. budget' \in Nat BY <1>2 DEF IInv, TypeOK, Calm, Disturb
<1>13. tasks' \subseteq TaskRow /\ OneRowPerInstant' /\ DeadlinesTight' BY <1>2, <1>8, RowsOfInv
<1>14. TypeOK'
  <2>1. settled' \subseteq Job \X Nat BY <1>2, <1>13, SettledTyped
  <2> QED BY <1>2, <1>9, <1>11, <1>12, <1>13, <2>1 DEF IInv, TypeOK
<1>15. ClaimsOK'
  <2> SUFFICES ASSUME NEW n \in Main, tx'[n] # NULL, NEW j \in tx'[n].jobs
               PROVE  /\ jobs'[j] # NULL /\ jobs'[j].nextRunAt # NULL
                      /\ jobs'[j].nextRunAt <= tx'[n].now + Lookahead
    BY DEF ClaimsOK
  <2>1. n # m /\ tx'[n] = tx[n] /\ tx[n] # NULL BY <1>10
  <2>2. j \notin claimed BY <1>2, <2>1 DEF IInv, ClaimsApart, claimed
  <2>3. j \in Job BY <2>1 DEF IInv, TypeOK, Transaction
  <2> QED BY <1>9, <2>1, <2>2, <2>3 DEF IInv, ClaimsOK
<1>16. ClaimsApart' BY <1>10 DEF IInv, ClaimsApart
<1>17. ProvisionCurrent'
  <2> SUFFICES ASSUME prov # NULL
               PROVE  /\ prov.current = NULL => jobs'[prov.job] = NULL
                      /\ prov.current # NULL /\ jobs'[prov.job] # NULL =>
                           /\ jobs'[prov.job].schedule = prov.current.schedule
                           /\ prov.current.nextRunAt = NULL => jobs'[prov.job].nextRunAt = NULL
    BY <1>2 DEF ProvisionCurrent
  <2>1. prov.job \in Job BY DEF IInv, TypeOK, Provision
  <2>2. CASE prov.job \notin claimed BY <1>9, <2>1, <2>2 DEF IInv, ProvisionCurrent
  <2>3. CASE prov.job \in claimed
    <3>1. jobs[prov.job] # NULL /\ jobs[prov.job].nextRunAt # NULL
      BY <1>2, <2>3 DEF IInv, ClaimsOK, claimed
    <3> QED BY <1>9, <2>3, <3>1 DEF IInv, ProvisionCurrent
  <2> QED BY <2>2, <2>3
<1>18. ClocksGoOn
  <2> SUFFICES ASSUME NEW j \in Job, jobs[j] # NULL, jobs[j].nextRunAt # NULL
               PROVE  jobs'[j].nextRunAt = NULL \/ jobs'[j].nextRunAt >= jobs[j].nextRunAt
    BY DEF ClocksGoOn
  <2>1. jobs[j].nextRunAt \in Nat BY DEF IInv, TypeOK, JobRow
  <2>2. CASE j \notin claimed BY <1>9, <2>1, <2>2
  <2>3. CASE j \in claimed
    <3>1. PlanOK(plans[j], jobs[j], t) BY <1>5, <1>8, <2>3 DEF PlansOK
    <3> QED BY <1>9, <2>3, <3>1 DEF PlanOK
  <2> QED BY <2>2, <2>3
<1>19. OneLateRun BY <1>2, <1>5, <1>8 DEF OneLateRun
<1>20. ClaimsInTime BY <1>2, <1>8, NothingClaimed
<1>21. PassCarries(m)
  <2>1. \A j \in claimed : PlanOK(plans[j], jobs[j], t) BY <1>5, <1>8 DEF PlansOK
  <2>2. \A j \in claimed : jobs'[j].nextRunAt # NULL => jobs'[j].nextRunAt >= jobs[j].nextRunAt
    BY <1>9, <2>1 DEF PlanOK
  <2>3. ASSUME NEW q \in tasks'
        PROVE  \/ \E x \in tasks : SameKey(x, q) /\ (Live(q) => Live(x))
               \/ /\ q.jobId \in claimed /\ q.scheduledFor <= t + Window
                  /\ q.scheduledFor >= jobs[q.jobId].nextRunAt
                  /\ jobs'[q.jobId].nextRunAt # NULL => q.scheduledFor < jobs'[q.jobId].nextRunAt
    <3>1. CASE /\ q.jobId \in DOMAIN plans /\ q.scheduledFor \in plans[q.jobId].occurrences
               /\ \A x \in tasks : ~SameKey(x, q)
      <4>1. q.jobId \in claimed BY <1>5, <1>8, <3>1 DEF PlansOK
      <4> QED BY <1>9, <2>1, <3>1, <4>1 DEF PlanOK
    <3> QED BY <1>2, <1>8, <3>1 DEF Carries
  <2>4. \A x \in tasks : ~Live(x) => x \in tasks' BY <1>2, <1>8 DEF Carries
  <2> QED BY <1>9, <2>2, <2>3, <2>4 DEF PassCarries, claimed, t
<1> QED BY <1>13, <1>14, <1>15, <1>16, <1>17, <1>18, <1>19, <1>20, <1>21 DEF IInv, StepOK

\* Steps that leave the job table alone, or take rows away at most.
LEMMA ClocksStand ==
  ASSUME IInv, \A j \in Job : jobs'[j] = jobs[j] \/ jobs'[j] = NULL PROVE ClocksGoOn
<1>1. \A j \in Job : jobs[j] # NULL /\ jobs[j].nextRunAt # NULL => jobs[j].nextRunAt \in Nat
  BY DEF IInv, TypeOK, JobRow
<1> QED BY <1>1 DEF ClocksGoOn

\* Part of the rows.
LEMMA FewerRows ==
  ASSUME NEW rs, RowsKept(rs), NEW some \in SUBSET rs PROVE RowsKept(some)
BY DEF RowsKept

\* A pass that rolls back leaves no trace.
LEMMA RollbackPassInv ==
  ASSUME IInv, NEW m \in Main, RollbackPass(m) PROVE IInv' /\ StepOK
<1>1. /\ Disturb /\ tx' = [tx EXCEPT ![m] = NULL]
      /\ UNCHANGED <<now, jobs, tasks, issued, prov, settled, owed>>
  BY DEF RollbackPass, history
<1>2. \A n \in Main : tx'[n] # NULL => tx'[n] = tx[n] BY <1>1 DEF IInv, TypeOK
<1>3. budget' \in Nat BY <1>1 DEF IInv, TypeOK, Disturb
<1>4. TypeOK' BY <1>1, <1>3 DEF IInv, TypeOK
<1>5. ClaimsOK' /\ ClaimsApart' BY <1>1, <1>2 DEF IInv, ClaimsOK, ClaimsApart
<1>6. OneRowPerInstant' /\ ProvisionCurrent' /\ DeadlinesTight'
  BY <1>1 DEF IInv, OneRowPerInstant, ProvisionCurrent, DeadlinesTight
<1>7. ClocksGoOn BY <1>1, ClocksStand
<1>8. OneLateRun /\ ClaimsInTime BY <1>1, NothingRecorded
<1> QED BY <1>4, <1>5, <1>6, <1>7, <1>8 DEF IInv, StepOK

\* A provision that begins has read the row as it is.
LEMMA BeginProvisionInv ==
  ASSUME IInv, NEW j \in Job, NEW schedule \in Schedules, NEW policy \in Policies,
         BeginProvision(j, schedule, policy)
  PROVE  IInv' /\ StepOK
<1> DEFINE p == [job |-> j, schedule |-> schedule, misfirePolicy |-> policy, at |-> now,
                 firstRunAt |-> computeFirstRunAt(schedule, now), current |-> jobs[j]]
<1>1. /\ prov' = p /\ (Calm \/ Disturb)
      /\ UNCHANGED <<now, jobs, tasks, issued, tx, settled, owed>>
  BY DEF BeginProvision, history
<1>2. now \in Nat /\ jobs[j] \in JobRow \cup {NULL} BY DEF IInv, TypeOK
<1>3. computeFirstRunAt(schedule, now) \in Nat \cup {NULL} BY <1>2, FirstRunType DEF Instant
<1>4. p \in Provision /\ p.job = j /\ p.current = jobs[j] BY <1>2, <1>3 DEF Provision
<1> HIDE DEF p
<1>5. budget' \in Nat BY <1>1 DEF IInv, TypeOK, Disturb, Calm
<1>6. TypeOK' BY <1>1, <1>4, <1>5 DEF IInv, TypeOK
<1>7. ProvisionCurrent' BY <1>1, <1>4 DEF ProvisionCurrent
<1>8. OneRowPerInstant' /\ ClaimsOK' /\ ClaimsApart' /\ DeadlinesTight'
  BY <1>1 DEF IInv, OneRowPerInstant, ClaimsOK, ClaimsApart, DeadlinesTight
<1>9. ClocksGoOn BY <1>1, ClocksStand
<1>10. OneLateRun /\ ClaimsInTime BY <1>1, NothingRecorded
<1> QED BY <1>6, <1>7, <1>8, <1>9, <1>10 DEF IInv, StepOK

\* What seeding job j over row records: instants of its own, of which it had no ended row;
\* and its clock is past the window, or as far as the cap allows.
SeedCarries(j, row) ==
  /\ \A x \in tasks : ~Live(x) => x \in tasks'
  /\ \A q \in tasks' :
       \/ \E x \in tasks : SameKey(x, q) /\ (Live(q) => Live(x))
       \/ /\ q.jobId = j /\ row.nextRunAt # NULL
          /\ q.scheduledFor >= row.nextRunAt /\ q.scheduledFor <= now + Window
          /\ \A x \in tasks : ~Live(x) => ~SameKey(x, q)
  /\ jobs'[j] # NULL
  /\ jobs'[j].nextRunAt # NULL =>
       /\ row.nextRunAt # NULL
       /\ jobs'[j].nextRunAt > now + Window \/ jobs'[j].nextRunAt >= row.nextRunAt + MaxPerJob

\* A row written over a job and seeded: one job changes, and its first window is recorded.
LEMMA Seeded ==
  ASSUME IInv, NEW j \in Job, NEW row \in JobRow, seedInitialOccurrences(j, row)
  PROVE  /\ RowsKept(tasks') /\ OneLateRun /\ ClaimsInTime /\ owed' \subseteq Job
         /\ SeedCarries(j, row)
         /\ jobs' \in [Job -> JobRow \cup {NULL}] /\ \A k \in Job \ {j} : jobs'[k] = jobs[k]
         /\ jobs'[j].schedule = row.schedule
         /\ jobs'[j].nextRunAt # NULL =>
              row.nextRunAt # NULL /\ jobs'[j].nextRunAt >= row.nextRunAt
<1> DEFINE kept == {r \in tasks : ~(r.jobId = j /\ r.status = "pending")}
           who == IF row.nextRunAt = NULL THEN {} ELSE {j}
           rows == [i \in who |-> row]
           none == {}
           plans == passPlans(rows, now, none)
           out == updateToMissed(insertIgnoringDuplicates(kept, toNewOccurrences(plans, now)), plans)
           js == [jobs EXCEPT ![j] = row]
<1>1. /\ tasks' = out /\ jobs' = advanceMany(js, plans)
      /\ owed' = nowOwed(plans, now, rows) \ ({j} \ DOMAIN plans)
  BY DEF seedInitialOccurrences
<1>2. who \subseteq {j} /\ (j \in who <=> row.nextRunAt # NULL) OBVIOUS
<1> HIDE DEF who
<1>3. DOMAIN rows = who /\ \A i \in who : rows[i] = row OBVIOUS
<1> HIDE DEF rows
<1>4. now \in Nat BY DEF IInv, TypeOK
<1>5. RowsOK(rows, now, none) BY <1>2, <1>3 DEF RowsOK
<1>6. RowsKept(kept) BY RowsOfInv, FewerRows
<1>7. kept \subseteq tasks /\ \A x \in tasks : ~Live(x) => x \in kept BY DEF Live
<1> HIDE DEF kept
<1>8. /\ PlansOK(plans, rows, now) /\ RowsKept(out) /\ Carries(kept, plans, out)
      /\ \A k \in DOMAIN rows \ none : Reaches(plans[k], rows[k], now)
      /\ \A q \in out : q.status = "running" => q \in kept
      /\ \A r, q \in out :
           /\ r.status = "pending" /\ r.runAt > r.scheduledFor
           /\ q.status = "pending" /\ q.runAt > q.scheduledFor
           /\ \A p \in kept : ~SameKey(p, r) /\ ~SameKey(p, q)
           => /\ r.jobId \in DOMAIN rows /\ q.jobId \in DOMAIN rows
              /\ r.jobId = q.jobId => r = q
              /\ /\ Owner[r.jobId] = Owner[q.jobId]
                 /\ rows[r.jobId].misfirePolicy = "coalesce_owner"
                 /\ rows[q.jobId].misfirePolicy = "coalesce_owner"
                 => r = q
  <2> HIDE DEF none
  <2> QED BY <1>4, <1>5, <1>6, PassRecords
<1> HIDE DEF plans, out
<1>9. OneLateRun BY <1>1, <1>2, <1>3, <1>7, <1>8 DEF OneLateRun
<1>10. js \in [Job -> JobRow \cup {NULL}] /\ js[j] = row /\ \A k \in Job \ {j} : js[k] = jobs[k]
  BY DEF IInv, TypeOK
<1> HIDE DEF js
<1>11. /\ jobs' \in [Job -> JobRow \cup {NULL}]
       /\ \A k \in Job \ who : jobs'[k] = js[k]
       /\ \A k \in who : /\ jobs'[k] \in JobRow /\ jobs'[k].schedule = js[k].schedule
                         /\ jobs'[k].nextRunAt = plans[k].nextRunAt
  BY <1>1, <1>2, <1>3, <1>8, <1>10, AdvanceMany
<1>12. owed' \subseteq Job
  <2>1. DOMAIN plans \subseteq Job BY <1>2, <1>3, <1>8 DEF PlansOK
  <2> QED BY <1>1, <2>1 DEF nowOwed, IInv, TypeOK
<1>13. /\ jobs'[j].schedule = row.schedule
       /\ jobs'[j].nextRunAt # NULL =>
            row.nextRunAt # NULL /\ jobs'[j].nextRunAt >= row.nextRunAt
  <2>1. CASE j \in who
    <3>1. PlanOK(plans[j], row, now) BY <1>3, <1>8, <2>1 DEF PlansOK
    <3> QED BY <1>2, <1>10, <1>11, <2>1, <3>1 DEF PlanOK
  <2>2. CASE j \notin who BY <1>2, <1>10, <1>11, <2>2
  <2> QED BY <2>1, <2>2
<1>14. ClaimsInTime BY <1>1, <1>7, <1>8, NothingClaimed
<1>15. SeedCarries(j, row)
  <2>1. \A x \in tasks : ~Live(x) => x \in tasks' BY <1>1, <1>7, <1>8 DEF Carries
  <2>2. ASSUME NEW q \in tasks'
        PROVE  \/ \E x \in tasks : SameKey(x, q) /\ (Live(q) => Live(x))
               \/ /\ q.jobId = j /\ row.nextRunAt # NULL
                  /\ q.scheduledFor >= row.nextRunAt /\ q.scheduledFor <= now + Window
                  /\ \A x \in tasks : ~Live(x) => ~SameKey(x, q)
    <3>1. CASE \E x \in kept : SameKey(x, q) /\ (Live(q) => Live(x)) BY <1>7, <3>1
    <3>2. CASE /\ q.jobId \in DOMAIN plans /\ q.scheduledFor \in plans[q.jobId].occurrences
               /\ \A x \in kept : ~SameKey(x, q)
      <4>1. q.jobId = j /\ q.jobId \in who /\ row.nextRunAt # NULL
        BY <1>2, <1>3, <1>8, <3>2 DEF PlansOK
      <4>2. PlanOK(plans[j], row, now) BY <1>3, <1>8, <4>1 DEF PlansOK
      <4> QED BY <1>7, <3>2, <4>1, <4>2 DEF PlanOK
    <3> QED BY <1>1, <1>8, <3>1, <3>2 DEF Carries
  <2>3. jobs'[j].nextRunAt # NULL =>
          /\ row.nextRunAt # NULL
          /\ jobs'[j].nextRunAt > now + Window \/ jobs'[j].nextRunAt >= row.nextRunAt + MaxPerJob
    <3>1. CASE j \in who
      <4>1. Reaches(plans[j], row, now) BY <1>3, <1>8, <3>1
      <4> QED BY <1>11, <1>13, <3>1, <4>1 DEF Reaches
    <3>2. CASE j \notin who BY <1>2, <1>10, <1>11, <3>2
    <3> QED BY <3>1, <3>2
  <2>4. jobs'[j] # NULL
    <3>1. jobs'[j] \in JobRow BY <1>2, <1>10, <1>11
    <3> QED BY <3>1, NullAssumption
  <2> QED BY <2>1, <2>2, <2>3, <2>4 DEF SeedCarries
<1> QED BY <1>1, <1>2, <1>8, <1>9, <1>10, <1>11, <1>12, <1>13, <1>14, <1>15

\* Writing a job that no pass has claimed, at the end of a provision.
LEMMA ProvisionEnds ==
  ASSUME IInv, NEW j \in Job, ~Locked(j), RowsKept(tasks'), owed' \subseteq Job, issued' \subseteq Job,
         jobs' \in [Job -> JobRow \cup {NULL}], \A k \in Job \ {j} : jobs'[k] = jobs[k],
         prov' = NULL, Calm, settled' = settledBy(tasks'), UNCHANGED <<now, tx>>
  PROVE  IInv'
<1>1. tasks' \subseteq TaskRow /\ OneRowPerInstant' /\ DeadlinesTight' BY RowsOfInv
<1>2. TypeOK'
  <2>1. settled' \subseteq Job \X Nat BY <1>1, SettledTyped
  <2> QED BY <1>1, <2>1 DEF IInv, TypeOK, Calm
<1>3. ClaimsOK'
  <2> SUFFICES ASSUME NEW m \in Main, tx[m] # NULL, NEW k \in tx[m].jobs
               PROVE  /\ jobs'[k] # NULL /\ jobs'[k].nextRunAt # NULL
                      /\ jobs'[k].nextRunAt <= tx[m].now + Lookahead
    BY DEF ClaimsOK
  <2>1. k \in Job \ {j} BY DEF Locked, IInv, TypeOK, Transaction
  <2> QED BY <2>1 DEF IInv, ClaimsOK
<1>4. ClaimsApart' BY DEF IInv, ClaimsApart
<1>5. ProvisionCurrent' BY DEF ProvisionCurrent
<1> QED BY <1>1, <1>2, <1>3, <1>4, <1>5 DEF IInv

\* A provision that commits, whichever way it took.
LEMMA CommitProvisionInv ==
  ASSUME IInv, CommitProvision PROVE IInv' /\ StepOK
<1> DEFINE j == prov.job
<1>1. /\ Insert \/ Redefine \/ UpdateMisfirePolicy
      /\ prov # NULL /\ prov' = NULL /\ Calm /\ settled' = settledBy(tasks')
      /\ UNCHANGED <<now, tx>>
  BY DEF CommitProvision, Insert, Redefine, UpdateMisfirePolicy
<1>2. /\ prov \in Provision /\ j \in Job /\ prov.schedule \in Schedules /\ prov.misfirePolicy \in Policies
      /\ prov.firstRunAt \in Nat \cup {NULL}
  BY <1>1 DEF IInv, TypeOK, Provision
<1>3. \A k \in Job : jobs[k] # NULL /\ jobs[k].nextRunAt # NULL => jobs[k].nextRunAt \in Nat
  BY DEF IInv, TypeOK, JobRow
<1>4. CASE Insert
  <2> DEFINE row == [schedule |-> prov.schedule, misfirePolicy |-> prov.misfirePolicy,
                     nextRunAt |-> prov.firstRunAt, lastFiredAt |-> NULL]
  <2>1. prov.current = NULL /\ seedInitialOccurrences(j, row) /\ issued' = issued \cup {j}
    BY <1>4 DEF Insert
  <2>2. row \in JobRow BY <1>2 DEF JobRow
  <2> HIDE DEF row, j
  <2>3. /\ RowsKept(tasks') /\ OneLateRun /\ ClaimsInTime /\ owed' \subseteq Job
        /\ jobs' \in [Job -> JobRow \cup {NULL}] /\ \A k \in Job \ {j} : jobs'[k] = jobs[k]
    BY <1>2, <2>1, <2>2, Seeded
  <2>4. jobs[j] = NULL BY <1>1, <2>1 DEF IInv, ProvisionCurrent, j
  <2>5. ~Locked(j) BY <1>1, <2>4 DEF Locked, IInv, ClaimsOK
  <2>6. issued' \subseteq Job BY <1>2, <2>1 DEF IInv, TypeOK
  <2>7. IInv' BY <1>1, <1>2, <2>3, <2>5, <2>6, ProvisionEnds
  <2>8. ClocksGoOn BY <1>3, <2>3, <2>4 DEF ClocksGoOn
  <2> QED BY <2>3, <2>7, <2>8 DEF StepOK
<1>5. CASE Redefine
  <2> DEFINE row == [jobs[j] EXCEPT !.schedule = prov.schedule, !.nextRunAt = prov.firstRunAt,
                                    !.misfirePolicy = prov.misfirePolicy]
  <2>1. /\ prov.current # NULL /\ jobs[j] # NULL /\ ~Locked(j) /\ ~holdsDefinition(prov)
        /\ seedInitialOccurrences(j, row) /\ UNCHANGED issued
    BY <1>5 DEF Redefine
  <2>2. jobs[j] \in JobRow BY <1>2, <2>1 DEF IInv, TypeOK
  <2>3. row \in JobRow /\ row.schedule = prov.schedule /\ row.nextRunAt = prov.firstRunAt
    BY <1>2, <2>2 DEF JobRow
  <2>4. /\ jobs[j].schedule = prov.current.schedule
        /\ prov.current.nextRunAt = NULL => jobs[j].nextRunAt = NULL
    BY <1>1, <2>1 DEF IInv, ProvisionCurrent
  <2> HIDE DEF row, j
  <2>5. /\ RowsKept(tasks') /\ OneLateRun /\ ClaimsInTime /\ owed' \subseteq Job
        /\ jobs' \in [Job -> JobRow \cup {NULL}] /\ \A k \in Job \ {j} : jobs'[k] = jobs[k]
        /\ jobs'[j].schedule = row.schedule
        /\ jobs'[j].nextRunAt # NULL =>
             row.nextRunAt # NULL /\ jobs'[j].nextRunAt >= row.nextRunAt
    BY <1>2, <2>1, <2>3, Seeded
  <2>6. issued' \subseteq Job BY <2>1 DEF IInv, TypeOK
  <2>7. IInv' BY <1>1, <1>2, <2>1, <2>5, <2>6, ProvisionEnds
  <2>8. ClocksGoOn
    <3> SUFFICES ASSUME NEW k \in Job, jobs[k] # NULL, jobs[k].nextRunAt # NULL,
                        jobs'[k].schedule = jobs[k].schedule
                 PROVE  jobs'[k].nextRunAt = NULL \/ jobs'[k].nextRunAt >= jobs[k].nextRunAt
      BY DEF ClocksGoOn
    <3>1. CASE k # j BY <1>3, <2>5, <3>1
    <3>2. CASE k = j
      <4>1. prov.schedule = prov.current.schedule /\ prov.current.nextRunAt # NULL
        BY <2>3, <2>4, <2>5, <3>2
      <4>2. prov.firstRunAt = NULL BY <2>1, <4>1 DEF holdsDefinition
      <4> QED BY <2>3, <2>5, <3>2, <4>2
    <3> QED BY <3>1, <3>2
  <2> QED BY <2>5, <2>7, <2>8 DEF StepOK
<1>6. CASE UpdateMisfirePolicy
  <2> DEFINE row == [jobs[j] EXCEPT !.misfirePolicy = prov.misfirePolicy]
  <2>1. /\ jobs[j] # NULL /\ ~Locked(j) /\ jobs' = [jobs EXCEPT ![j] = row]
        /\ UNCHANGED <<tasks, issued, owed>>
    BY <1>6 DEF UpdateMisfirePolicy
  <2>2. jobs[j] \in JobRow BY <1>2, <2>1 DEF IInv, TypeOK
  <2>3. row \in JobRow /\ row.nextRunAt = jobs[j].nextRunAt BY <1>2, <2>2 DEF JobRow
  <2> HIDE DEF row, j
  <2>4. /\ jobs' \in [Job -> JobRow \cup {NULL}] /\ jobs'[j] = row
        /\ \A k \in Job \ {j} : jobs'[k] = jobs[k]
    BY <1>2, <2>1, <2>3 DEF IInv, TypeOK
  <2>5. RowsKept(tasks') /\ owed' \subseteq Job /\ issued' \subseteq Job
    BY <2>1, RowsOfInv DEF IInv, TypeOK
  <2>6. IInv' BY <1>1, <1>2, <2>1, <2>4, <2>5, ProvisionEnds
  <2>7. ClocksGoOn BY <1>3, <2>3, <2>4 DEF ClocksGoOn
  <2>8. OneLateRun /\ ClaimsInTime BY <2>1, NothingRecorded
  <2> QED BY <2>6, <2>7, <2>8 DEF StepOK
<1> QED BY <1>1, <1>4, <1>5, <1>6

\* A provision that rolls back.
LEMMA RollbackProvisionInv ==
  ASSUME IInv, RollbackProvision PROVE IInv' /\ StepOK
<1>1. prov' = NULL /\ UNCHANGED <<now, jobs, tasks, issued, tx, settled, owed, budget>>
  BY DEF RollbackProvision, Calm, history
<1>2. TypeOK' BY <1>1 DEF IInv, TypeOK
<1>3. OneRowPerInstant' /\ ClaimsOK' /\ ClaimsApart' /\ ProvisionCurrent' /\ DeadlinesTight'
  BY <1>1 DEF IInv, OneRowPerInstant, ClaimsOK, ClaimsApart, ProvisionCurrent, DeadlinesTight
<1>4. ClocksGoOn BY <1>1, ClocksStand
<1>5. OneLateRun /\ ClaimsInTime BY <1>1, NothingRecorded
<1> QED BY <1>2, <1>3, <1>4, <1>5 DEF IInv, StepOK

\* Removing a job takes its rows with it, and never under a pass.
LEMMA RemoveJobInv ==
  ASSUME IInv, NEW j \in Job, RemoveJob(j) PROVE IInv' /\ StepOK
<1>1. /\ ~Locked(j) /\ Disturb /\ jobs' = [jobs EXCEPT ![j] = NULL]
      /\ tasks' = {r \in tasks : r.jobId # j} /\ owed' = owed \ {j}
      /\ UNCHANGED <<now, issued, tx, prov, settled>>
  BY DEF RemoveJob
<1>2. /\ jobs' \in [Job -> JobRow \cup {NULL}]
      /\ \A k \in Job : jobs'[k] = IF k = j THEN NULL ELSE jobs[k]
  BY <1>1 DEF IInv, TypeOK
<1>3. RowsKept(tasks') BY <1>1, RowsOfInv, FewerRows
<1>4. tasks' \subseteq TaskRow /\ OneRowPerInstant' /\ DeadlinesTight' BY <1>3, RowsOfInv
<1>5. budget' \in Nat BY <1>1 DEF IInv, TypeOK, Disturb
<1>6. TypeOK' BY <1>1, <1>2, <1>4, <1>5 DEF IInv, TypeOK
<1>7. ClaimsOK'
  <2> SUFFICES ASSUME NEW m \in Main, tx[m] # NULL, NEW k \in tx[m].jobs
               PROVE  /\ jobs'[k] # NULL /\ jobs'[k].nextRunAt # NULL
                      /\ jobs'[k].nextRunAt <= tx[m].now + Lookahead
    BY <1>1 DEF ClaimsOK
  <2>1. k \in Job \ {j} BY <1>1 DEF Locked, IInv, TypeOK, Transaction
  <2> QED BY <1>2, <2>1 DEF IInv, ClaimsOK
<1>8. ClaimsApart' BY <1>1 DEF IInv, ClaimsApart
<1>9. ProvisionCurrent'
  <2>1. prov # NULL => prov.job \in Job BY DEF IInv, TypeOK, Provision
  <2> QED BY <1>1, <1>2, <2>1 DEF IInv, ProvisionCurrent
<1>10. ClocksGoOn BY <1>2, ClocksStand
<1>11. OneLateRun /\ ClaimsInTime BY <1>1, NothingRecorded
<1> QED BY <1>4, <1>6, <1>7, <1>8, <1>9, <1>10, <1>11 DEF IInv, StepOK

\* What a step makes of the row it is about: another status, or a retry put off.
Rewritten(r, c) ==
  /\ c \in TaskRow /\ SameKey(r, c)
  /\ ~c.attempted => ~r.attempted /\ c.runAt = r.runAt /\ c.missedAfter = r.missedAfter
  /\ Live(c) => Live(r)

\* A row is rewritten or pruned; only a claim, before the deadline or of a retry, runs it.
LEMMA TaskStepForm ==
  ASSUME IInv, NEW r \in tasks, TaskStep(r)
  PROVE  \/ tasks' = tasks \ {r} /\ ~Live(r) /\ r.scheduledFor + Retention <= now
         \/ \E c : /\ Rewritten(r, c) /\ tasks' = (tasks \ {r}) \cup {c}
                   /\ c.status = "running" => r.attempted \/ r.missedAfter > now
<1>1. r \in TaskRow /\ now \in Nat BY DEF IInv, TypeOK
<1>2. CASE PruneTask(r) BY <1>2 DEF PruneTask
<1>3. ASSUME NEW status \in {"pending", "running", "finished", "missed"}, Live(r),
             status = "running" => r.attempted \/ r.missedAfter > now,
             Rewrite(r, [r EXCEPT !.status = status])
      PROVE  \E c : /\ Rewritten(r, c) /\ tasks' = (tasks \ {r}) \cup {c}
                    /\ c.status = "running" => r.attempted \/ r.missedAfter > now
  <2> DEFINE c == [r EXCEPT !.status = status]
  <2>1. /\ c \in TaskRow /\ SameKey(r, c) /\ c.status = status /\ c.runAt = r.runAt
        /\ c.missedAfter = r.missedAfter /\ c.attempted = r.attempted
    BY <1>1, StatusChanged DEF SameKey
  <2>2. tasks' = (tasks \ {r}) \cup {c} BY <1>3 DEF Rewrite
  <2> HIDE DEF c
  <2>3. Rewritten(r, c) BY <1>3, <2>1 DEF Rewritten
  <2> QED BY <1>3, <2>1, <2>2, <2>3
<1>4. CASE ClaimTask(r) BY <1>3, <1>4 DEF ClaimTask, Live
<1>5. CASE ReleaseTask(r) BY <1>3, <1>5 DEF ReleaseTask, Live
<1>6. CASE FinishTask(r) BY <1>3, <1>6 DEF FinishTask, Live
<1>7. CASE RetireTask(r) BY <1>3, <1>7 DEF RetireTask, Live
<1>8. CASE RetryTask(r)
  <2>1. PICK delay \in Backoffs :
          Rewrite(r, [r EXCEPT !.status = "pending", !.attempted = TRUE, !.runAt = now + delay])
    BY <1>8 DEF RetryTask
  <2> DEFINE c == [r EXCEPT !.status = "pending", !.attempted = TRUE, !.runAt = now + delay]
  <2>2. now + delay \in Nat BY <1>1, KnobAssumption
  <2>3. c \in TaskRow /\ SameKey(r, c) /\ c.attempted = TRUE /\ c.status = "pending"
    BY <1>1, <2>2 DEF TaskRow, SameKey
  <2>4. tasks' = (tasks \ {r}) \cup {c} BY <2>1 DEF Rewrite
  <2>5. Live(r) BY <1>8 DEF RetryTask, Live
  <2> HIDE DEF c
  <2>6. Rewritten(r, c) BY <2>3, <2>5 DEF Rewritten
  <2> QED BY <2>3, <2>4, <2>6
<1> QED BY <1>2, <1>4, <1>5, <1>6, <1>7, <1>8 DEF TaskStep

\* A row's status moves, or the row is pruned: its key stays unique.
LEMMA TaskStepInv ==
  ASSUME IInv, NEW r \in tasks, TaskStep(r) PROVE IInv' /\ StepOK
<1>1. /\ UNCHANGED <<now, jobs, issued, tx, prov, owed>> /\ settled' = settledBy(tasks')
      /\ budget' \in Nat
  <2>1. UNCHANGED <<now, jobs, issued, tx, prov, owed>> /\ settled' = settledBy(tasks')
    BY DEF TaskStep
  <2>2. Calm \/ Disturb
    BY DEF TaskStep, ClaimTask, ReleaseTask, RetryTask, FinishTask, RetireTask, PruneTask
  <2>3. budget' \in Nat BY <2>2 DEF Calm, Disturb, IInv, TypeOK
  <2> QED BY <2>1, <2>3
<1>2. r \in TaskRow /\ RowsKept(tasks) /\ now \in Nat BY RowsOfInv DEF IInv, TypeOK
<1>3. RowsKept(tasks') /\ OneLateRun /\ ClaimsInTime
  <2>1. CASE tasks' = tasks \ {r} BY <1>2, <2>1, FewerRows, NothingRecorded
  <2>2. CASE tasks' # tasks \ {r}
    <3>1. PICK c : /\ Rewritten(r, c) /\ tasks' = (tasks \ {r}) \cup {c}
                   /\ c.status = "running" => r.attempted \/ r.missedAfter > now
      BY <2>2, TaskStepForm
    <3>2. c \in TaskRow /\ SameKey(r, c) BY <3>1 DEF Rewritten
    <3>3. tasks' \subseteq TaskRow BY <1>2, <3>1, <3>2 DEF RowsKept
    <3>4. \A x, y \in tasks' : SameKey(x, y) => x = y BY <1>2, <3>1, <3>2 DEF RowsKept, SameKey
    <3>5. \A x \in tasks' : ~x.attempted /\ x.runAt = x.scheduledFor
                            => x.missedAfter <= x.scheduledFor + 2 * Grace
      BY <1>2, <3>1, <3>2 DEF RowsKept, Rewritten, SameKey
    <3>6. OneLateRun BY <3>1, <3>2 DEF OneLateRun
    <3>7. ClaimsInTime
      <4> SUFFICES ASSUME NEW x \in tasks, NEW q \in tasks', SameKey(x, q),
                          x.status = "pending", q.status = "running",
                          ~x.attempted, x.runAt = x.scheduledFor
                   PROVE  now < x.scheduledFor + 2 * Grace
        BY DEF ClaimsInTime
      <4>1. q = c
        <5>1. q \in tasks => x = q BY <1>2 DEF RowsKept
        <5> QED BY <3>1, <5>1
      <4>2. x = r BY <1>2, <3>2, <4>1 DEF RowsKept, SameKey
      <4>3. r.missedAfter > now /\ r.missedAfter <= r.scheduledFor + 2 * Grace
        BY <1>2, <3>1, <4>1, <4>2 DEF RowsKept
      <4>4. r.missedAfter \in Nat /\ r.scheduledFor \in Nat /\ 2 * Grace \in Nat
        BY <1>2, KnobAssumption DEF TaskRow
      <4> QED BY <1>2, <4>2, <4>3, <4>4
    <3> QED BY <3>3, <3>4, <3>5, <3>6, <3>7 DEF RowsKept
  <2> QED BY <2>1, <2>2
<1>4. tasks' \subseteq TaskRow /\ OneRowPerInstant' /\ DeadlinesTight' BY <1>3, RowsOfInv
<1>5. settled' \subseteq Job \X Nat BY <1>1, <1>4, SettledTyped
<1>6. TypeOK' BY <1>1, <1>4, <1>5 DEF IInv, TypeOK
<1>7. ClaimsOK' /\ ClaimsApart' /\ ProvisionCurrent'
  BY <1>1 DEF IInv, ClaimsOK, ClaimsApart, ProvisionCurrent
<1>8. ClocksGoOn BY <1>1, ClocksStand
<1> QED BY <1>3, <1>4, <1>6, <1>7, <1>8 DEF IInv, StepOK

\* The clock moves, or nothing does.
LEMMA QuietInv ==
  ASSUME IInv, Tick \/ UNCHANGED vars PROVE IInv' /\ StepOK
<1>1. now' \in Nat /\ UNCHANGED <<jobs, tasks, issued, tx, prov, budget, settled, owed>>
  BY DEF IInv, TypeOK, Tick, vars, history
<1>2. TypeOK' BY <1>1 DEF IInv, TypeOK
<1>3. OneRowPerInstant' /\ ClaimsOK' /\ ClaimsApart' /\ ProvisionCurrent' /\ DeadlinesTight'
  BY <1>1 DEF IInv, OneRowPerInstant, ClaimsOK, ClaimsApart, ProvisionCurrent, DeadlinesTight
<1>4. ClocksGoOn BY <1>1, ClocksStand
<1>5. OneLateRun /\ ClaimsInTime BY <1>1, NothingRecorded
<1> QED BY <1>2, <1>3, <1>4, <1>5 DEF IInv, StepOK

\* There is nothing in the tables at first.
LEMMA InitInv == Init => IInv
<1> SUFFICES ASSUME Init PROVE IInv OBVIOUS
<1>1. TypeOK BY KnobAssumption DEF Init, TypeOK
<1> QED BY <1>1 DEF Init, IInv, OneRowPerInstant, ClaimsOK, ClaimsApart, ProvisionCurrent, DeadlinesTight

\* Every step keeps the invariant, winds no clock back and gives an owner one late run.
LEMMA InvStep == IInv /\ [Next]_vars => IInv' /\ StepOK
<1> SUFFICES ASSUME IInv, [Next]_vars PROVE IInv' /\ StepOK OBVIOUS
<1>1. CASE Tick \/ UNCHANGED vars BY <1>1, QuietInv
<1>2. CASE \E m \in Main : ClaimDueJobs(m) \/ CommitPass(m) \/ RollbackPass(m)
  BY <1>2, ClaimInv, CommitPassInv, RollbackPassInv
<1>3. CASE \E j \in Job : RemoveJob(j) BY <1>3, RemoveJobInv
<1>4. CASE \E j \in Job, schedule \in Schedules, policy \in Policies :
             BeginProvision(j, schedule, policy)
  BY <1>4, BeginProvisionInv
<1>5. CASE CommitProvision BY <1>5, CommitProvisionInv
<1>6. CASE RollbackProvision BY <1>6, RollbackProvisionInv
<1>7. CASE \E r \in tasks : TaskStep(r) BY <1>7, TaskStepInv
<1> QED BY <1>1, <1>2, <1>3, <1>4, <1>5, <1>6, <1>7 DEF Next

-----------------------------------------------------------------------------
\* Occurrences that ended.

\* A row that takes another's place is no more alive, and one that is new was never settled.
Fresh ==
  \A q \in tasks' :
    \/ \E x \in tasks : SameKey(x, q) /\ (Live(q) => Live(x))
    \/ Key(q) \notin settled /\ \A x \in tasks : ~Live(x) => ~SameKey(x, q)

\* The instants with a row that is new are all a step may add to the known ones.
AddedAhead ==
  \A q \in tasks' :
    \/ \E x \in tasks : SameKey(x, q)
    \/ /\ q.jobId \in issued' /\ q.scheduledFor <= now' + Window
       /\ jobs'[q.jobId] # NULL /\ jobs'[q.jobId].nextRunAt # NULL
            => q.scheduledFor < jobs'[q.jobId].nextRunAt

\* And those it knew stay behind the clocks.
KnownStaysBehind ==
  \A k \in Known : /\ k[1] \in issued' /\ k[2] <= now' + Window
                   /\ jobs'[k[1]] # NULL /\ jobs'[k[1]].nextRunAt # NULL
                        => k[2] < jobs'[k[1]].nextRunAt

\* Settled keys whose job is still there keep their ended row for the retention.
EndedRowsStay ==
  \A k \in settled : jobs'[k[1]] # NULL /\ k[2] + Retention > now' =>
                      \E r \in tasks' : ~Live(r) /\ Key(r) = k

\* A step that keeps to all this keeps the part of the invariant that is about rows.
LEMMA RowsSettle ==
  ASSUME IInv, IInv', SInv, settled' = settledBy(tasks'), Fresh, AddedAhead, KnownStaysBehind,
         EndedRowsStay
  PROVE  SettledNeverRequeued' /\ ClockAhead' /\ SettledKept'
<1>1. \A k : k \in settled' <=> k \in settled \/ \E r \in tasks' : ~Live(r) /\ Key(r) = k
  BY DEF settledBy
<1>2. \A r, q \in tasks' : Key(r) = Key(q) => r = q
  BY DEF IInv, OneRowPerInstant, Key, SameKey
<1>3. \A x, q : SameKey(x, q) => Key(x) = Key(q) BY DEF SameKey, Key
<1>4. SettledNeverRequeued'
  <2> SUFFICES ASSUME NEW q \in tasks', Live(q) PROVE Key(q) \notin settled'
    BY DEF SettledNeverRequeued, Key, Live
  <2>1. Key(q) \notin settled BY <1>3 DEF Fresh, SInv, SettledNeverRequeued
  <2> QED BY <1>1, <1>2, <2>1
<1>5. SettledKept'
  <2>1. \A r \in tasks' : ~Live(r) => Key(r) \in settled' BY <1>1
  <2>2. ASSUME NEW k \in settled', jobs'[k[1]] # NULL, k[2] + Retention > now'
        PROVE  \E r \in tasks' : ~Live(r) /\ Key(r) = k
    BY <1>1, <2>2 DEF EndedRowsStay
  <2> QED BY <2>1, <2>2 DEF SettledKept, Live, Key
<1>6. ClockAhead'
  <2> SUFFICES ASSUME NEW k \in Known'
               PROVE  /\ k[1] \in issued' /\ k[2] <= now' + Window
                      /\ jobs'[k[1]] # NULL /\ jobs'[k[1]].nextRunAt # NULL
                           => k[2] < jobs'[k[1]].nextRunAt
    BY DEF ClockAhead
  <2>1. CASE k \in Known BY <2>1 DEF KnownStaysBehind
  <2>2. CASE k \notin Known
    <3>1. PICK q \in tasks' : Key(q) = k
      <4>1. k \in settled' \/ \E r \in tasks' : Key(r) = k BY DEF Known, Key
      <4> QED BY <1>1, <2>2, <4>1 DEF Known
    <3>2. \A x \in tasks : ~SameKey(x, q) BY <1>3, <2>2, <3>1 DEF Known
    <3>3. k[1] = q.jobId /\ k[2] = q.scheduledFor BY <3>1 DEF Key
    <3> QED BY <3>2, <3>3 DEF AddedAhead
  <2> QED BY <2>1, <2>2
<1> QED BY <1>4, <1>5, <1>6

\* Known instants are instants of jobs.
LEMMA KnownTyped ==
  ASSUME IInv PROVE \A k \in Known : k[1] \in Job /\ k[2] \in Nat
BY DEF IInv, TypeOK, TaskRow, Known, Key

\* Clocks are instants.
LEMMA ClockTyped ==
  IInv => \A j \in Job : jobs[j] # NULL /\ jobs[j].nextRunAt # NULL => jobs[j].nextRunAt \in Nat
BY DEF IInv, TypeOK, JobRow

\* A step that adds no row and moves no clock, with what it leaves of the rest.
LEMMA StandsSettled ==
  ASSUME IInv, IInv', SInv, tasks' = tasks, settled' = settledBy(tasks') \/ settled' = settled,
         now' >= now, issued' = issued,
         \A j \in Job : jobs'[j] # NULL => jobs[j] # NULL /\ jobs'[j].nextRunAt = jobs[j].nextRunAt,
         prov' = NULL \/ prov' = prov,
         \A m \in Main : tx'[m] # NULL => tx'[m] = tx[m] \/ tx'[m].now = now
  PROVE  SInv'
<1>1. now \in Nat /\ now' \in Nat /\ Window \in Nat /\ Retention \in Nat
  BY KnobAssumption DEF IInv, TypeOK
<1>2. settled' = settled
  <2>1. \A r \in tasks : ~Live(r) => Key(r) \in settled BY DEF SInv, SettledKept
  <2> QED BY <2>1 DEF settledBy
<1>3. Known' = Known BY <1>2 DEF Known, Key
<1>4. \A k \in Known : k[1] \in Job /\ k[2] \in Nat BY KnownTyped
<1>5. SettledNeverRequeued' BY <1>2 DEF SInv, SettledNeverRequeued, Live, Key
<1>6. ClockAhead'
  <2> SUFFICES ASSUME NEW k \in Known
               PROVE  /\ k[1] \in issued /\ k[2] <= now' + Window
                      /\ jobs'[k[1]] # NULL /\ jobs'[k[1]].nextRunAt # NULL
                           => k[2] < jobs'[k[1]].nextRunAt
    BY <1>3 DEF ClockAhead
  <2>1. /\ k[1] \in issued /\ k[2] <= now + Window
        /\ jobs[k[1]] # NULL /\ jobs[k[1]].nextRunAt # NULL => k[2] < jobs[k[1]].nextRunAt
    BY DEF SInv, ClockAhead
  <2>2. k[1] \in Job /\ k[2] \in Nat BY <1>4
  <2> QED BY <1>1, <2>1, <2>2
<1>7. SettledKept'
  <2>1. \A r \in tasks : ~Live(r) => Key(r) \in settled BY DEF SInv, SettledKept
  <2>2. ASSUME NEW k \in settled, jobs'[k[1]] # NULL, k[2] + Retention > now'
        PROVE  \E r \in tasks : ~Live(r) /\ Key(r) = k
    <3>1. k[1] \in Job /\ k[2] \in Nat BY <1>4 DEF Known
    <3>2. jobs[k[1]] # NULL /\ k[2] + Retention > now BY <1>1, <2>2, <3>1
    <3> QED BY <3>2 DEF SInv, SettledKept
  <2> QED BY <1>2, <2>1, <2>2 DEF SettledKept, Live, Key
<1>8. IdsFresh' BY DEF SInv, IdsFresh
<1>9. ClocksRead'
  <2>1. \A m \in Main : tx'[m] # NULL => tx'[m].now <= now'
    <3> SUFFICES ASSUME NEW m \in Main, tx'[m] # NULL PROVE tx'[m].now <= now' OBVIOUS
    <3>1. tx'[m].now \in Nat BY DEF IInv, TypeOK, Transaction
    <3>2. tx'[m].now <= now BY <1>1 DEF SInv, ClocksRead
    <3> QED BY <1>1, <3>1, <3>2
  <2> QED BY <2>1 DEF SInv, ClocksRead
<1> QED BY <1>5, <1>6, <1>7, <1>8, <1>9 DEF SInv

\* A pass walks on from the clock, which is ahead of everything recorded.
LEMMA CommitPassSettles ==
  ASSUME IInv, SInv, NEW m \in Main, CommitPass(m) PROVE SInv'
<1>1. IInv' /\ PassCarries(m) BY CommitPassInv
<1>2. /\ tx[m] # NULL /\ settled' = settledBy(tasks') /\ tx' = [tx EXCEPT ![m] = NULL]
      /\ UNCHANGED <<now, issued, prov>>
  BY DEF CommitPass
<1>3. /\ tx[m].now \in Nat /\ tx[m].now <= now /\ tx[m].jobs \subseteq Job /\ now \in Nat
      /\ \A j \in tx[m].jobs : jobs[j] # NULL /\ jobs[j].nextRunAt \in Nat /\ j \in issued
  <2>1. tx[m].now \in Nat /\ tx[m].jobs \subseteq Job /\ now \in Nat
    BY <1>2 DEF IInv, TypeOK, Transaction
  <2>2. tx[m].now <= now BY <1>2 DEF SInv, ClocksRead
  <2>3. \A j \in tx[m].jobs : jobs[j] # NULL /\ jobs[j].nextRunAt # NULL
    BY <1>2 DEF IInv, ClaimsOK
  <2> QED BY <2>1, <2>2, <2>3, ClockTyped DEF SInv, IdsFresh
<1>4. \A q \in tasks' : q.jobId \in Job /\ q.scheduledFor \in Nat BY <1>1 DEF IInv, TypeOK, TaskRow
<1>5. \A j \in Job : jobs'[j] # NULL => jobs[j] # NULL BY <1>1, <1>3 DEF PassCarries
<1>6. Fresh
  <2> SUFFICES ASSUME NEW q \in tasks', q.jobId \in tx[m].jobs,
                      q.scheduledFor >= jobs[q.jobId].nextRunAt
               PROVE  Key(q) \notin settled /\ \A x \in tasks : ~SameKey(x, q)
    BY <1>1 DEF Fresh, PassCarries
  <2>1. Key(q)[1] = q.jobId /\ Key(q)[2] = q.scheduledFor BY DEF Key
  <2>2. jobs[q.jobId] # NULL /\ jobs[q.jobId].nextRunAt # NULL /\ jobs[q.jobId].nextRunAt \in Nat
    BY <1>3, JobAssumption
  <2>3. Key(q) \notin Known BY <1>4, <2>1, <2>2 DEF SInv, ClockAhead
  <2>4. \A x \in tasks : SameKey(x, q) => Key(q) \in Known BY DEF Known, SameKey, Key
  <2> QED BY <2>3, <2>4 DEF Known
<1>7. AddedAhead
  <2> SUFFICES ASSUME NEW q \in tasks', q.jobId \in tx[m].jobs,
                      q.scheduledFor <= tx[m].now + Window,
                      jobs'[q.jobId].nextRunAt # NULL => q.scheduledFor < jobs'[q.jobId].nextRunAt
               PROVE  /\ q.jobId \in issued' /\ q.scheduledFor <= now' + Window
                      /\ jobs'[q.jobId].nextRunAt # NULL => q.scheduledFor < jobs'[q.jobId].nextRunAt
    BY <1>1 DEF AddedAhead, PassCarries
  <2> QED BY <1>2, <1>3, <1>4, KnobAssumption
<1>8. KnownStaysBehind
  <2> SUFFICES ASSUME NEW k \in Known
               PROVE  /\ k[1] \in issued' /\ k[2] <= now' + Window
                      /\ jobs'[k[1]] # NULL /\ jobs'[k[1]].nextRunAt # NULL
                           => k[2] < jobs'[k[1]].nextRunAt
    BY DEF KnownStaysBehind
  <2>1. k[1] \in Job /\ k[2] \in Nat BY KnownTyped
  <2>2. /\ k[1] \in issued /\ k[2] <= now + Window
        /\ jobs[k[1]] # NULL /\ jobs[k[1]].nextRunAt # NULL => k[2] < jobs[k[1]].nextRunAt
    BY DEF SInv, ClockAhead
  <2>3. CASE k[1] \notin tx[m].jobs BY <1>1, <1>2, <2>1, <2>2, <2>3 DEF PassCarries
  <2>4. CASE k[1] \in tx[m].jobs
    <3>1. jobs[k[1]] # NULL /\ jobs[k[1]].nextRunAt \in Nat /\ jobs[k[1]].nextRunAt # NULL
      BY <1>3, <2>4, JobAssumption
    <3>2. ASSUME jobs'[k[1]] # NULL, jobs'[k[1]].nextRunAt # NULL
          PROVE  k[2] < jobs'[k[1]].nextRunAt
      <4>1. jobs'[k[1]].nextRunAt \in Nat BY <1>1, <2>1, <3>2, ClockTyped DEF IInv, TypeOK, JobRow
      <4>2. jobs'[k[1]].nextRunAt >= jobs[k[1]].nextRunAt BY <1>1, <2>4, <3>2 DEF PassCarries
      <4> QED BY <2>1, <2>2, <3>1, <4>1, <4>2
    <3> QED BY <1>2, <2>2, <3>2
  <2> QED BY <2>3, <2>4
<1>9. EndedRowsStay
  <2>1. \A k \in settled : k[1] \in Job BY KnownTyped DEF Known
  <2> QED BY <1>1, <1>2, <1>5, <2>1 DEF EndedRowsStay, SInv, SettledKept, PassCarries
<1>10. SettledNeverRequeued' /\ ClockAhead' /\ SettledKept'
  BY <1>1, <1>2, <1>6, <1>7, <1>8, <1>9, RowsSettle
<1>11. IdsFresh' BY <1>2, <1>5 DEF SInv, IdsFresh
<1>12. ClocksRead' BY <1>2 DEF SInv, ClocksRead, IInv, TypeOK
<1> QED BY <1>10, <1>11, <1>12 DEF SInv

\* A provision that seeds its rule: a new id has nothing recorded, and a clock wound back
\* starts so late that retention has left every ended row it may walk over.
LEMMA SeedSettles ==
  ASSUME IInv, IInv', SInv, CapCoversWindow, NEW j \in Job, NEW row \in JobRow, SeedCarries(j, row),
         \A k \in Job \ {j} : jobs'[k] = jobs[k],
         row.nextRunAt # NULL => row.nextRunAt > now - Stale,
         issued' = issued \cup {j}, jobs[j] = NULL => j \notin issued,
         settled' = settledBy(tasks'), prov' = NULL, UNCHANGED <<now, tx>>
  PROVE  SInv'
<1>1. now \in Nat /\ (row.nextRunAt # NULL => row.nextRunAt \in Nat) BY DEF IInv, TypeOK, JobRow
<1>2. \A q \in tasks' : q.jobId \in Job /\ q.scheduledFor \in Nat BY DEF IInv, TypeOK, TaskRow
<1>3. jobs'[j].nextRunAt # NULL =>
        jobs'[j].nextRunAt \in Nat /\ jobs'[j].nextRunAt > now + Window
  <2> SUFFICES ASSUME jobs'[j].nextRunAt # NULL
               PROVE  jobs'[j].nextRunAt \in Nat /\ jobs'[j].nextRunAt > now + Window
    OBVIOUS
  <2>1. jobs'[j].nextRunAt \in Nat
    <3>1. jobs'[j] # NULL BY DEF SeedCarries
    <3>2. jobs'[j] \in JobRow BY <3>1 DEF IInv, TypeOK
    <3> QED BY <3>2 DEF JobRow
  <2>2. /\ row.nextRunAt # NULL
        /\ jobs'[j].nextRunAt > now + Window \/ jobs'[j].nextRunAt >= row.nextRunAt + MaxPerJob
    BY DEF SeedCarries
  <2> QED BY <1>1, <2>1, <2>2, KnobAssumption DEF CapCoversWindow
<1>4. Fresh
  <2> SUFFICES ASSUME NEW q \in tasks', q.jobId = j, row.nextRunAt # NULL,
                      q.scheduledFor >= row.nextRunAt, \A x \in tasks : ~Live(x) => ~SameKey(x, q),
                      Key(q) \in settled
               PROVE  FALSE
    BY DEF Fresh, SeedCarries
  <2>1. Key(q)[1] = j /\ Key(q)[2] = q.scheduledFor BY DEF Key
  <2>2. jobs[j] # NULL
    <3>1. j \in issued BY <2>1 DEF SInv, ClockAhead, Known
    <3> QED BY <3>1
  <2>3. q.scheduledFor + Retention > now BY <1>1, <1>2, KnobAssumption, SlackAssumption
  <2>4. PICK x \in tasks : ~Live(x) /\ Key(x) = Key(q)
    BY <2>1, <2>2, <2>3 DEF SInv, SettledKept
  <2> QED BY <2>4 DEF Key, SameKey
<1>5. AddedAhead
  <2> SUFFICES ASSUME NEW q \in tasks', q.jobId = j, q.scheduledFor <= now + Window
               PROVE  /\ q.jobId \in issued' /\ q.scheduledFor <= now' + Window
                      /\ jobs'[q.jobId].nextRunAt # NULL => q.scheduledFor < jobs'[q.jobId].nextRunAt
    BY DEF AddedAhead, SeedCarries
  <2> QED BY <1>1, <1>2, <1>3, KnobAssumption
<1>6. KnownStaysBehind
  <2> SUFFICES ASSUME NEW k \in Known
               PROVE  /\ k[1] \in issued' /\ k[2] <= now' + Window
                      /\ jobs'[k[1]] # NULL /\ jobs'[k[1]].nextRunAt # NULL
                           => k[2] < jobs'[k[1]].nextRunAt
    BY DEF KnownStaysBehind
  <2>1. k[1] \in Job /\ k[2] \in Nat BY KnownTyped
  <2>2. /\ k[1] \in issued /\ k[2] <= now + Window
        /\ jobs[k[1]] # NULL /\ jobs[k[1]].nextRunAt # NULL => k[2] < jobs[k[1]].nextRunAt
    BY DEF SInv, ClockAhead
  <2>3. CASE k[1] = j BY <1>1, <1>3, <2>1, <2>2, <2>3, KnobAssumption
  <2>4. CASE k[1] # j BY <2>1, <2>2, <2>4
  <2> QED BY <2>3, <2>4
<1>7. EndedRowsStay
  <2> SUFFICES ASSUME NEW k \in settled, jobs'[k[1]] # NULL, k[2] + Retention > now
               PROVE  \E r \in tasks' : ~Live(r) /\ Key(r) = k
    BY DEF EndedRowsStay
  <2>1. k[1] \in Job /\ k[1] \in issued BY KnownTyped DEF Known, SInv, ClockAhead
  <2>2. jobs[k[1]] # NULL BY <2>1
  <2>3. PICK r \in tasks : ~Live(r) /\ Key(r) = k BY <2>2 DEF SInv, SettledKept
  <2> QED BY <2>3 DEF SeedCarries
<1>8. SettledNeverRequeued' /\ ClockAhead' /\ SettledKept' BY <1>4, <1>5, <1>6, <1>7, RowsSettle
<1>9. IdsFresh' BY DEF SInv, IdsFresh
<1>10. ClocksRead' BY DEF SInv, ClocksRead
<1> QED BY <1>8, <1>9, <1>10 DEF SInv

\* A provision that commits, whichever way it took.
LEMMA CommitProvisionSettles ==
  ASSUME IInv, SInv, CapCoversWindow, CommitProvision PROVE SInv'
<1> DEFINE j == prov.job
<1>1. /\ Insert \/ Redefine \/ UpdateMisfirePolicy
      /\ prov # NULL /\ prov' = NULL /\ settled' = settledBy(tasks') /\ now <= prov.at + Stale
      /\ UNCHANGED <<now, tx>>
  BY DEF CommitProvision, Insert, Redefine, UpdateMisfirePolicy
<1>2. /\ prov \in Provision /\ j \in Job /\ prov.schedule \in Schedules /\ prov.misfirePolicy \in Policies
      /\ prov.firstRunAt \in Nat \cup {NULL} /\ prov.at \in Nat /\ now \in Nat
  BY <1>1 DEF IInv, TypeOK, Provision
<1>3. IInv' BY CommitProvisionInv
<1>4. prov.firstRunAt # NULL => prov.firstRunAt > now - Stale
  <2>1. prov.firstRunAt # NULL => prov.firstRunAt > prov.at BY <1>1 DEF SInv, ClocksRead
  <2>2. Stale \in Nat /\ (prov.firstRunAt # NULL => prov.firstRunAt \in Nat)
    BY <1>2, KnobAssumption
  <2> QED BY <1>1, <1>2, <2>1, <2>2
<1>5. CASE Insert
  <2> DEFINE row == [schedule |-> prov.schedule, misfirePolicy |-> prov.misfirePolicy,
                     nextRunAt |-> prov.firstRunAt, lastFiredAt |-> NULL]
  <2>1. prov.current = NULL /\ seedInitialOccurrences(j, row) /\ issued' = issued \cup {j}
    BY <1>5 DEF Insert
  <2>2. row \in JobRow /\ row.nextRunAt = prov.firstRunAt BY <1>2 DEF JobRow
  <2>3. j \notin issued BY <1>1, <2>1 DEF SInv, IdsFresh
  <2> HIDE DEF row, j
  <2>4. SeedCarries(j, row) /\ \A k \in Job \ {j} : jobs'[k] = jobs[k] BY <1>2, <2>1, <2>2, Seeded
  <2> QED BY <1>1, <1>2, <1>3, <1>4, <2>1, <2>2, <2>3, <2>4, SeedSettles
<1>6. CASE Redefine
  <2> DEFINE row == [jobs[j] EXCEPT !.schedule = prov.schedule, !.nextRunAt = prov.firstRunAt,
                                    !.misfirePolicy = prov.misfirePolicy]
  <2>1. /\ jobs[j] # NULL /\ seedInitialOccurrences(j, row) /\ UNCHANGED issued
    BY <1>6 DEF Redefine
  <2>2. jobs[j] \in JobRow BY <1>2, <2>1 DEF IInv, TypeOK
  <2>3. row \in JobRow /\ row.nextRunAt = prov.firstRunAt BY <1>2, <2>2 DEF JobRow
  <2>4. issued' = issued \cup {j} BY <1>2, <2>1 DEF SInv, IdsFresh
  <2> HIDE DEF row, j
  <2>5. SeedCarries(j, row) /\ \A k \in Job \ {j} : jobs'[k] = jobs[k] BY <1>2, <2>1, <2>3, Seeded
  <2> QED BY <1>1, <1>2, <1>3, <1>4, <2>1, <2>3, <2>4, <2>5, SeedSettles
<1>7. CASE UpdateMisfirePolicy
  <2>1. /\ jobs[j] # NULL /\ UNCHANGED <<tasks, issued>>
        /\ jobs' = [jobs EXCEPT ![j].misfirePolicy = prov.misfirePolicy]
    BY <1>7 DEF UpdateMisfirePolicy
  <2>2. jobs[j] \in JobRow BY <1>2, <2>1 DEF IInv, TypeOK
  <2>3. \A k \in Job : /\ jobs'[k] # NULL => jobs[k] # NULL
                       /\ jobs'[k] # NULL => jobs'[k].nextRunAt = jobs[k].nextRunAt
    BY <1>2, <2>1, <2>2 DEF IInv, TypeOK, JobRow
  <2>4. now' >= now /\ \A m \in Main : tx'[m] = tx[m] BY <1>1, <1>2
  <2>5. tasks' = tasks /\ settled' = settledBy(tasks') /\ issued' = issued /\ prov' = NULL
    BY <1>1, <2>1
  <2> QED BY <1>3, <2>3, <2>4, <2>5, StandsSettled
<1> QED BY <1>1, <1>5, <1>6, <1>7

\* A row that is rewritten comes alive only if it was; a pruned one is past its retention.
LEMMA TaskStepSettles ==
  ASSUME IInv, SInv, NEW r \in tasks, TaskStep(r) PROVE SInv'
<1>1. UNCHANGED <<now, jobs, issued, tx, prov>> /\ settled' = settledBy(tasks') BY DEF TaskStep
<1>2. IInv' BY TaskStepInv
<1>3. /\ \A q \in tasks' : \E x \in tasks : SameKey(x, q) /\ (Live(q) => Live(x))
      /\ \A x \in tasks : ~Live(x) /\ x.scheduledFor + Retention > now
                         => \E q \in tasks' : ~Live(q) /\ Key(q) = Key(x)
  <2>1. CASE tasks' = tasks \ {r} /\ ~Live(r) /\ r.scheduledFor + Retention <= now
    <3>1. r.scheduledFor + Retention \in Nat /\ now \in Nat
      BY KnobAssumption DEF IInv, TypeOK, TaskRow
    <3>2. ~(r.scheduledFor + Retention > now) BY <2>1, <3>1
    <3> QED BY <2>1, <3>2 DEF SameKey
  <2>2. CASE \E c : Rewritten(r, c) /\ tasks' = (tasks \ {r}) \cup {c}
    <3>1. PICK c : Rewritten(r, c) /\ tasks' = (tasks \ {r}) \cup {c} BY <2>2
    <3>2. SameKey(r, c) /\ Key(c) = Key(r) /\ (Live(c) => Live(r))
      BY <3>1 DEF Rewritten, SameKey, Key
    <3>3. \A x : SameKey(x, x) BY DEF SameKey
    <3> QED BY <3>1, <3>2, <3>3
  <2> QED BY <2>1, <2>2, TaskStepForm
<1>4. Fresh BY <1>3 DEF Fresh
<1>5. AddedAhead BY <1>3 DEF AddedAhead
<1>6. KnownStaysBehind BY <1>1 DEF KnownStaysBehind, SInv, ClockAhead
<1>7. EndedRowsStay
  <2> SUFFICES ASSUME NEW k \in settled, jobs[k[1]] # NULL, k[2] + Retention > now
               PROVE  \E q \in tasks' : ~Live(q) /\ Key(q) = k
    BY <1>1 DEF EndedRowsStay
  <2>1. PICK x \in tasks : ~Live(x) /\ Key(x) = k BY DEF SInv, SettledKept
  <2>2. x.scheduledFor = k[2] BY <2>1 DEF Key
  <2> QED BY <1>3, <2>1, <2>2
<1>8. SettledNeverRequeued' /\ ClockAhead' /\ SettledKept'
  BY <1>1, <1>2, <1>4, <1>5, <1>6, <1>7, RowsSettle
<1>9. IdsFresh' /\ ClocksRead' BY <1>1 DEF SInv, IdsFresh, ClocksRead
<1> QED BY <1>8, <1>9 DEF SInv

\* A job that is removed takes its rows along, and its id never comes back.
LEMMA RemoveJobSettles ==
  ASSUME IInv, SInv, NEW j \in Job, RemoveJob(j) PROVE SInv'
<1>1. /\ jobs' = [jobs EXCEPT ![j] = NULL] /\ tasks' = {r \in tasks : r.jobId # j}
      /\ UNCHANGED <<now, issued, tx, prov, settled>>
  BY DEF RemoveJob
<1>2. \A k \in Job : jobs'[k] = IF k = j THEN NULL ELSE jobs[k] BY <1>1 DEF IInv, TypeOK
<1>3. \A k \in Known : k[1] \in Job BY KnownTyped
<1>4. Known' \subseteq Known BY <1>1 DEF Known, Key
<1>5. SettledNeverRequeued' BY <1>1 DEF SInv, SettledNeverRequeued, Live, Key
<1>6. ClockAhead' BY <1>1, <1>2, <1>3, <1>4 DEF SInv, ClockAhead
<1>7. SettledKept'
  <2>1. \A r \in tasks' : ~Live(r) => Key(r) \in settled BY <1>1 DEF SInv, SettledKept
  <2>2. ASSUME NEW k \in settled, jobs'[k[1]] # NULL, k[2] + Retention > now
        PROVE  \E r \in tasks' : ~Live(r) /\ Key(r) = k
    <3>1. k[1] # j /\ jobs[k[1]] # NULL BY <1>2, <1>3, <2>2 DEF Known
    <3>2. PICK r \in tasks : ~Live(r) /\ Key(r) = k BY <2>2, <3>1 DEF SInv, SettledKept
    <3> QED BY <1>1, <3>1, <3>2 DEF Key
  <2> QED BY <1>1, <2>1, <2>2 DEF SettledKept, Live, Key
<1>8. IdsFresh' BY <1>1, <1>2 DEF SInv, IdsFresh
<1>9. ClocksRead' BY <1>1 DEF SInv, ClocksRead
<1> QED BY <1>5, <1>6, <1>7, <1>8, <1>9 DEF SInv

\* A provision that begins: a rule that is new gets an id never issued.
LEMMA BeginProvisionSettles ==
  ASSUME IInv, SInv, NEW j \in Job, NEW schedule \in Schedules, NEW policy \in Policies,
         BeginProvision(j, schedule, policy)
  PROVE  SInv'
<1> DEFINE first == computeFirstRunAt(schedule, now)
<1>1. /\ jobs[j] # NULL \/ j \notin issued
      /\ prov' = [job |-> j, schedule |-> schedule, misfirePolicy |-> policy, at |-> now,
                  firstRunAt |-> first, current |-> jobs[j]]
      /\ UNCHANGED <<now, jobs, tasks, issued, tx, settled>>
  BY DEF BeginProvision, history
<1>2. first # NULL => first > now
  <2>1. now \in Nat BY DEF IInv, TypeOK
  <2> QED BY <2>1, FirstRunType
<1> HIDE DEF first
<1>3. SettledNeverRequeued' /\ ClockAhead' /\ SettledKept'
  BY <1>1 DEF SInv, SettledNeverRequeued, ClockAhead, SettledKept, Known, Live, Key
<1>4. IdsFresh' BY <1>1 DEF SInv, IdsFresh
<1>5. ClocksRead' BY <1>1, <1>2 DEF SInv, ClocksRead
<1> QED BY <1>3, <1>4, <1>5 DEF SInv

\* Steps that touch no row and no job.
LEMMA QuietSettles ==
  ASSUME IInv, IInv', SInv, UNCHANGED <<jobs, tasks, issued, settled>>, now' >= now,
         prov' = NULL \/ prov' = prov,
         \A m \in Main : tx'[m] # NULL => tx'[m] = tx[m] \/ tx'[m].now = now
  PROVE  SInv'
BY StandsSettled

\* Every step keeps the invariant, where the cap is no tighter than the window.
LEMMA SettledStep == CapCoversWindow /\ IInv /\ SInv /\ [Next]_vars => SInv'
<1> SUFFICES ASSUME CapCoversWindow, IInv, SInv, [Next]_vars PROVE SInv' OBVIOUS
<1>1. IInv' BY InvStep
<1>2. now \in Nat /\ now >= now BY DEF IInv, TypeOK
<1>3. CASE Tick \/ UNCHANGED vars
  <2>1. now' >= now BY <1>2, <1>3 DEF Tick, vars
  <2>2. UNCHANGED <<jobs, tasks, issued, settled, tx, prov>> BY <1>3 DEF Tick, vars, history
  <2> QED BY <1>1, <2>1, <2>2, QuietSettles
<1>4. ASSUME NEW m \in Main, ClaimDueJobs(m) PROVE SInv'
  <2>1. UNCHANGED <<now, jobs, tasks, issued, settled, prov>> BY <1>4 DEF ClaimDueJobs, history
  <2>2. PICK claimed : tx' = [tx EXCEPT ![m] = [now |-> now, jobs |-> claimed]]
    BY <1>4 DEF ClaimDueJobs
  <2>3. \A n \in Main : tx'[n] = tx[n] \/ tx'[n].now = now BY <2>2 DEF IInv, TypeOK
  <2> QED BY <1>1, <1>2, <2>1, <2>3, QuietSettles
<1>5. ASSUME NEW m \in Main, RollbackPass(m) PROVE SInv'
  <2>1. UNCHANGED <<now, jobs, tasks, issued, settled, prov>> /\ tx' = [tx EXCEPT ![m] = NULL]
    BY <1>5 DEF RollbackPass, history
  <2>2. \A n \in Main : tx'[n] # NULL => tx'[n] = tx[n] BY <2>1 DEF IInv, TypeOK
  <2> QED BY <1>1, <1>2, <2>1, <2>2, QuietSettles
<1>6. CASE RollbackProvision
  <2>1. UNCHANGED <<now, jobs, tasks, issued, settled, tx>> /\ prov' = NULL
    BY <1>6 DEF RollbackProvision, history
  <2> QED BY <1>1, <1>2, <2>1, QuietSettles
<1>7. CASE CommitProvision BY <1>7, CommitProvisionSettles
<1>8. CASE \E m \in Main : CommitPass(m) BY <1>8, CommitPassSettles
<1>9. CASE \E j \in Job : RemoveJob(j) BY <1>9, RemoveJobSettles
<1>10. CASE \E j \in Job, schedule \in Schedules, policy \in Policies :
              BeginProvision(j, schedule, policy)
  BY <1>10, BeginProvisionSettles
<1>11. CASE \E r \in tasks : TaskStep(r) BY <1>11, TaskStepSettles
<1> QED BY <1>3, <1>4, <1>5, <1>6, <1>7, <1>8, <1>9, <1>10, <1>11 DEF Next

-----------------------------------------------------------------------------
\* The theorems.

\* The inductive invariant holds of every reachable state, for any jobs, schedules, mains
\* and knobs.
THEOREM JobsInvariant == Spec => []IInv
<1>1. IInv /\ [Next]_vars => IInv' BY InvStep
<1> QED BY <1>1, InitInv, PTL DEF Spec

\* Every variable keeps its type: what the recurrence plans are instants.
THEOREM TypeCorrect == Spec => []TypeOK
<1>1. IInv => TypeOK BY DEF IInv
<1> QED BY <1>1, JobsInvariant, PTL

\* A job never has two rows for one instant (the unique key of insertIgnoringDuplicates,
\* which every writer respects).
THEOREM UniqueInstants == Spec => []OneRowPerInstant
<1>1. IInv => OneRowPerInstant BY DEF IInv
<1> QED BY <1>1, JobsInvariant, PTL

\* A rule's clock never runs backwards while the rule stays the same, whichever provision
\* races whichever pass (advanceMany, deferredPlan and update's decision on a stale row).
THEOREM ClocksMonotone == Spec => ClockNeverRewinds
<1>1. IInv /\ [Next]_vars => [ClocksGoOn]_vars BY InvStep DEF StepOK
<1>2. ClockNeverRewinds <=> [][ClocksGoOn]_vars BY DEF ClockNeverRewinds, ClocksGoOn
<1> QED BY <1>1, <1>2, JobsInvariant, PTL DEF Spec

\* One pass gives an owner under coalesce_owner at most one late run
\* (applyCoalesceOwnerPolicy).
THEOREM OwnersCoalesce == Spec => OneLateRunPerOwner
<1>1. IInv /\ [Next]_vars => [OneLateRun]_vars BY InvStep DEF StepOK
<1>2. OneLateRunPerOwner <=> [][OneLateRun]_vars BY DEF OneLateRunPerOwner, OneLateRun
<1> QED BY <1>1, <1>2, JobsInvariant, PTL DEF Spec

\* A run that is no catch-up run is claimed less than two graces after its instant
\* (applyMisfirePolicy and the deadline of toNewOccurrences).
THEOREM BoundedLateness == Spec => LatenessBounded
<1>1. IInv /\ [Next]_vars => [ClaimsInTime]_vars BY InvStep DEF StepOK
<1>2. LatenessBounded <=> [][ClaimsInTime]_vars BY DEF LatenessBounded, ClaimsInTime
<1> QED BY <1>1, <1>2, JobsInvariant, PTL DEF Spec

\* An occurrence that came to an end is never queued again, whatever redefines its rule and
\* whatever retention prunes (findExisting, withdrawPendingTasks, insertIgnoringDuplicates,
\* pruneWindow), as long as the cap of a pass covers its window.
THEOREM EndedStayEnded == CapCoversWindow => (Spec => []SettledNeverRequeued)
<1> SUFFICES ASSUME CapCoversWindow PROVE Spec => []SettledNeverRequeued OBVIOUS
<1>1. Init => SInv
  BY DEF Init, SInv, SettledNeverRequeued, ClockAhead, SettledKept, IdsFresh, ClocksRead, Known
<1>2. IInv /\ SInv /\ [Next]_vars => SInv' BY SettledStep
<1>3. SInv => SettledNeverRequeued BY DEF SInv
<1> QED BY <1>1, <1>2, <1>3, JobsInvariant, PTL DEF Spec
=============================================================================
