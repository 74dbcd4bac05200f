--------------------------- MODULE Reconciliation ---------------------------
(***************************************************************************)
(* The owner sweep of n8n's durable scheduler and what it races with:      *)
(* owners that come and go, provisioning and deprovisioning of their jobs, *)
(* and the occurrences of the jobs it quarantines.                         *)
(*                                                                         *)
(* A pass asks a resolver which owners exist, quarantines the jobs of the  *)
(* missing ones, asks again, deletes what outlived its grace and revives   *)
(* what was quarantined in error. Every statement and every answer is one  *)
(* step, so each may be stale when the next one executes. Passes overlap:  *)
(* loops run several, and a pass that timed out is abandoned, not ended.   *)
(* Instants are kept as ages: createdFor is now - createdAt, orphanedFor   *)
(* is now - orphanedAt and a pass's age is now minus its clock.            *)
(***************************************************************************)
EXTENDS Integers, FiniteSets, FiniteSetsExt

CONSTANTS
  Main,         \* mains, each with one reconciliation loop
  Slot,         \* passes that may be in flight on one main
  Owner,        \* owner ids (ordered)
  OwnerType,    \* the owner type of each owner (ordered)
  Claimed,      \* owner types with a registered resolver
  Job,          \* job names; each is an owner member of its own
  OwnerOf,      \* the owner of each job
  NULL,
  Settle,       \* ReconciliationOptions.settleSeconds
  Grace,        \* ReconciliationOptions.quarantineGraceSeconds
  BatchSize,    \* ReconciliationOptions.batchSize
  MaxPages,     \* ReconciliationOptions.maxPagesPerPass
  Followed,     \* bound: the jobs whose occurrences are followed
  FlightTicks,  \* bound: no pass or transaction in flight gets older than this
  MaxPublish,   \* bound: how often an owner is published
  MaxDisturb    \* bound: failed answers and statements, aborts, crashes

ASSUME OwnerAssumption ==
  /\ Owner \subseteq Nat \ {0} /\ IsFiniteSet(Owner) /\ OwnerOf \in [Job -> Owner]
  /\ OwnerType \in [Owner -> Nat]
  /\ NULL \notin Nat \cup BOOLEAN
ASSUME KnobAssumption ==
  /\ {Settle, Grace, BatchSize, MaxPages} \subseteq Nat \ {0}
  /\ Followed \subseteq Job /\ {FlightTicks, MaxPublish, MaxDisturb} \subseteq Nat
\* The grace covers the passes whose answers may be stale: a pass stamps its own start,
\* so a stamp may be as old as the longest flight the moment it is written.
ASSUME GraceAssumption == FlightTicks < Grace

VARIABLES
  alive,   \* what the resolver of an owner would answer
  jobs,    \* the scheduled_job table; NULL means there is no row
  occ,     \* the job's next occurrence: none recorded, pending or claimed
  pass,    \* the sweep in flight in each slot, or NULL
  cursor,  \* resumeFrom of each main
  prov,    \* the provisioning transaction in flight, or NULL
  budget,  \* disturbances left
  unborn,  \* publications left
  kept     \* history: jobs provisioned for an owner that exists ever since

vars == <<alive, jobs, occ, pass, cursor, prov, budget, unborn, kept>>

Pass == Main \X Slot
Types == {OwnerType[o] : o \in Owner}
Cursor == [type : Types, after : Owner \cup {0}]

JobRow == [clock : BOOLEAN, orphanedFor : (0..Grace + FlightTicks) \cup {NULL},
           createdFor : 0..Settle + FlightTicks]

\* pc names the statement or answer a pass waits for next.
Sweep == [pc : {"page", "quarantine", "recheck", "delete", "revive", "lift", "done"},
          from : Cursor \cup {NULL}, resume : Cursor \cup {NULL},
          mayPublish : BOOLEAN, aborted : BOOLEAN, age : 0..FlightTicks,
          types : SUBSET Types, type : Types \cup {-1}, after : Owner \cup {0},
          pages : 0..MaxPages, ownerIds : SUBSET Owner, alive : SUBSET Owner,
          missing : SUBSET Owner, lifting : SUBSET Job, full : BOOLEAN]

\* found is what findExisting returned: no row, or one with a live or dead clock.
Provision == [job : Job, lifted : BOOLEAN, torn : BOOLEAN, age : 0..FlightTicks,
              found : {"none", "live", "dead", NULL}]

ASSUME NullAssumption ==
  /\ NULL \notin JobRow /\ NULL \notin Sweep /\ NULL \notin Provision /\ NULL \notin Cursor
  /\ NULL \notin {"none", "live", "dead"}

TypeOK ==
  /\ alive \in [Owner -> BOOLEAN]
  /\ jobs \in [Job -> JobRow \cup {NULL}]
  /\ occ \in [Job -> {"none", "pending", "claimed"}]
  /\ pass \in [Pass -> Sweep \cup {NULL}]
  /\ cursor \in [Main -> Cursor \cup {NULL}]
  /\ prov \in Provision \cup {NULL}
  /\ budget \in 0..MaxDisturb
  /\ unborn \in 0..MaxPublish
  /\ kept \subseteq Job

Init ==
  /\ alive = [o \in Owner |-> FALSE]
  /\ jobs = [j \in Job |-> NULL]
  /\ occ = [j \in Job |-> "none"]
  /\ pass = [p \in Pass |-> NULL]
  /\ cursor = [m \in Main |-> NULL]
  /\ prov = NULL
  /\ budget = MaxDisturb
  /\ unborn = MaxPublish
  /\ kept = {}

Disturb == budget > 0 /\ budget' = budget - 1
Calm == budget' = budget

-----------------------------------------------------------------------------
\* Rows and statements.

JobsOf(owners) == {j \in Job : jobs[j] # NULL /\ OwnerOf[j] \in owners}
Quarantined(j) == jobs[j] # NULL /\ jobs[j].orphanedFor # NULL

\* A row the provisioning transaction lifted is locked until it ends.
Locked(j) == prov # NULL /\ prov.job = j /\ prov.lifted

Settled(j, s) == jobs[j].createdFor - s.age >= Settle

\* findOwnerIds: the next page of owners of the pass's type.
findOwnerIds(s) ==
  LET owners == {OwnerOf[j] : j \in {k \in JobsOf(Owner) : Settled(k, s)}}
      next == {o \in owners : OwnerType[o] = s.type /\ o > s.after}
  IN {o \in next : Cardinality({q \in next : q < o}) < BatchSize}

BugRestamps(s) == {j \in JobsOf(s.missing) : Settled(j, s)}

\* quarantineByOwnerIds: the jobs its update matches.
quarantineByOwnerIds(s) ==
  {j \in JobsOf(s.missing) : ~Quarantined(j) /\ Settled(j, s)}

\* deleteQuarantinedByOwnerIds: the jobs it deletes.
deleteQuarantinedByOwnerIds(s) ==
  {j \in JobsOf(s.missing) : Quarantined(j) /\ jobs[j].orphanedFor - s.age >= Grace}

BugFindsStopped(s) == {j \in JobsOf(s.alive) : Quarantined(j) /\ ~jobs[j].clock}

\* findQuarantinedByOwnerIds: the jobs a revival reads, before its limit.
findQuarantinedByOwnerIds(s) == {j \in JobsOf(s.alive) : Quarantined(j)}

\* Deleting a job cascades to its occurrences.
DeleteJobs(gone) ==
  /\ jobs' = [j \in Job |-> IF j \in gone THEN NULL ELSE jobs[j]]
  /\ occ' = [j \in Job |-> IF j \in gone THEN "none" ELSE occ[j]]

-----------------------------------------------------------------------------
\* The control flow of a pass between two awaits.

\* summary.resumeFrom ??= ...: the first place the walk stopped short.
StoppedAt(s, type, after) ==
  IF s.resume # NULL THEN s ELSE [s EXCEPT !.resume = [type |-> type, after |-> after]]

\* A pass keeps nothing of a page it left, and only resumeFrom when it returns.
closePage(s) == [s EXCEPT !.ownerIds = {}, !.alive = {}, !.missing = {}, !.lifting = {}, !.full = FALSE]
returns(s) == [closePage(s) EXCEPT !.pc = "done", !.types = {}, !.type = -1, !.after = 0, !.pages = 0]

\* The head of reconcile's loop over the owner types still to walk.
enterType(s, left) ==
  LET claimed == left \cap Claimed
      type == Min(claimed)
  IN IF left # {} /\ (s.aborted \/ s.pages = 0) THEN returns(StoppedAt(s, Min(left), 0))
     ELSE IF claimed = {} THEN returns(s)
     ELSE [closePage(s) EXCEPT
             !.pc = "page", !.type = type,
             !.after = IF s.from # NULL /\ s.from.type = type THEN s.from.after ELSE 0]

leaveType(s) == enterType(s, {t \in s.types : t > s.type})

BugPagesUnchecked(s) ==
  IF s.aborted THEN leaveType(StoppedAt(s, s.type, s.after)) ELSE [closePage(s) EXCEPT !.pc = "page"]

\* The head of sweepOwnerType's loop over pages.
nextPage(s) ==
  IF s.aborted \/ s.pages = 0
    THEN leaveType(StoppedAt(s, s.type, s.after))
    ELSE [closePage(s) EXCEPT !.pc = "page"]

\* How a page that was not lost to its resolver ends.
endPage(s, unfinished) ==
  IF unfinished THEN leaveType(StoppedAt(s, s.type, s.after))
  ELSE IF Cardinality(s.ownerIds) < BatchSize THEN leaveType(s)
  ELSE nextPage([s EXCEPT !.after = Max(s.ownerIds)])

\* deleteExpired and revive ask nothing of the database when they have no owners.
afterAnswer(s, statement) ==
  IF s.missing # {} THEN [s EXCEPT !.pc = statement] ELSE [s EXCEPT !.pc = "revive"]

-----------------------------------------------------------------------------
\* The pass in slot p.

Step(p, s) == pass' = [pass EXCEPT ![p] = s]

pendingOwnerTypes(types, from) ==
  IF from # NULL /\ \E t \in types : t >= from.type
    THEN {t \in types : t >= from.type} ELSE types

StartPass(p) ==
  /\ pass[p] = NULL
  /\ LET types == pendingOwnerTypes({OwnerType[o] : o \in {OwnerOf[j] : j \in JobsOf(Owner)}},
                                    cursor[p[1]])
     IN Step(p, enterType([pc |-> "page", from |-> cursor[p[1]], resume |-> NULL,
                           mayPublish |-> TRUE, aborted |-> FALSE, age |-> 0,
                           types |-> types, type |-> -1, after |-> 0, pages |-> MaxPages,
                           ownerIds |-> {}, alive |-> {}, missing |-> {},
                           lifting |-> {}, full |-> FALSE], types))
  /\ Calm
  /\ UNCHANGED <<alive, jobs, occ, cursor, prov, kept, unborn>>

\* Read a page of owners and ask the resolver about them.
AskPage(p) ==
  /\ pass[p] # NULL /\ pass[p].pc = "page"
  /\ LET ids == findOwnerIds(pass[p])
         s == [pass[p] EXCEPT !.pages = @ - 1, !.ownerIds = ids,
                              !.alive = {o \in ids : alive[o]},
                              !.missing = {o \in ids : ~alive[o]}]
     IN \/ /\ Calm
           /\ Step(p, IF ids = {} THEN leaveType(s) ELSE afterAnswer(s, "quarantine"))
        \/ \* The resolver threw: the rest of the type is abandoned.
           /\ ids # {} /\ Disturb
           /\ Step(p, leaveType(s))
  /\ UNCHANGED <<alive, jobs, occ, cursor, prov, kept, unborn>>

\* Stop, stamp and withdraw, in one transaction.
QuarantineStep(p) ==
  /\ pass[p] # NULL /\ pass[p].pc = "quarantine"
  /\ LET s == pass[p]
         hit == quarantineByOwnerIds(s)
         stamped(j) == j \in hit \/ (j \in JobsOf(s.missing) /\ Quarantined(j))
     IN /\ jobs' = [j \in Job |-> IF j \in hit
                                    THEN [jobs[j] EXCEPT !.clock = FALSE, !.orphanedFor = s.age]
                                    ELSE jobs[j]]
        /\ occ' = [j \in Job |-> IF stamped(j) /\ occ[j] = "pending" THEN "none" ELSE occ[j]]
        /\ Step(p, [s EXCEPT !.pc = IF hit = {} THEN "delete" ELSE "recheck"])
  /\ Calm
  /\ UNCHANGED <<alive, cursor, prov, kept, unborn>>

\* The answer may have gone stale while it was being written: ask again.
Recheck(p) ==
  /\ pass[p] # NULL /\ pass[p].pc = "recheck"
  /\ LET s == [pass[p] EXCEPT !.alive = @ \cup {o \in pass[p].missing : alive[o]},
                              !.missing = {o \in @ : ~alive[o]}]
     IN \/ Calm /\ Step(p, afterAnswer(s, "delete"))
        \/ Disturb /\ Step(p, leaveType(pass[p]))
  /\ UNCHANGED <<alive, jobs, occ, cursor, prov, kept, unborn>>

DeleteExpired(p) ==
  /\ pass[p] # NULL /\ pass[p].pc = "delete"
  /\ \A j \in deleteQuarantinedByOwnerIds(pass[p]) : ~Locked(j)
  /\ DeleteJobs(deleteQuarantinedByOwnerIds(pass[p]))
  /\ Step(p, [pass[p] EXCEPT !.pc = "revive"])
  /\ Calm
  /\ UNCHANGED <<alive, cursor, prov, kept, unborn>>

\* The first half of revive: a page of quarantined jobs, in no order.
FindQuarantined(p) ==
  /\ pass[p] # NULL /\ pass[p].pc = "revive"
  /\ LET s == pass[p]
         all == findQuarantinedByOwnerIds(s)
     IN \E read \in SUBSET all :
          /\ Cardinality(read) = IF Cardinality(all) < BatchSize THEN Cardinality(all) ELSE BatchSize
          /\ Step(p, IF read = {} THEN endPage(s, FALSE)
                     ELSE IF s.aborted THEN endPage(s, TRUE)
                     ELSE [s EXCEPT !.pc = "lift", !.lifting = read,
                                    !.full = Cardinality(read) = BatchSize])
  /\ Calm
  /\ UNCHANGED <<alive, jobs, occ, cursor, prov, kept, unborn>>

liftedRow(j, clock) == [jobs[j] EXCEPT !.orphanedFor = NULL, !.clock = clock]

\* The second half, one lift per job: a schedule that cannot be planned gets no clock.
LiftQuarantine(p, j) ==
  /\ pass[p] # NULL /\ pass[p].pc = "lift" /\ j \in pass[p].lifting
  /\ ~Locked(j)
  /\ LET s == pass[p]
         left == s.lifting \ {j}
     IN /\ IF Quarantined(j)
             THEN \/ Calm /\ jobs' = [jobs EXCEPT ![j] = liftedRow(j, TRUE)]
                  \/ Disturb /\ jobs' = [jobs EXCEPT ![j] = liftedRow(j, FALSE)]
             ELSE Calm /\ UNCHANGED jobs
        /\ Step(p, IF left = {} THEN endPage(s, s.full)
                   ELSE IF s.aborted THEN endPage(s, TRUE)
                   ELSE [s EXCEPT !.lifting = left])
  /\ UNCHANGED <<alive, occ, cursor, prov, kept, unborn>>

\* The signal was aborted while the clock of the lifts was being read.
StopLifting(p) ==
  /\ pass[p] # NULL /\ pass[p].pc = "lift" /\ pass[p].aborted
  /\ Step(p, endPage(pass[p], TRUE))
  /\ Calm
  /\ UNCHANGED <<alive, jobs, occ, cursor, prov, kept, unborn>>

BugPublishesAlways(p, q) == pass[q]

\* published === startedAfter: a pass that returns leaves the ones in flight behind it.
overtaken(p, q) ==
  IF q[1] = p[1] /\ pass[q] # NULL THEN [pass[q] EXCEPT !.mayPublish = FALSE] ELSE pass[q]

\* The pass returns and publishes where the next one resumes.
FinishPass(p) ==
  /\ pass[p] # NULL /\ pass[p].pc = "done"
  /\ IF pass[p].mayPublish
       THEN /\ cursor' = [cursor EXCEPT ![p[1]] = pass[p].resume]
            /\ pass' = [q \in Pass |-> IF q = p THEN NULL ELSE overtaken(p, q)]
       ELSE UNCHANGED cursor /\ Step(p, NULL)
  /\ Calm
  /\ UNCHANGED <<alive, jobs, occ, prov, kept, unborn>>

\* A timeout or a stop aborts the signal of a pass.
AbortPass(p) ==
  /\ pass[p] # NULL /\ ~pass[p].aborted
  /\ Disturb
  /\ Step(p, [pass[p] EXCEPT !.aborted = TRUE])
  /\ UNCHANGED <<alive, jobs, occ, cursor, prov, kept, unborn>>

\* A statement of the pass was rejected: it ends without publishing.
PassError(p) ==
  /\ pass[p] # NULL /\ pass[p].pc # "done"
  /\ Disturb
  /\ Step(p, NULL)
  /\ UNCHANGED <<alive, jobs, occ, cursor, prov, kept, unborn>>

Crash(m) ==
  /\ Disturb
  /\ pass' = [p \in Pass |-> IF p[1] = m THEN NULL ELSE pass[p]]
  /\ cursor' = [cursor EXCEPT ![m] = NULL]
  /\ UNCHANGED <<alive, jobs, occ, prov, kept, unborn>>

-----------------------------------------------------------------------------
\* Owners, and the provisioning of their jobs.

\* The owner is published. Its triggers are activated after that.
Publish(o) ==
  /\ ~alive[o] /\ unborn > 0
  /\ alive' = [alive EXCEPT ![o] = TRUE]
  /\ unborn' = unborn - 1
  /\ Calm
  /\ UNCHANGED <<jobs, occ, pass, cursor, prov, kept>>

\* Whatever took the owner or its jobs away also ends what provisioning promised.
Tear(o) ==
  /\ kept' = {j \in kept : OwnerOf[j] # o}
  /\ prov' = IF prov # NULL /\ OwnerOf[prov.job] = o THEN [prov EXCEPT !.torn = TRUE] ELSE prov

\* The published version goes; any job still there is an orphan now.
Unpublish(o) ==
  /\ alive[o]
  /\ alive' = [alive EXCEPT ![o] = FALSE]
  /\ Tear(o)
  /\ Calm
  /\ UNCHANGED <<jobs, occ, pass, cursor, unborn>>

\* deprovisionOwner, which precedes the removal of the published version, and its
\* twin in the transaction that deletes a workflow no longer published.
DeprovisionOwner(o) ==
  /\ JobsOf({o}) # {}
  /\ \A j \in JobsOf({o}) : ~Locked(j)
  /\ DeleteJobs(JobsOf({o}))
  /\ Tear(o)
  /\ Calm
  /\ UNCHANGED <<alive, pass, cursor, unborn>>

BugProvisionWithoutLift(j) == FALSE

\* liftQuarantineByOwner, the first statement of the transaction.
liftQuarantineByOwner(j) == Quarantined(j)

BeginProvision(j) ==
  /\ prov = NULL /\ alive[OwnerOf[j]]
  /\ prov' = [job |-> j, lifted |-> liftQuarantineByOwner(j), torn |-> FALSE,
             age |-> 0, found |-> NULL]
  /\ Calm
  /\ UNCHANGED <<alive, jobs, occ, pass, cursor, kept, unborn>>

\* findExisting reads without locking; only a lifted row cannot change after it.
FindExisting ==
  /\ prov # NULL /\ prov.found = NULL
  /\ prov' = [prov EXCEPT !.found = IF jobs[prov.job] = NULL THEN "none"
                                  ELSE IF jobs[prov.job].clock THEN "live" ELSE "dead"]
  /\ Calm
  /\ UNCHANGED <<alive, jobs, occ, pass, cursor, kept, unborn>>

\* The row as the transaction leaves it: inserted, redefined or unchanged. The
\* redefinition sets no orphanedAt, and neither finds a row deleted meanwhile.
Provisioned(j, redefines) ==
  LET r == jobs[j]
      lifted == IF prov.lifted THEN [r EXCEPT !.orphanedFor = NULL] ELSE r
  IN IF r = NULL
       THEN IF prov.found = "none"
              THEN [clock |-> TRUE, orphanedFor |-> NULL, createdFor |-> 0] ELSE NULL
     ELSE IF redefines THEN [lifted EXCEPT !.clock = TRUE] ELSE lifted

\* A fresh clock may have an occurrence inside the first window, seeded with it.
CommitProvision(changed, seeded) ==
  /\ prov # NULL /\ prov.found # NULL /\ (seeded => prov.job \in Followed)
  /\ LET j == prov.job
         redefines == prov.found = "dead" \/ (prov.found = "live" /\ changed)
         row == Provisioned(j, redefines)
         fresh == redefines \/ prov.found = "none"
     IN /\ jobs' = [jobs EXCEPT ![j] = row]
        /\ occ' = [occ EXCEPT ![j] = IF row = NULL \/ ~fresh \/ occ[j] \notin {"none", "pending"}
                                       THEN occ[j]
                                     ELSE IF seeded THEN "pending" ELSE "none"]
        /\ kept' = IF alive[OwnerOf[j]] /\ ~prov.torn THEN kept \cup {j} ELSE kept
  /\ prov' = NULL
  /\ Calm
  /\ UNCHANGED <<alive, pass, cursor, unborn>>

RollbackProvision ==
  /\ prov # NULL
  /\ Disturb
  /\ prov' = NULL
  /\ UNCHANGED <<alive, jobs, occ, pass, cursor, kept, unborn>>

-----------------------------------------------------------------------------
\* The rest of the scheduler, as far as the sweep can meet it, and time.

SetOcc(j, from, to) == occ[j] = from /\ occ' = [occ EXCEPT ![j] = to]

\* The materializer records an occurrence of a job with a clock (SKIP LOCKED).
Materialize(j) ==
  /\ jobs[j] # NULL /\ jobs[j].clock /\ ~Locked(j)
  /\ SetOcc(j, "none", "pending")

ClaimTask(j) == SetOcc(j, "pending", "claimed")
ReleaseTask(j) == SetOcc(j, "claimed", "pending")
RunTask(j) == SetOcc(j, "claimed", "none")

TaskStep(j) ==
  /\ Materialize(j) \/ ClaimTask(j) \/ ReleaseTask(j) \/ RunTask(j)
  /\ Calm
  /\ UNCHANGED <<alive, jobs, pass, cursor, prov, kept, unborn>>

Older(age, cap) == IF age < cap THEN age + 1 ELSE age

\* Time, for as long as nothing in flight is FlightTicks old.
Tick ==
  /\ \A p \in Pass : pass[p] # NULL => pass[p].age < FlightTicks
  /\ prov # NULL => prov.age < FlightTicks
  /\ jobs' = [j \in Job |->
       IF jobs[j] = NULL THEN NULL
       ELSE [jobs[j] EXCEPT
               !.createdFor = Older(@, Settle + FlightTicks),
               !.orphanedFor = IF @ = NULL THEN NULL ELSE Older(@, Grace + FlightTicks)]]
  /\ pass' = [p \in Pass |-> IF pass[p] = NULL THEN NULL ELSE [pass[p] EXCEPT !.age = @ + 1]]
  /\ prov' = IF prov = NULL THEN NULL ELSE [prov EXCEPT !.age = @ + 1]
  /\ Calm
  /\ UNCHANGED <<alive, occ, cursor, kept, unborn>>

PassStep(p) ==
  \/ StartPass(p) \/ AskPage(p) \/ QuarantineStep(p) \/ Recheck(p) \/ DeleteExpired(p)
  \/ FindQuarantined(p) \/ (\E j \in Job : LiftQuarantine(p, j)) \/ StopLifting(p)
  \/ FinishPass(p)

Next ==
  \/ \E p \in Pass : PassStep(p) \/ AbortPass(p) \/ PassError(p)
  \/ \E m \in Main : Crash(m)
  \/ \E o \in Owner : Publish(o) \/ Unpublish(o) \/ DeprovisionOwner(o)
  \/ \E j \in Job : BeginProvision(j)
  \/ \E j \in Followed : TaskStep(j)
  \/ FindExisting \/ RollbackProvision
  \/ \E changed, seeded \in BOOLEAN : CommitProvision(changed, seeded)
  \/ Tick

Spec == Init /\ [][Next]_vars

\* Loops keep launching passes, the statements of a pass and of a transaction
\* resolve, and time goes on. Nothing is assumed of owners or of provisioning.
FairSpec ==
  /\ Spec
  /\ \A p \in Pass : WF_vars(PassStep(p))
  /\ WF_vars(FindExisting)
  /\ WF_vars(\E changed, seeded \in BOOLEAN : CommitProvision(changed, seeded))
  /\ SF_vars(Tick)

-----------------------------------------------------------------------------
\* Properties.

\* A job provisioned for an owner that has existed ever since is never deleted,
\* whatever stale answers the sweeps in flight still hold (sweepPage's recheck,
\* the quarantine grace and the lift at the head of the provisioning transaction).
ProvisionedNeverDeleted == \A j \in kept : jobs[j] # NULL

\* A main's cursor moves only when a pass returns that started from it: an
\* overtaken pass neither rewinds nor skips the walk (runReconcile's published).
CursorMovesFromItself ==
  [][\A m \in Main : cursor'[m] # cursor[m] =>
       \/ \E p \in Pass : /\ p[1] = m /\ pass[p] # NULL /\ pass'[p] = NULL
                          /\ pass[p].from = cursor[m] /\ pass[p].resume = cursor'[m]
       \/ budget' < budget]_vars

\* The jobs an owner left behind are deleted in the end if it stays gone, however
\* the walk is paged and resumed (the purpose of the sweep).
OrphansRetired ==
  \A o \in Owner : <>[](~alive[o]) => <>[](JobsOf({o}) = {})

\* An owner that stays around has, in the end, no quarantined job: no wrong or
\* stale answer sticks (sweepPage's recheck and revive).
LivingRevived ==
  \A o \in Owner : <>[]alive[o] => <>[](\A j \in JobsOf({o}) : ~Quarantined(j))

-----------------------------------------------------------------------------
\* The inductive invariant behind the safety theorems.

\* Where a pass waits, it has a type to walk, and a page it may still ask for.
SweepOK(s) ==
  /\ s \in Sweep
  /\ s.pc # "done" => s.type \in Types
  /\ s.pc = "page" => s.pages > 0

PassesOK == \A p \in Pass : pass[p] # NULL => SweepOK(pass[p])

\* A pass that may publish started where its main's cursor still is.
PublishersCurrent ==
  \A p \in Pass : pass[p] # NULL /\ pass[p].mayPublish => pass[p].from = cursor[p[1]]

\* What provisioning relies on: the row it lifted stays quarantined and locked, its owner
\* exists unless it was torn, and a row it found is still there.
ProvisionOK ==
  prov # NULL =>
    /\ prov.lifted => Quarantined(prov.job)
    /\ ~prov.torn => /\ alive[OwnerOf[prov.job]]
                     /\ prov.found \in {"live", "dead"} => jobs[prov.job] # NULL

KeptOK == \A j \in kept : jobs[j] # NULL /\ alive[OwnerOf[j]]

\* Jobs no stale answer may delete: provisioned, or being so without the lock of a lift.
Exposed(j) ==
  j \in kept \/ (prov # NULL /\ prov.job = j /\ ~prov.torn /\ ~prov.lifted)

\* A pass that still takes the owner of such a job for missing asked before the owner was
\* published, so before the job was stamped: the stamp is younger than the grace to it.
StampsYoung ==
  \A j \in Job, p \in Pass :
    /\ Exposed(j) /\ Quarantined(j) /\ pass[p] # NULL
    /\ OwnerOf[j] \in pass[p].missing
    => jobs[j].orphanedFor <= pass[p].age + FlightTicks

IInv == /\ TypeOK /\ PassesOK /\ PublishersCurrent
        /\ ProvisionOK /\ KeptOK /\ StampsYoung
=============================================================================
