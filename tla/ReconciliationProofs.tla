------------------------ MODULE ReconciliationProofs ------------------------
(***************************************************************************)
(* Proofs about Reconciliation, for any owners, jobs, mains and passes in  *)
(* flight: types, that a job provisioned for a living owner is never       *)
(* deleted, and that a cursor moves only with a pass that started from it. *)
(***************************************************************************)
EXTENDS Reconciliation, CollectionLemmas

-----------------------------------------------------------------------------
\* The control flow of a pass: what each operator does to a sweep.

\* A sweep that goes on from s: it keeps its clock, its start and its right to publish,
\* and takes no owner for missing that s did not.
Continues(s, r) ==
  /\ SweepOK(r)
  /\ r.age = s.age /\ r.from = s.from /\ r.mayPublish = s.mayPublish
  /\ r.missing \subseteq s.missing

\* The owner types are naturals.
LEMMA TypesAreNats == Types \subseteq Nat
BY OwnerAssumption DEF Types

\* Leaving a page keeps the walk.
LEMMA ClosePage ==
  ASSUME NEW s \in Sweep
  PROVE  LET c == closePage(s) IN
         /\ c \in Sweep /\ c.missing = {} /\ c.pc = s.pc /\ c.pages = s.pages /\ c.type = s.type
         /\ c.age = s.age /\ c.from = s.from /\ c.mayPublish = s.mayPublish
BY DEF closePage, Sweep

\* A pass that returns keeps nothing of it.
LEMMA Returns ==
  ASSUME NEW s \in Sweep PROVE Continues(s, returns(s))
<1> DEFINE c == closePage(s)
<1>1. /\ c \in Sweep /\ c.missing = {} /\ c.age = s.age /\ c.from = s.from
      /\ c.mayPublish = s.mayPublish
  BY ClosePage
<1>2. returns(s) = [c EXCEPT !.pc = "done", !.types = {}, !.type = -1, !.after = 0, !.pages = 0]
  BY DEF returns
<1>3. 0 \in 0..MaxPages BY KnobAssumption
<1> HIDE DEF c
<1>4. returns(s) \in Sweep BY <1>1, <1>2, <1>3 DEF Sweep
<1> QED BY <1>1, <1>2, <1>4 DEF Continues, SweepOK, Sweep

\* Noting where the walk stopped short changes nothing else.
LEMMA Stopped ==
  ASSUME NEW s \in Sweep, NEW type \in Types, NEW after \in Owner \cup {0}
  PROVE  LET r == StoppedAt(s, type, after) IN
         /\ r \in Sweep /\ r.missing = s.missing /\ r.types = s.types /\ r.type = s.type
         /\ r.age = s.age /\ r.from = s.from /\ r.mayPublish = s.mayPublish
<1> DEFINE c == [type |-> type, after |-> after]
<1>1. c \in Cursor BY DEF Cursor
<1> HIDE DEF c
<1> QED BY <1>1 DEF StoppedAt, Sweep, c

\* Entering a type: there is a page left to ask for, or the pass returns.
LEMMA EnterType ==
  ASSUME NEW s \in Sweep, NEW left \in SUBSET Types PROVE Continues(s, enterType(s, left))
<1> DEFINE claimed == left \cap Claimed
           type == Min(claimed)
           after == IF s.from # NULL /\ s.from.type = type THEN s.from.after ELSE 0
           c == closePage(s)
           r == [c EXCEPT !.pc = "page", !.type = type, !.after = after]
<1>1. CASE left # {} /\ (s.aborted \/ s.pages = 0)
  <2>1. Min(left) \in Types BY <1>1, TypesAreNats, MinOfNats
  <2>2. 0 \in Owner \cup {0} OBVIOUS
  <2> DEFINE stopped == StoppedAt(s, Min(left), 0)
  <2>3. /\ stopped \in Sweep /\ stopped.missing = s.missing /\ stopped.age = s.age
        /\ stopped.from = s.from /\ stopped.mayPublish = s.mayPublish
    BY <2>1, <2>2, Stopped
  <2>4. enterType(s, left) = returns(stopped) BY <1>1 DEF enterType
  <2> HIDE DEF stopped
  <2> QED BY <2>3, <2>4, Returns DEF Continues
<1>2. CASE ~(left # {} /\ (s.aborted \/ s.pages = 0)) /\ claimed = {}
  <2>1. enterType(s, left) = returns(s) BY <1>2 DEF enterType
  <2> QED BY <2>1, Returns
<1>3. CASE ~(left # {} /\ (s.aborted \/ s.pages = 0)) /\ claimed # {}
  <2>1. enterType(s, left) = r BY <1>3 DEF enterType
  <2>2. type \in Types BY <1>3, TypesAreNats, MinOfNats
  <2>3. after \in Owner \cup {0} BY DEF Sweep, Cursor
  <2>4. /\ c \in Sweep /\ c.missing = {} /\ c.pages = s.pages
        /\ c.age = s.age /\ c.from = s.from /\ c.mayPublish = s.mayPublish
    BY ClosePage
  <2>5. s.pages > 0 BY <1>3, KnobAssumption DEF Sweep
  <2> HIDE DEF c, type, after
  <2>6. /\ r \in Sweep /\ r.missing = c.missing /\ r.age = c.age /\ r.from = c.from
        /\ r.mayPublish = c.mayPublish /\ r.pages = c.pages /\ r.type = type
    BY <2>2, <2>3, <2>4 DEF Sweep
  <2> HIDE DEF r
  <2> QED BY <2>1, <2>2, <2>4, <2>5, <2>6 DEF Continues, SweepOK
<1> QED BY <1>1, <1>2, <1>3

\* Leaving one goes on with the types above it.
LEMMA LeaveType ==
  ASSUME NEW s \in Sweep PROVE Continues(s, leaveType(s))
<1>1. {t \in s.types : t > s.type} \in SUBSET Types BY DEF Sweep
<1> QED BY <1>1, EnterType DEF leaveType

\* Where the walk stops short, the type is left.
LEMMA LeaveStopped ==
  ASSUME NEW s \in Sweep, s.type \in Types
  PROVE  Continues(s, leaveType(StoppedAt(s, s.type, s.after)))
<1> DEFINE r == StoppedAt(s, s.type, s.after)
<1>1. s.after \in Owner \cup {0} BY DEF Sweep
<1>2. /\ r \in Sweep /\ r.missing = s.missing /\ r.age = s.age /\ r.from = s.from
      /\ r.mayPublish = s.mayPublish
  BY <1>1, Stopped
<1> HIDE DEF r
<1>3. Continues(s, leaveType(r)) BY <1>2, LeaveType DEF Continues
<1> QED BY <1>3 DEF r

\* The next page of a type.
LEMMA NextPage ==
  ASSUME NEW s \in Sweep, s.type \in Types PROVE Continues(s, nextPage(s))
<1> DEFINE c == closePage(s)
           r == [c EXCEPT !.pc = "page"]
<1>1. CASE s.aborted \/ s.pages = 0 BY <1>1, LeaveStopped DEF nextPage
<1>2. CASE ~(s.aborted \/ s.pages = 0)
  <2>1. nextPage(s) = r BY <1>2 DEF nextPage
  <2>2. /\ c \in Sweep /\ c.missing = {} /\ c.pages = s.pages /\ c.type = s.type
        /\ c.age = s.age /\ c.from = s.from /\ c.mayPublish = s.mayPublish
    BY ClosePage
  <2>3. s.pages > 0 BY <1>2, KnobAssumption DEF Sweep
  <2> HIDE DEF c
  <2>4. /\ r \in Sweep /\ r.missing = c.missing /\ r.age = c.age /\ r.from = c.from
        /\ r.mayPublish = c.mayPublish /\ r.pages = c.pages /\ r.type = c.type
    BY <2>2 DEF Sweep
  <2> HIDE DEF r
  <2> QED BY <2>1, <2>2, <2>3, <2>4 DEF Continues, SweepOK
<1> QED BY <1>1, <1>2

\* However a page ends, the pass goes on from it.
LEMMA EndPage ==
  ASSUME NEW s \in Sweep, s.type \in Types, NEW unfinished
  PROVE  Continues(s, endPage(s, unfinished))
<1>1. CASE unfinished BY <1>1, LeaveStopped DEF endPage
<1>2. CASE ~unfinished /\ Cardinality(s.ownerIds) < BatchSize BY <1>2, LeaveType DEF endPage
<1>3. CASE ~unfinished /\ ~(Cardinality(s.ownerIds) < BatchSize)
  <2> DEFINE top == Max(s.ownerIds)
             r == [s EXCEPT !.after = top]
  <2>1. s.ownerIds \subseteq Owner BY DEF Sweep
  <2>2. s.ownerIds # {} BY <1>3, FS_EmptySet, KnobAssumption
  <2>3. top \in Owner BY <2>1, <2>2, FS_Subset, MaxOfFinite, OwnerAssumption
  <2> HIDE DEF top
  <2>4. /\ r \in Sweep /\ r.missing = s.missing /\ r.age = s.age /\ r.from = s.from
        /\ r.mayPublish = s.mayPublish /\ r.type = s.type
    BY <2>3 DEF Sweep
  <2>5. endPage(s, unfinished) = nextPage(r) BY <1>3 DEF endPage, top
  <2> HIDE DEF r
  <2> QED BY <2>4, <2>5, NextPage DEF Continues
<1> QED BY <1>1, <1>2, <1>3

\* A pass that waits for a statement of the page it is on.
LEMMA MovesOn ==
  ASSUME NEW s \in Sweep, s.type \in Types,
         NEW pc \in {"quarantine", "recheck", "delete", "revive", "lift"}
  PROVE  LET r == [s EXCEPT !.pc = pc] IN
         Continues(s, r) /\ r.missing = s.missing /\ r.pc = pc
<1> DEFINE r == [s EXCEPT !.pc = pc]
<1>1. /\ r \in Sweep /\ r.missing = s.missing /\ r.age = s.age /\ r.from = s.from
      /\ r.mayPublish = s.mayPublish /\ r.type = s.type /\ r.pc = pc
  BY DEF Sweep
<1> HIDE DEF r
<1> QED BY <1>1 DEF Continues, SweepOK, r

\* What follows an answer.
LEMMA AfterAnswer ==
  ASSUME NEW s \in Sweep, s.type \in Types, NEW pc \in {"quarantine", "delete"}
  PROVE  Continues(s, afterAnswer(s, pc))
BY MovesOn DEF afterAnswer

-----------------------------------------------------------------------------
\* Steps that change passes only.

\* A pass in flight is a well-formed sweep.
LEMMA PassInFlight ==
  ASSUME IInv, NEW p \in Pass, pass[p] # NULL
  PROVE  pass[p] \in Sweep /\ SweepOK(pass[p])
BY DEF IInv, PassesOK, SweepOK

\* A step of one pass that goes on.
LEMMA PassContinues ==
  ASSUME IInv, NEW p \in Pass, pass[p] # NULL, NEW r, Continues(pass[p], r),
         pass' = [pass EXCEPT ![p] = r], UNCHANGED cursor
  PROVE  /\ pass' \in [Pass -> Sweep \cup {NULL}] /\ PassesOK' /\ PublishersCurrent'
         /\ \A q \in Pass : pass'[q] # NULL =>
              /\ pass[q] # NULL /\ pass'[q].age = pass[q].age
              /\ pass'[q].missing \subseteq pass[q].missing
<1>1. SweepOK(r) /\ r \in Sweep /\ r.age = pass[p].age /\ r.from = pass[p].from
      /\ r.mayPublish = pass[p].mayPublish /\ r.missing \subseteq pass[p].missing
  BY DEF Continues, SweepOK
<1>2. pass' \in [Pass -> Sweep \cup {NULL}] BY <1>1 DEF IInv, TypeOK
<1>3. \A q \in Pass : pass'[q] = IF q = p THEN r ELSE pass[q] BY DEF IInv, TypeOK
<1>4. PassesOK' BY <1>1, <1>3 DEF IInv, PassesOK
<1>5. PublishersCurrent' BY <1>1, <1>3 DEF IInv, PublishersCurrent
<1> QED BY <1>1, <1>2, <1>3, <1>4, <1>5

\* Steps that leave owners, jobs and provisioning alone: a pass takes no living owner
\* for missing that it did not take before.
LEMMA OnlyPasses ==
  ASSUME IInv, UNCHANGED <<alive, jobs, occ, prov, kept, unborn>>, budget' \in 0..MaxDisturb,
         cursor' \in [Main -> Cursor \cup {NULL}], pass' \in [Pass -> Sweep \cup {NULL}],
         PassesOK', PublishersCurrent',
         \A q \in Pass : pass'[q] # NULL => \A o \in pass'[q].missing : alive[o] =>
           pass[q] # NULL /\ pass'[q].age = pass[q].age /\ o \in pass[q].missing
  PROVE  IInv'
<1>1. TypeOK' BY DEF IInv, TypeOK
<1>2. ProvisionOK' /\ KeptOK' BY DEF IInv, ProvisionOK, KeptOK, Quarantined
<1>3. StampsYoung'
  <2> SUFFICES ASSUME NEW j \in Job, NEW q \in Pass, Exposed(j)', Quarantined(j)', pass'[q] # NULL,
                      OwnerOf[j] \in pass'[q].missing
               PROVE  jobs'[j].orphanedFor <= pass'[q].age + FlightTicks
    BY DEF StampsYoung
  <2>1. Exposed(j) /\ Quarantined(j) BY DEF Exposed, Quarantined
  <2>2. alive[OwnerOf[j]] BY <2>1 DEF Exposed, IInv, KeptOK, ProvisionOK
  <2> QED BY <2>1, <2>2 DEF IInv, StampsYoung
<1> QED BY <1>1, <1>2, <1>3 DEF IInv

\* A pass goes on, and nothing else changes.
LEMMA PassOnly ==
  ASSUME IInv, NEW p \in Pass, pass[p] # NULL, NEW r, Continues(pass[p], r),
         pass' = [pass EXCEPT ![p] = r], Calm \/ Disturb,
         UNCHANGED <<alive, jobs, occ, cursor, prov, kept, unborn>>
  PROVE  IInv'
<1>1. budget' \in 0..MaxDisturb BY KnobAssumption DEF IInv, TypeOK, Calm, Disturb
<1>2. cursor' \in [Main -> Cursor \cup {NULL}] BY DEF IInv, TypeOK
<1>3. /\ pass' \in [Pass -> Sweep \cup {NULL}] /\ PassesOK' /\ PublishersCurrent'
      /\ \A q \in Pass : pass'[q] # NULL =>
           /\ pass[q] # NULL /\ pass'[q].age = pass[q].age
           /\ pass'[q].missing \subseteq pass[q].missing
  BY PassContinues
<1> QED BY <1>1, <1>2, <1>3, OnlyPasses

\* A pass that starts knows nothing yet.
LEMMA StartPassInv ==
  ASSUME IInv, NEW p \in Pass, StartPass(p) PROVE IInv'
<1> DEFINE types == pendingOwnerTypes({OwnerType[o] : o \in {OwnerOf[j] : j \in JobsOf(Owner)}},
                                      cursor[p[1]])
           s == [pc |-> "page", from |-> cursor[p[1]], resume |-> NULL,
                 mayPublish |-> TRUE, aborted |-> FALSE, age |-> 0,
                 types |-> types, type |-> -1, after |-> 0, pages |-> MaxPages,
                 ownerIds |-> {}, alive |-> {}, missing |-> {},
                 lifting |-> {}, full |-> FALSE]
           r == enterType(s, types)
<1>1. /\ pass' = [pass EXCEPT ![p] = r] /\ budget' = budget
      /\ UNCHANGED <<alive, jobs, occ, cursor, prov, kept, unborn>>
  BY DEF StartPass, Step, Calm
<1>2. types \subseteq Types
  <2>1. {OwnerType[o] : o \in {OwnerOf[j] : j \in JobsOf(Owner)}} \subseteq Types
    BY OwnerAssumption DEF JobsOf, Types
  <2> QED BY <2>1 DEF pendingOwnerTypes
<1>3. cursor[p[1]] \in Cursor \cup {NULL} BY DEF IInv, TypeOK, Pass
<1>4. 0 \in 0..FlightTicks /\ MaxPages \in 0..MaxPages BY KnobAssumption
<1> HIDE DEF types
<1>5. s \in Sweep /\ s.missing = {} /\ s.from = cursor[p[1]] /\ s.mayPublish
  BY <1>2, <1>3, <1>4 DEF Sweep
<1> HIDE DEF s
<1>6. Continues(s, r) BY <1>2, <1>5, EnterType
<1> HIDE DEF r
<1>7. SweepOK(r) /\ r \in Sweep /\ r.missing = {} /\ r.from = cursor[p[1]]
  BY <1>5, <1>6 DEF Continues, SweepOK
<1>8. /\ pass' \in [Pass -> Sweep \cup {NULL}]
      /\ \A q \in Pass : pass'[q] = IF q = p THEN r ELSE pass[q]
  BY <1>1, <1>7 DEF IInv, TypeOK
<1>9. PassesOK' /\ PublishersCurrent'
  BY <1>1, <1>7, <1>8 DEF IInv, PassesOK, PublishersCurrent
<1>10. budget' \in 0..MaxDisturb /\ cursor' \in [Main -> Cursor \cup {NULL}]
  BY <1>1 DEF IInv, TypeOK
<1>11. \A q \in Pass : pass'[q] # NULL => \A o \in pass'[q].missing : alive[o] =>
         pass[q] # NULL /\ pass'[q].age = pass[q].age /\ o \in pass[q].missing
  BY <1>7, <1>8
<1> QED BY <1>1, <1>8, <1>9, <1>10, <1>11, OnlyPasses

\* An answer is right when it is given: the owners it calls missing are not alive.
LEMMA AskPageInv ==
  ASSUME IInv, NEW p \in Pass, AskPage(p) PROVE IInv'
<1> DEFINE old == pass[p]
           ids == findOwnerIds(old)
           s == [old EXCEPT !.pages = @ - 1, !.ownerIds = ids,
                            !.alive = {o \in ids : alive[o]},
                            !.missing = {o \in ids : ~alive[o]}]
<1>1. /\ old # NULL /\ old.pc = "page" /\ (Calm \/ Disturb)
      /\ UNCHANGED <<alive, jobs, occ, cursor, prov, kept, unborn>>
  BY DEF AskPage
<1>2. old \in Sweep /\ old.type \in Types /\ old.pages > 0
  BY <1>1, PassInFlight DEF SweepOK
<1>3. ids \subseteq Owner BY OwnerAssumption DEF findOwnerIds, JobsOf
<1>4. old.pages - 1 \in 0..MaxPages BY <1>2, KnobAssumption DEF Sweep
<1> HIDE DEF ids, old
<1>5. /\ s \in Sweep /\ s.missing = {o \in ids : ~alive[o]} /\ s.age = old.age
      /\ s.from = old.from /\ s.mayPublish = old.mayPublish /\ s.type = old.type
  BY <1>2, <1>3, <1>4 DEF Sweep
<1>6. PICK r \in {leaveType(s), afterAnswer(s, "quarantine")} : pass' = [pass EXCEPT ![p] = r]
  BY DEF AskPage, Step, old, ids
<1> HIDE DEF s
<1>7. Continues(s, r) BY <1>2, <1>5, <1>6, LeaveType, AfterAnswer
<1>8. /\ SweepOK(r) /\ r \in Sweep /\ r.age = old.age /\ r.from = old.from
      /\ r.mayPublish = old.mayPublish /\ \A o \in r.missing : ~alive[o]
  BY <1>5, <1>7 DEF Continues, SweepOK
<1>9. /\ pass' \in [Pass -> Sweep \cup {NULL}]
      /\ \A q \in Pass : pass'[q] = IF q = p THEN r ELSE pass[q]
  BY <1>6, <1>8 DEF IInv, TypeOK
<1>10. PassesOK' /\ PublishersCurrent'
  BY <1>1, <1>8, <1>9 DEF IInv, PassesOK, PublishersCurrent, old
<1>11. budget' \in 0..MaxDisturb /\ cursor' \in [Main -> Cursor \cup {NULL}]
  BY <1>1, KnobAssumption DEF IInv, TypeOK, Calm, Disturb
<1>12. \A q \in Pass : pass'[q] # NULL => \A o \in pass'[q].missing : alive[o] =>
         pass[q] # NULL /\ pass'[q].age = pass[q].age /\ o \in pass[q].missing
  BY <1>8, <1>9
<1> QED BY <1>1, <1>9, <1>10, <1>11, <1>12, OnlyPasses

\* The second answer only takes owners off the missing.
LEMMA RecheckInv ==
  ASSUME IInv, NEW p \in Pass, Recheck(p) PROVE IInv'
<1> DEFINE old == pass[p]
           s == [old EXCEPT !.alive = @ \cup {o \in old.missing : alive[o]},
                            !.missing = {o \in @ : ~alive[o]}]
<1>1. /\ old # NULL /\ old.pc = "recheck" /\ (Calm \/ Disturb)
      /\ UNCHANGED <<alive, jobs, occ, cursor, prov, kept, unborn>>
  BY DEF Recheck
<1>2. old \in Sweep /\ old.type \in Types BY <1>1, PassInFlight DEF SweepOK
<1>3. PICK r \in {afterAnswer(s, "delete"), leaveType(old)} : pass' = [pass EXCEPT ![p] = r]
  BY DEF Recheck, Step
<1> HIDE DEF old
<1>4. /\ s \in Sweep /\ s.missing \subseteq old.missing /\ s.age = old.age
      /\ s.from = old.from /\ s.mayPublish = old.mayPublish /\ s.type = old.type
  BY <1>2 DEF Sweep
<1> HIDE DEF s
<1>5. Continues(old, leaveType(old)) BY <1>2, LeaveType
<1>6. Continues(s, afterAnswer(s, "delete")) BY <1>2, <1>4, AfterAnswer
<1>7. Continues(old, r) BY <1>3, <1>4, <1>5, <1>6 DEF Continues
<1> QED BY <1>1, <1>3, <1>7, PassOnly DEF old

\* The read of a revival, and a revival cut short.
LEMMA RevivalReads ==
  ASSUME IInv, NEW p \in Pass, FindQuarantined(p) \/ StopLifting(p) PROVE IInv'
<1> DEFINE s == pass[p]
<1>1. /\ s # NULL /\ s.pc \in {"revive", "lift"} /\ Calm
      /\ UNCHANGED <<alive, jobs, occ, cursor, prov, kept, unborn>>
  BY DEF FindQuarantined, StopLifting
<1>2. s \in Sweep /\ s.type \in Types BY <1>1, PassInFlight DEF SweepOK
<1>3. ASSUME NEW r, Continues(s, r), pass' = [pass EXCEPT ![p] = r] PROVE IInv'
  BY <1>1, <1>3, PassOnly
<1>4. ASSUME NEW unfinished, pass' = [pass EXCEPT ![p] = endPage(s, unfinished)] PROVE IInv'
  <2>1. Continues(s, endPage(s, unfinished)) BY <1>2, EndPage
  <2> HIDE DEF s
  <2> QED BY <1>3, <1>4, <2>1
<1>5. ASSUME NEW read \in SUBSET Job, NEW full \in BOOLEAN,
             pass' = [pass EXCEPT ![p] = [s EXCEPT !.pc = "lift", !.lifting = read, !.full = full]]
      PROVE  IInv'
  <2> DEFINE r == [s EXCEPT !.pc = "lift", !.lifting = read, !.full = full]
  <2> HIDE DEF s
  <2>1. /\ r \in Sweep /\ r.missing = s.missing /\ r.age = s.age /\ r.from = s.from
        /\ r.mayPublish = s.mayPublish /\ r.type = s.type /\ r.pc = "lift"
    BY <1>2 DEF Sweep
  <2> HIDE DEF r
  <2>2. Continues(s, r) BY <1>2, <2>1 DEF Continues, SweepOK
  <2> QED BY <1>3, <1>5, <2>2 DEF r
<1>6. CASE FindQuarantined(p)
  <2>1. PICK read \in SUBSET findQuarantinedByOwnerIds(s) :
          pass' = [pass EXCEPT ![p] =
                     IF read = {} THEN endPage(s, FALSE)
                     ELSE IF s.aborted THEN endPage(s, TRUE)
                     ELSE [s EXCEPT !.pc = "lift", !.lifting = read,
                                    !.full = Cardinality(read) = BatchSize]]
    BY <1>6 DEF FindQuarantined, Step
  <2>2. read \in SUBSET Job BY <2>1 DEF findQuarantinedByOwnerIds, JobsOf
  <2>3. (Cardinality(read) = BatchSize) \in BOOLEAN OBVIOUS
  <2> HIDE DEF s
  <2>4. CASE read = {} BY <1>4, <2>1, <2>4
  <2>5. CASE read # {} /\ s.aborted BY <1>4, <2>1, <2>5
  <2>6. CASE read # {} /\ ~s.aborted BY <1>5, <2>1, <2>2, <2>3, <2>6
  <2> QED BY <2>4, <2>5, <2>6
<1>7. CASE StopLifting(p) BY <1>4, <1>7 DEF StopLifting, Step
<1> QED BY <1>6, <1>7

\* Aborting a pass leaves it where it is.
LEMMA AbortPassInv ==
  ASSUME IInv, NEW p \in Pass, AbortPass(p) PROVE IInv'
<1> DEFINE s == pass[p]
           r == [s EXCEPT !.aborted = TRUE]
<1>1. /\ s # NULL /\ Disturb /\ pass' = [pass EXCEPT ![p] = r]
      /\ UNCHANGED <<alive, jobs, occ, cursor, prov, kept, unborn>>
  BY DEF AbortPass, Step
<1>2. s \in Sweep /\ SweepOK(s) BY <1>1, PassInFlight
<1> HIDE DEF s
<1>3. /\ r \in Sweep /\ r.missing = s.missing /\ r.age = s.age /\ r.from = s.from
      /\ r.mayPublish = s.mayPublish /\ r.type = s.type /\ r.pc = s.pc /\ r.pages = s.pages
  BY <1>2 DEF Sweep
<1> HIDE DEF r
<1>4. Continues(s, r) BY <1>2, <1>3 DEF Continues, SweepOK
<1> QED BY <1>1, <1>4, PassOnly DEF s

\* Passes that end, or lose their right to publish, and the cursor they leave.
LEMMA PassesEnd ==
  ASSUME IInv, UNCHANGED <<alive, jobs, occ, prov, kept, unborn>>, Calm \/ Disturb,
         cursor' \in [Main -> Cursor \cup {NULL}], pass' \in [Pass -> Sweep \cup {NULL}],
         \A q \in Pass : pass'[q] # NULL =>
           /\ pass[q] # NULL
           /\ pass'[q] = pass[q] \/ pass'[q] = [pass[q] EXCEPT !.mayPublish = FALSE]
           /\ pass'[q].mayPublish => pass'[q] = pass[q] /\ cursor'[q[1]] = cursor[q[1]]
  PROVE  IInv'
<1>1. budget' \in 0..MaxDisturb BY KnobAssumption DEF IInv, TypeOK, Calm, Disturb
<1>2. ASSUME NEW q \in Pass, pass'[q] # NULL
      PROVE  /\ SweepOK(pass'[q]) /\ pass'[q].age = pass[q].age
             /\ pass'[q].missing = pass[q].missing
  <2> DEFINE s == pass[q]
             r == [s EXCEPT !.mayPublish = FALSE]
  <2>1. s \in Sweep /\ SweepOK(s) BY <1>2, PassInFlight
  <2> HIDE DEF s
  <2>2. /\ r \in Sweep /\ r.missing = s.missing /\ r.age = s.age
        /\ r.type = s.type /\ r.pc = s.pc /\ r.pages = s.pages
    BY <2>1 DEF Sweep
  <2> HIDE DEF r
  <2>3. SweepOK(r) BY <2>1, <2>2 DEF SweepOK
  <2> QED BY <1>2, <2>1, <2>2, <2>3 DEF s, r
<1>3. PassesOK' BY <1>2 DEF PassesOK
<1>4. PublishersCurrent' BY DEF IInv, PublishersCurrent
<1>5. \A q \in Pass : pass'[q] # NULL => \A o \in pass'[q].missing : alive[o] =>
        pass[q] # NULL /\ pass'[q].age = pass[q].age /\ o \in pass[q].missing
  BY <1>2
<1> QED BY <1>1, <1>3, <1>4, <1>5, OnlyPasses

\* Whatever ends a pass without a word.
LEMMA PassErrorInv ==
  ASSUME IInv, NEW p \in Pass, PassError(p) PROVE IInv'
<1>1. /\ pass' = [pass EXCEPT ![p] = NULL] /\ Disturb
      /\ UNCHANGED <<alive, jobs, occ, cursor, prov, kept, unborn>>
  BY DEF PassError, Step
<1>2. /\ pass' \in [Pass -> Sweep \cup {NULL}] /\ cursor' \in [Main -> Cursor \cup {NULL}]
      /\ \A q \in Pass : pass'[q] = IF q = p THEN NULL ELSE pass[q]
  BY <1>1 DEF IInv, TypeOK
<1> QED BY <1>1, <1>2, PassesEnd

\* A main that crashed has no pass and no cursor.
LEMMA CrashInv ==
  ASSUME IInv, NEW m \in Main, Crash(m) PROVE IInv'
<1>1. /\ pass' = [p \in Pass |-> IF p[1] = m THEN NULL ELSE pass[p]] /\ Disturb
      /\ cursor' = [cursor EXCEPT ![m] = NULL]
      /\ UNCHANGED <<alive, jobs, occ, prov, kept, unborn>>
  BY DEF Crash
<1>2. /\ pass' \in [Pass -> Sweep \cup {NULL}] /\ cursor' \in [Main -> Cursor \cup {NULL}]
      /\ \A q \in Pass : pass'[q] = IF q[1] = m THEN NULL ELSE pass[q]
      /\ \A n \in Main : n # m => cursor'[n] = cursor[n]
  BY <1>1 DEF IInv, TypeOK
<1>3. \A q \in Pass : q[1] \in Main BY DEF Pass
<1> QED BY <1>1, <1>2, <1>3, PassesEnd

\* A pass that returns moves the cursor of its main and overtakes its other passes.
LEMMA FinishPassInv ==
  ASSUME IInv, NEW p \in Pass, FinishPass(p) PROVE IInv'
<1>1. pass[p] # NULL /\ Calm /\ UNCHANGED <<alive, jobs, occ, prov, kept, unborn>>
  BY DEF FinishPass
<1>2. pass[p] \in Sweep BY <1>1, PassInFlight
<1>3. CASE pass[p].mayPublish
  <2>1. /\ cursor' = [cursor EXCEPT ![p[1]] = pass[p].resume]
        /\ pass' = [q \in Pass |-> IF q = p THEN NULL ELSE overtaken(p, q)]
    BY <1>3 DEF FinishPass
  <2>2. pass[p].resume \in Cursor \cup {NULL} BY <1>2 DEF Sweep
  <2>3. /\ cursor' \in [Main -> Cursor \cup {NULL}]
        /\ \A n \in Main : n # p[1] => cursor'[n] = cursor[n]
    BY <2>1, <2>2 DEF IInv, TypeOK
  <2>4. ASSUME NEW q \in Pass
        PROVE  /\ overtaken(p, q) \in Sweep \cup {NULL}
               /\ overtaken(p, q) # NULL =>
                    /\ pass[q] # NULL
                    /\ overtaken(p, q) = pass[q] \/ overtaken(p, q) = [pass[q] EXCEPT !.mayPublish = FALSE]
                    /\ overtaken(p, q).mayPublish => overtaken(p, q) = pass[q] /\ q[1] # p[1]
    <3> DEFINE s == pass[q]
               r == [s EXCEPT !.mayPublish = FALSE]
    <3>1. s \in Sweep \cup {NULL} BY DEF IInv, TypeOK
    <3>2. CASE s = NULL BY <3>2 DEF overtaken
    <3>3. CASE s # NULL /\ q[1] = p[1]
      <4>1. overtaken(p, q) = r BY <3>3 DEF overtaken
      <4> HIDE DEF s
      <4>2. r \in Sweep /\ ~r.mayPublish BY <3>1, <3>3 DEF Sweep
      <4> QED BY <3>3, <4>1, <4>2 DEF s
    <3>4. CASE s # NULL /\ q[1] # p[1] BY <3>1, <3>4 DEF overtaken
    <3> QED BY <3>2, <3>3, <3>4
  <2>5. pass' \in [Pass -> Sweep \cup {NULL}]
    BY <2>1, <2>4
  <2>6. \A q \in Pass : pass'[q] = IF q = p THEN NULL ELSE overtaken(p, q) BY <2>1
  <2>7. \A q \in Pass : q[1] \in Main BY DEF Pass
  <2> QED BY <1>1, <2>3, <2>4, <2>5, <2>6, <2>7, PassesEnd
<1>4. CASE ~pass[p].mayPublish
  <2>1. UNCHANGED cursor /\ pass' = [pass EXCEPT ![p] = NULL] BY <1>4 DEF FinishPass, Step
  <2>2. /\ pass' \in [Pass -> Sweep \cup {NULL}] /\ cursor' \in [Main -> Cursor \cup {NULL}]
        /\ \A q \in Pass : pass'[q] = IF q = p THEN NULL ELSE pass[q]
    BY <2>1 DEF IInv, TypeOK
  <2> QED BY <1>1, <2>1, <2>2, PassesEnd
<1> QED BY <1>3, <1>4

-----------------------------------------------------------------------------
\* The statements of a pass.

\* A row of the table has its columns.
LEMMA RowType ==
  ASSUME IInv, NEW j \in Job, jobs[j] # NULL
  PROVE  jobs[j] \in JobRow
BY DEF IInv, TypeOK

\* A new stamp is the start of the pass that writes it, no older than a flight.
LEMMA QuarantineInv ==
  ASSUME IInv, NEW p \in Pass, QuarantineStep(p) PROVE IInv'
<1> DEFINE s == pass[p]
           hit == quarantineByOwnerIds(s)
           pc == IF hit = {} THEN "delete" ELSE "recheck"
           r == [s EXCEPT !.pc = pc]
           row(j) == [jobs[j] EXCEPT !.clock = FALSE, !.orphanedFor = s.age]
<1>1. /\ s # NULL /\ s.pc = "quarantine" /\ budget' = budget
      /\ pass' = [pass EXCEPT ![p] = r]
      /\ jobs' = [j \in Job |-> IF j \in hit THEN row(j) ELSE jobs[j]]
      /\ UNCHANGED <<alive, cursor, prov, kept, unborn>>
  BY DEF QuarantineStep, Step, Calm
<1>2. s \in Sweep /\ s.type \in Types /\ s.age \in 0..FlightTicks
  BY <1>1, PassInFlight DEF SweepOK, Sweep
<1>3. Continues(s, r) BY <1>2, MovesOn
<1>4. occ' \in [Job -> {"none", "pending", "claimed"}]
  <2>1. PICK stamped : occ' = [j \in Job |-> IF stamped[j] /\ occ[j] = "pending" THEN "none" ELSE occ[j]]
    <3> DEFINE st == [j \in Job |-> j \in hit \/ (j \in JobsOf(s.missing) /\ Quarantined(j))]
    <3>1. occ' = [j \in Job |-> IF st[j] /\ occ[j] = "pending" THEN "none" ELSE occ[j]]
      BY DEF QuarantineStep
    <3> HIDE DEF st
    <3> QED BY <3>1
  <2> QED BY <2>1 DEF IInv, TypeOK
<1> HIDE DEF r
<1>5. /\ pass' \in [Pass -> Sweep \cup {NULL}] /\ PassesOK' /\ PublishersCurrent'
      /\ \A q \in Pass : pass'[q] # NULL =>
           /\ pass[q] # NULL /\ pass'[q].age = pass[q].age
           /\ pass'[q].missing \subseteq pass[q].missing
  BY <1>1, <1>3, PassContinues
<1>6. \A j \in hit : j \in Job /\ jobs[j] # NULL /\ ~Quarantined(j)
  BY DEF quarantineByOwnerIds, JobsOf
<1> HIDE DEF s, hit
<1>7. ASSUME NEW j \in hit
      PROVE  row(j) \in JobRow /\ row(j).orphanedFor = s.age
  <2>1. jobs[j] \in JobRow BY <1>6, RowType
  <2>2. s.age \in 0..Grace + FlightTicks BY <1>2, KnobAssumption
  <2> QED BY <2>1, <2>2 DEF JobRow
<1> HIDE DEF row
<1>8. \A j \in Job : jobs'[j] = IF j \in hit THEN row(j) ELSE jobs[j] BY <1>1
<1>9. jobs' \in [Job -> JobRow \cup {NULL}] BY <1>1, <1>6, <1>7 DEF IInv, TypeOK
<1>10. TypeOK' BY <1>1, <1>4, <1>5, <1>9 DEF IInv, TypeOK
<1>11. \A j \in Job : jobs[j] # NULL => jobs'[j] # NULL BY <1>7, <1>8, NullAssumption
<1>12. \A j \in Job : Quarantined(j) => Quarantined(j)'
  BY <1>6, <1>8 DEF Quarantined
<1>13. ProvisionOK'
  <2>1. prov # NULL => prov.job \in Job BY DEF IInv, TypeOK, Provision
  <2> QED BY <1>1, <1>11, <1>12, <2>1 DEF IInv, ProvisionOK
<1>14. KeptOK'
  <2>1. kept \subseteq Job BY DEF IInv, TypeOK
  <2> QED BY <1>1, <1>11, <2>1 DEF IInv, KeptOK
<1>15. StampsYoung'
  <2> SUFFICES ASSUME NEW j \in Job, NEW q \in Pass, Exposed(j)', Quarantined(j)', pass'[q] # NULL,
                      OwnerOf[j] \in pass'[q].missing
               PROVE  jobs'[j].orphanedFor <= pass'[q].age + FlightTicks
    BY DEF StampsYoung
  <2>1. Exposed(j) BY <1>1 DEF Exposed
  <2>2. CASE j \in hit
    <3>1. pass'[q].age \in 0..FlightTicks BY <1>5 DEF Sweep
    <3> QED BY <1>2, <1>7, <1>8, <2>2, <3>1, KnobAssumption
  <2>3. CASE j \notin hit
    <3>1. Quarantined(j) BY <1>8, <2>3 DEF Quarantined
    <3> QED BY <1>5, <1>8, <2>1, <2>3, <3>1 DEF IInv, StampsYoung
  <2> QED BY <2>2, <2>3
<1> QED BY <1>5, <1>10, <1>13, <1>14, <1>15 DEF IInv

\* Deleting jobs that nobody relies on.
LEMMA JobsDeleted ==
  ASSUME IInv, NEW gone \in SUBSET Job, DeleteJobs(gone),
         \A j \in gone : ~Locked(j),
         kept' \subseteq kept \ gone,
         prov' = prov \/ (prov # NULL /\ prov' = [prov EXCEPT !.torn = TRUE]),
         prov # NULL /\ prov' = prov /\ prov.job \in gone => prov.torn,
         alive' = alive, UNCHANGED <<unborn, cursor>>, budget' = budget,
         pass' \in [Pass -> Sweep \cup {NULL}], PassesOK', PublishersCurrent',
         \A q \in Pass : pass'[q] # NULL =>
           /\ pass[q] # NULL /\ pass'[q].age = pass[q].age
           /\ pass'[q].missing \subseteq pass[q].missing
  PROVE  IInv'
<1>1. /\ jobs' = [j \in Job |-> IF j \in gone THEN NULL ELSE jobs[j]]
      /\ occ' = [j \in Job |-> IF j \in gone THEN "none" ELSE occ[j]]
  BY DEF DeleteJobs
<1>2. prov' \in Provision \cup {NULL} /\ (prov' = NULL <=> prov = NULL)
  <2>1. prov \in Provision \cup {NULL} BY DEF IInv, TypeOK
  <2>2. prov # NULL => [prov EXCEPT !.torn = TRUE] \in Provision BY <2>1 DEF Provision
  <2>3. prov' = prov \/ (prov # NULL /\ prov' \in Provision) BY <2>2
  <2> QED BY <2>1, <2>3, NullAssumption
<1>3. prov # NULL => /\ prov.job \in Job /\ prov'.job = prov.job /\ prov'.lifted = prov.lifted
                     /\ prov'.found = prov.found /\ prov.torn \in BOOLEAN
                     /\ prov'.torn = FALSE => prov.torn = FALSE /\ prov' = prov
  BY DEF IInv, TypeOK, Provision
<1>4. TypeOK' BY <1>1, <1>2 DEF IInv, TypeOK
<1>5. \A j \in Job : jobs'[j] = IF j \in gone THEN NULL ELSE jobs[j] BY <1>1
<1>6. ProvisionOK'
  <2> SUFFICES ASSUME prov' # NULL
               PROVE  /\ prov'.lifted => Quarantined(prov.job)'
                      /\ ~prov'.torn => /\ alive'[OwnerOf[prov'.job]]
                                        /\ prov'.found \in {"live", "dead"} => jobs'[prov'.job] # NULL
    BY DEF ProvisionOK
  <2>1. ASSUME prov'.lifted PROVE Quarantined(prov.job)'
    <3>1. prov.lifted /\ Quarantined(prov.job) BY <1>2, <1>3, <2>1 DEF IInv, ProvisionOK
    <3>2. prov.job \notin gone BY <1>2, <3>1 DEF Locked
    <3> QED BY <1>2, <1>3, <1>5, <3>1, <3>2 DEF Quarantined
  <2>2. ASSUME ~prov'.torn
        PROVE  /\ alive'[OwnerOf[prov'.job]]
               /\ prov'.found \in {"live", "dead"} => jobs'[prov'.job] # NULL
    <3>1. prov # NULL /\ ~prov.torn /\ prov' = prov /\ prov.job \notin gone
      BY <1>2, <1>3, <2>2
    <3> QED BY <1>3, <1>5, <3>1 DEF IInv, ProvisionOK
  <2> QED BY <2>1, <2>2
<1>7. KeptOK' BY <1>5 DEF IInv, TypeOK, KeptOK
<1>8. StampsYoung'
  <2> SUFFICES ASSUME NEW j \in Job, NEW q \in Pass, Exposed(j)', Quarantined(j)', pass'[q] # NULL,
                      OwnerOf[j] \in pass'[q].missing
               PROVE  jobs'[j].orphanedFor <= pass'[q].age + FlightTicks
    BY DEF StampsYoung
  <2>1. Exposed(j)
    <3>1. CASE j \in kept' BY <3>1 DEF Exposed
    <3>2. CASE prov' # NULL /\ prov'.job = j /\ ~prov'.torn /\ ~prov'.lifted
      BY <1>2, <1>3, <3>2 DEF Exposed
    <3> QED BY <3>1, <3>2 DEF Exposed
  <2>2. jobs'[j] = jobs[j] /\ Quarantined(j) BY <1>5 DEF Quarantined
  <2> QED BY <2>1, <2>2 DEF IInv, StampsYoung
<1> QED BY <1>4, <1>6, <1>7, <1>8 DEF IInv

\* The stale answer that deletes: no job relied on has outlived the grace to it.
LEMMA DeleteExpiredInv ==
  ASSUME IInv, NEW p \in Pass, DeleteExpired(p) PROVE IInv'
<1> DEFINE s == pass[p]
           gone == deleteQuarantinedByOwnerIds(s)
           r == [s EXCEPT !.pc = "revive"]
<1>1. /\ s # NULL /\ s.pc = "delete" /\ budget' = budget
      /\ \A j \in gone : ~Locked(j)
      /\ DeleteJobs(gone) /\ pass' = [pass EXCEPT ![p] = r]
      /\ UNCHANGED <<alive, cursor, prov, kept, unborn>>
  BY DEF DeleteExpired, Step, Calm
<1>2. s \in Sweep /\ s.type \in Types /\ s.age \in 0..FlightTicks
  BY <1>1, PassInFlight DEF SweepOK, Sweep
<1>3. Continues(s, r) BY <1>2, MovesOn
<1> HIDE DEF r
<1>4. /\ pass' \in [Pass -> Sweep \cup {NULL}] /\ PassesOK' /\ PublishersCurrent'
      /\ \A q \in Pass : pass'[q] # NULL =>
           /\ pass[q] # NULL /\ pass'[q].age = pass[q].age
           /\ pass'[q].missing \subseteq pass[q].missing
  BY <1>1, <1>3, PassContinues
<1>5. ASSUME NEW j \in gone PROVE j \in Job /\ ~Exposed(j)
  <2>1. /\ j \in Job /\ jobs[j] # NULL /\ OwnerOf[j] \in s.missing /\ Quarantined(j)
        /\ jobs[j].orphanedFor - s.age >= Grace
    BY DEF deleteQuarantinedByOwnerIds, JobsOf
  <2>2. jobs[j] \in JobRow BY <2>1, RowType
  <2>3. jobs[j].orphanedFor \in Int BY <2>1, <2>2, KnobAssumption DEF JobRow, Quarantined
  <2>4. ~(jobs[j].orphanedFor <= s.age + FlightTicks)
    BY <1>2, <2>1, <2>3, KnobAssumption, GraceAssumption
  <2> QED BY <1>1, <2>1, <2>4 DEF IInv, StampsYoung
<1>6. gone \in SUBSET Job BY <1>5
<1>7. kept' \subseteq kept \ gone BY <1>1, <1>5 DEF Exposed
<1>8. prov # NULL /\ prov.job \in gone => prov.torn
  <2> SUFFICES ASSUME prov # NULL, prov.job \in gone, ~prov.torn PROVE FALSE OBVIOUS
  <2>1. ~prov.lifted BY <1>1 DEF Locked
  <2> QED BY <1>5, <2>1 DEF Exposed
<1> HIDE DEF gone, s
<1> QED BY <1>1, <1>4, <1>6, <1>7, <1>8, JobsDeleted

\* A lift takes the stamp off a row that no provisioning holds.
LEMMA LiftInv ==
  ASSUME IInv, NEW p \in Pass, NEW j \in Job, LiftQuarantine(p, j) PROVE IInv'
<1> DEFINE s == pass[p]
           left == s.lifting \ {j}
           r == IF left = {} THEN endPage(s, s.full)
                ELSE IF s.aborted THEN endPage(s, TRUE)
                ELSE [s EXCEPT !.lifting = left]
<1>1. /\ s # NULL /\ s.pc = "lift" /\ ~Locked(j) /\ (Calm \/ Disturb)
      /\ pass' = [pass EXCEPT ![p] = r]
      /\ UNCHANGED <<alive, occ, cursor, prov, kept, unborn>>
  BY DEF LiftQuarantine, Step
<1>2. s \in Sweep /\ s.type \in Types BY <1>1, PassInFlight DEF SweepOK
<1>3. Continues(s, r)
  <2> HIDE DEF s
  <2>1. Continues(s, endPage(s, s.full)) /\ Continues(s, endPage(s, TRUE)) BY <1>2, EndPage
  <2>2. Continues(s, [s EXCEPT !.lifting = left])
    <3> DEFINE t == [s EXCEPT !.lifting = left]
    <3>1. left \in SUBSET Job BY <1>2 DEF Sweep
    <3>2. /\ t \in Sweep /\ t.missing = s.missing /\ t.age = s.age /\ t.from = s.from
          /\ t.mayPublish = s.mayPublish /\ t.type = s.type /\ t.pc = s.pc
      BY <1>2, <3>1 DEF Sweep
    <3> HIDE DEF t
    <3>3. s.pc = "lift" BY <1>1
    <3>4. Continues(s, t) BY <1>2, <3>2, <3>3 DEF Continues, SweepOK
    <3> QED BY <3>4 DEF t
  <2> QED BY <2>1, <2>2
<1> HIDE DEF r
<1>4. /\ pass' \in [Pass -> Sweep \cup {NULL}] /\ PassesOK' /\ PublishersCurrent'
      /\ \A q \in Pass : pass'[q] # NULL =>
           /\ pass[q] # NULL /\ pass'[q].age = pass[q].age
           /\ pass'[q].missing \subseteq pass[q].missing
  BY <1>1, <1>3, PassContinues
<1>5. budget' \in 0..MaxDisturb BY <1>1, KnobAssumption DEF IInv, TypeOK, Calm, Disturb
<1>6. \/ UNCHANGED jobs
      \/ \E clock \in BOOLEAN :
           jobs[j] # NULL /\ jobs' = [jobs EXCEPT ![j] = liftedRow(j, clock)]
  BY DEF LiftQuarantine, Quarantined
<1>7. ASSUME NEW clock \in BOOLEAN, jobs[j] # NULL
      PROVE  liftedRow(j, clock) \in JobRow /\ liftedRow(j, clock).orphanedFor = NULL
  <2>1. jobs[j] \in JobRow BY <1>7, RowType
  <2> QED BY <2>1 DEF liftedRow, JobRow
<1>8. /\ jobs' \in [Job -> JobRow \cup {NULL}]
      /\ \A k \in Job : k # j => jobs'[k] = jobs[k]
      /\ jobs[j] # NULL => jobs'[j] # NULL
      /\ jobs'[j] = jobs[j] \/ (jobs'[j] # NULL /\ jobs'[j].orphanedFor = NULL)
  BY <1>6, <1>7, NullAssumption DEF IInv, TypeOK
<1>9. TypeOK' BY <1>1, <1>4, <1>5, <1>8 DEF IInv, TypeOK
<1>10. ProvisionOK'
  <2>1. prov # NULL => prov.job \in Job /\ (prov.lifted => prov.job # j)
    BY <1>1 DEF IInv, TypeOK, Provision, Locked
  <2> QED BY <1>1, <1>8, <2>1 DEF IInv, ProvisionOK, Quarantined
<1>11. KeptOK' BY <1>1, <1>8 DEF IInv, TypeOK, KeptOK
<1>12. StampsYoung'
  <2> SUFFICES ASSUME NEW k \in Job, NEW q \in Pass, Exposed(k)', Quarantined(k)', pass'[q] # NULL,
                      OwnerOf[k] \in pass'[q].missing
               PROVE  jobs'[k].orphanedFor <= pass'[q].age + FlightTicks
    BY DEF StampsYoung
  <2>1. Exposed(k) BY <1>1 DEF Exposed
  <2>2. jobs'[k] = jobs[k] /\ Quarantined(k) BY <1>8 DEF Quarantined
  <2> QED BY <1>4, <2>1, <2>2 DEF IInv, StampsYoung
<1> QED BY <1>4, <1>9, <1>10, <1>11, <1>12 DEF IInv

-----------------------------------------------------------------------------
\* Owners and provisioning.

\* A published owner is nobody's promise yet.
LEMMA PublishInv ==
  ASSUME IInv, NEW o \in Owner, Publish(o) PROVE IInv'
<1>1. /\ alive' = [alive EXCEPT ![o] = TRUE] /\ unborn > 0 /\ unborn' = unborn - 1
      /\ UNCHANGED <<jobs, occ, pass, cursor, prov, kept, budget>>
  BY DEF Publish, Calm
<1>2. unborn' \in 0..MaxPublish BY <1>1, KnobAssumption DEF IInv, TypeOK
<1>3. \A q \in Owner : alive[q] => alive'[q] BY <1>1 DEF IInv, TypeOK
<1>4. \A j \in Job : OwnerOf[j] \in Owner BY OwnerAssumption
<1>5. TypeOK' BY <1>1, <1>2 DEF IInv, TypeOK
<1>6. PassesOK' /\ PublishersCurrent' BY <1>1 DEF IInv, PassesOK, PublishersCurrent
<1>7. ProvisionOK'
  <2>1. prov # NULL => prov.job \in Job BY DEF IInv, TypeOK, Provision
  <2> QED BY <1>1, <1>3, <1>4, <2>1 DEF IInv, ProvisionOK, Quarantined
<1>8. KeptOK' BY <1>1, <1>3, <1>4 DEF IInv, TypeOK, KeptOK
<1>9. StampsYoung' BY <1>1 DEF IInv, StampsYoung, Exposed, Quarantined
<1> QED BY <1>5, <1>6, <1>7, <1>8, <1>9 DEF IInv

\* An owner that goes takes its promises with it.
LEMMA UnpublishInv ==
  ASSUME IInv, NEW o \in Owner, Unpublish(o) PROVE IInv'
<1> DEFINE torn == [prov EXCEPT !.torn = TRUE]
<1>1. /\ alive' = [alive EXCEPT ![o] = FALSE] /\ kept' = {j \in kept : OwnerOf[j] # o}
      /\ prov' = IF prov # NULL /\ OwnerOf[prov.job] = o THEN torn ELSE prov
      /\ UNCHANGED <<jobs, occ, pass, cursor, unborn, budget>>
  BY DEF Unpublish, Tear, Calm
<1>2. prov # NULL => /\ prov.job \in Job /\ torn \in Provision /\ torn.job = prov.job
                     /\ torn.lifted = prov.lifted /\ torn.torn
  BY DEF IInv, TypeOK, Provision
<1>3. \A q \in Owner : q # o /\ alive[q] => alive'[q] BY <1>1 DEF IInv, TypeOK
<1>4. \A j \in Job : OwnerOf[j] \in Owner BY OwnerAssumption
<1>5. torn # NULL \/ prov = NULL BY <1>2, NullAssumption
<1> HIDE DEF torn
<1>6. TypeOK' BY <1>1, <1>2 DEF IInv, TypeOK
<1>7. PassesOK' /\ PublishersCurrent' BY <1>1 DEF IInv, PassesOK, PublishersCurrent
<1>8. ProvisionOK' BY <1>1, <1>2, <1>3, <1>4 DEF IInv, ProvisionOK, Quarantined
<1>9. KeptOK' BY <1>1, <1>3, <1>4 DEF IInv, TypeOK, KeptOK
<1>10. \A j \in Job : Exposed(j)' => Exposed(j) BY <1>1, <1>2 DEF Exposed
<1>11. StampsYoung' BY <1>1, <1>10 DEF IInv, StampsYoung, Quarantined
<1> QED BY <1>6, <1>7, <1>8, <1>9, <1>11 DEF IInv

\* Deprovisioning takes the jobs of an owner and the promises about them.
LEMMA DeprovisionInv ==
  ASSUME IInv, NEW o \in Owner, DeprovisionOwner(o) PROVE IInv'
<1> DEFINE gone == JobsOf({o})
<1>1. /\ \A j \in gone : ~Locked(j)
      /\ DeleteJobs(gone) /\ budget' = budget
      /\ kept' = {j \in kept : OwnerOf[j] # o}
      /\ prov' = IF prov # NULL /\ OwnerOf[prov.job] = o THEN [prov EXCEPT !.torn = TRUE] ELSE prov
      /\ UNCHANGED <<alive, pass, cursor, unborn>>
  BY DEF DeprovisionOwner, Tear, Calm
<1>2. gone \in SUBSET Job /\ \A j \in gone : OwnerOf[j] = o BY DEF JobsOf
<1>3. kept' \subseteq kept \ gone BY <1>1, <1>2
<1>4. prov' = prov \/ (prov # NULL /\ prov' = [prov EXCEPT !.torn = TRUE]) BY <1>1
<1>5. prov # NULL /\ prov' = prov /\ prov.job \in gone => prov.torn
  <2> SUFFICES ASSUME prov # NULL, prov' = prov, prov.job \in gone PROVE prov.torn OBVIOUS
  <2>1. prov = [prov EXCEPT !.torn = TRUE] BY <1>1, <1>2
  <2>2. prov \in Provision BY DEF IInv, TypeOK
  <2>3. [prov EXCEPT !.torn = TRUE].torn = TRUE BY <2>2 DEF Provision
  <2> QED BY <2>1, <2>3
<1>6. pass' \in [Pass -> Sweep \cup {NULL}] /\ PassesOK' /\ PublishersCurrent'
  BY <1>1 DEF IInv, TypeOK, PassesOK, PublishersCurrent
<1> HIDE DEF gone
<1> QED BY <1>1, <1>2, <1>3, <1>4, <1>5, <1>6, JobsDeleted

\* A transaction that begins holds the lock of the row it lifts, or meets no quarantine.
LEMMA BeginProvisionInv ==
  ASSUME IInv, NEW j \in Job, BeginProvision(j) PROVE IInv'
<1>1. /\ alive[OwnerOf[j]]
      /\ prov' = [job |-> j, lifted |-> Quarantined(j), torn |-> FALSE, age |-> 0, found |-> NULL]
      /\ UNCHANGED <<alive, jobs, occ, pass, cursor, kept, unborn, budget>>
  BY DEF BeginProvision, liftQuarantineByOwner, Calm
<1>2. Quarantined(j) \in BOOLEAN /\ 0 \in 0..FlightTicks BY KnobAssumption DEF Quarantined
<1>3. prov' \in Provision BY <1>1, <1>2 DEF Provision
<1>4. TypeOK' BY <1>1, <1>3 DEF IInv, TypeOK
<1>5. PassesOK' /\ PublishersCurrent' /\ KeptOK' BY <1>1 DEF IInv, PassesOK, PublishersCurrent, KeptOK
<1>6. \A k \in Job : Quarantined(k)' <=> Quarantined(k) BY <1>1 DEF Quarantined
<1>8. ProvisionOK'
  <2>1. /\ prov'.job = j /\ (prov'.lifted <=> Quarantined(j)) /\ ~prov'.torn /\ prov'.found = NULL
    BY <1>1, <1>2
  <2>2. prov'.found \in {"live", "dead"} => jobs'[j] # NULL
    <3>1. NULL \notin {"live", "dead"} BY NullAssumption
    <3> QED BY <2>1, <3>1
  <2> QED BY <1>1, <1>6, <2>1, <2>2 DEF ProvisionOK, Quarantined
<1>9. StampsYoung'
  <2>1. \A k \in Job : Exposed(k)' /\ Quarantined(k) => k \in kept
    BY <1>1, <1>2 DEF Exposed
  <2> QED BY <1>1, <1>6, <2>1 DEF IInv, StampsYoung, Exposed
<1> QED BY <1>4, <1>5, <1>8, <1>9 DEF IInv

\* What the unlocked read finds is there as long as the owner's promise is whole.
LEMMA FindExistingInv ==
  ASSUME IInv, FindExisting PROVE IInv'
<1> DEFINE found == IF jobs[prov.job] = NULL THEN "none"
                    ELSE IF jobs[prov.job].clock THEN "live" ELSE "dead"
           next == [prov EXCEPT !.found = found]
<1>1. /\ prov # NULL /\ prov' = next
      /\ UNCHANGED <<alive, jobs, occ, pass, cursor, kept, unborn, budget>>
  BY DEF FindExisting, Calm
<1>2. found \in {"none", "live", "dead"} /\ (found \in {"live", "dead"} => jobs[prov.job] # NULL)
  OBVIOUS
<1>3. prov \in Provision BY <1>1 DEF IInv, TypeOK
<1> HIDE DEF found
<1>4. /\ next \in Provision /\ next.job = prov.job /\ next.lifted = prov.lifted
      /\ next.torn = prov.torn /\ next.found = found
  BY <1>2, <1>3 DEF Provision
<1> HIDE DEF next
<1>5. TypeOK' BY <1>1, <1>4 DEF IInv, TypeOK
<1>6. PassesOK' /\ PublishersCurrent' /\ KeptOK' BY <1>1 DEF IInv, PassesOK, PublishersCurrent, KeptOK
<1>7. ProvisionOK' BY <1>1, <1>2, <1>4 DEF IInv, ProvisionOK, Quarantined
<1>8. StampsYoung'
  <2>1. \A j \in Job : Exposed(j)' => Exposed(j) BY <1>1, <1>4 DEF Exposed
  <2> QED BY <1>1, <2>1 DEF IInv, StampsYoung, Quarantined
<1> QED BY <1>5, <1>6, <1>7, <1>8 DEF IInv

\* The row a transaction leaves: there if it was, or if none was found; with the stamp it
\* had unless the transaction lifted it.
LEMMA ProvisionedRow ==
  ASSUME IInv, prov # NULL, NEW redefines \in BOOLEAN
  PROVE  LET row == Provisioned(prov.job, redefines) IN
         /\ row \in JobRow \cup {NULL}
         /\ row = NULL => jobs[prov.job] = NULL /\ prov.found # "none"
         /\ row # NULL /\ row.orphanedFor # NULL =>
              /\ Quarantined(prov.job) /\ ~prov.lifted
              /\ row.orphanedFor = jobs[prov.job].orphanedFor
<1> DEFINE r == jobs[prov.job]
           new == [clock |-> TRUE, orphanedFor |-> NULL, createdFor |-> 0]
           lifted == IF prov.lifted THEN [r EXCEPT !.orphanedFor = NULL] ELSE r
           clocked == [lifted EXCEPT !.clock = TRUE]
<1>1. prov.job \in Job BY DEF IInv, TypeOK, Provision
<1>2. CASE r = NULL
  <2>1. Provisioned(prov.job, redefines) = IF prov.found = "none" THEN new ELSE NULL
    BY <1>2 DEF Provisioned
  <2>2. new \in JobRow /\ new.orphanedFor = NULL BY KnobAssumption DEF JobRow
  <2> HIDE DEF new
  <2> QED BY <1>2, <2>1, <2>2, NullAssumption
<1>3. CASE r # NULL
  <2>1. r \in JobRow BY <1>1, <1>3, RowType
  <2>2. Provisioned(prov.job, redefines) = IF redefines THEN clocked ELSE lifted
    BY <1>3 DEF Provisioned
  <2> HIDE DEF r
  <2>3. /\ lifted \in JobRow
        /\ lifted.orphanedFor # NULL => ~prov.lifted /\ lifted.orphanedFor = r.orphanedFor
    BY <2>1 DEF JobRow
  <2> HIDE DEF lifted
  <2>4. clocked \in JobRow /\ clocked.orphanedFor = lifted.orphanedFor BY <2>3 DEF JobRow
  <2> HIDE DEF clocked
  <2>5. lifted # NULL /\ clocked # NULL BY <2>3, <2>4, NullAssumption
  <2> QED BY <1>3, <2>2, <2>3, <2>4, <2>5 DEF Quarantined, r
<1> QED BY <1>2, <1>3

\* What a transaction commits is relied on from then on.
LEMMA CommitInv ==
  ASSUME IInv, NEW changed \in BOOLEAN, NEW seeded \in BOOLEAN, CommitProvision(changed, seeded)
  PROVE  IInv'
<1> DEFINE j == prov.job
           redefines == prov.found = "dead" \/ (prov.found = "live" /\ changed)
           row == Provisioned(j, redefines)
           fresh == redefines \/ prov.found = "none"
           recorded == IF row = NULL \/ ~fresh \/ occ[j] \notin {"none", "pending"} THEN occ[j]
                       ELSE IF seeded THEN "pending" ELSE "none"
<1>1. /\ prov # NULL /\ prov.found # NULL /\ jobs' = [jobs EXCEPT ![j] = row]
      /\ occ' = [occ EXCEPT ![j] = recorded]
      /\ kept' = IF alive[OwnerOf[j]] /\ ~prov.torn THEN kept \cup {j} ELSE kept
      /\ prov' = NULL
      /\ UNCHANGED <<alive, pass, cursor, unborn, budget>>
  BY DEF CommitProvision, Calm
<1>2. prov \in Provision /\ j \in Job BY <1>1 DEF IInv, TypeOK, Provision
<1>3. redefines \in BOOLEAN OBVIOUS
<1>4. /\ row \in JobRow \cup {NULL} /\ (row = NULL => jobs[j] = NULL /\ prov.found # "none")
      /\ row # NULL /\ row.orphanedFor # NULL =>
           Quarantined(j) /\ ~prov.lifted /\ row.orphanedFor = jobs[j].orphanedFor
  <2> HIDE DEF redefines
  <2> QED BY <1>1, <1>3, ProvisionedRow
<1>5. recorded \in {"none", "pending", "claimed"} BY <1>2 DEF IInv, TypeOK
<1> HIDE DEF row, recorded
<1>6. TypeOK'
  <2>1. jobs' \in [Job -> JobRow \cup {NULL}] BY <1>1, <1>2, <1>4 DEF IInv, TypeOK
  <2>2. occ' \in [Job -> {"none", "pending", "claimed"}] BY <1>1, <1>2, <1>5 DEF IInv, TypeOK
  <2>3. kept' \subseteq Job BY <1>1, <1>2 DEF IInv, TypeOK
  <2> QED BY <1>1, <2>1, <2>2, <2>3 DEF IInv, TypeOK
<1>7. PassesOK' /\ PublishersCurrent' BY <1>1 DEF IInv, PassesOK, PublishersCurrent
<1>8. ProvisionOK' BY <1>1 DEF ProvisionOK
<1>9. \A k \in Job : jobs'[k] = IF k = j THEN row ELSE jobs[k] BY <1>1 DEF IInv, TypeOK
<1>10. ~prov.torn => row # NULL
  <2>1. prov.found \in {"none", "live", "dead"} BY <1>1, <1>2 DEF Provision
  <2> QED BY <1>1, <1>4, <2>1 DEF IInv, ProvisionOK
<1>11. KeptOK'
  <2> SUFFICES ASSUME NEW k \in kept' PROVE jobs'[k] # NULL /\ alive[OwnerOf[k]]
    BY <1>1 DEF KeptOK
  <2>1. k \in kept \/ (k = j /\ alive[OwnerOf[j]] /\ ~prov.torn) BY <1>1
  <2>2. CASE k \in kept
    <3>1. k \in Job /\ jobs[k] # NULL /\ alive[OwnerOf[k]] BY <2>2 DEF IInv, TypeOK, KeptOK
    <3> QED BY <1>4, <1>9, <3>1
  <2>3. CASE k = j /\ alive[OwnerOf[j]] /\ ~prov.torn BY <1>2, <1>9, <1>10, <2>3
  <2> QED BY <2>1, <2>2, <2>3
<1>12. StampsYoung'
  <2> SUFFICES ASSUME NEW k \in Job, NEW q \in Pass, Exposed(k)', Quarantined(k)', pass'[q] # NULL,
                      OwnerOf[k] \in pass'[q].missing
               PROVE  jobs'[k].orphanedFor <= pass'[q].age + FlightTicks
    BY DEF StampsYoung
  <2>1. k \in kept' BY <1>1 DEF Exposed
  <2>2. k \in kept \/ (k = j /\ ~prov.torn) BY <1>1, <2>1
  <2>3. Quarantined(k) /\ jobs'[k].orphanedFor = jobs[k].orphanedFor /\ (k = j => ~prov.lifted)
    BY <1>4, <1>9 DEF Quarantined
  <2>4. Exposed(k) BY <1>1, <2>2, <2>3 DEF Exposed
  <2> QED BY <1>1, <2>3, <2>4 DEF IInv, StampsYoung
<1> QED BY <1>6, <1>7, <1>8, <1>11, <1>12 DEF IInv

\* A transaction that rolls back promises nothing.
LEMMA RollbackInv ==
  ASSUME IInv, RollbackProvision PROVE IInv'
<1>1. prov' = NULL /\ Disturb /\ UNCHANGED <<alive, jobs, occ, pass, cursor, kept, unborn>>
  BY DEF RollbackProvision
<1>2. budget' \in 0..MaxDisturb BY <1>1, KnobAssumption DEF IInv, TypeOK, Disturb
<1>3. TypeOK' BY <1>1, <1>2 DEF IInv, TypeOK
<1>4. PassesOK' /\ PublishersCurrent' /\ KeptOK' /\ ProvisionOK'
  BY <1>1 DEF IInv, PassesOK, PublishersCurrent, KeptOK, ProvisionOK
<1>5. StampsYoung'
  <2>1. \A j \in Job : Exposed(j)' => Exposed(j) BY <1>1 DEF Exposed
  <2> QED BY <1>1, <2>1 DEF IInv, StampsYoung, Quarantined
<1> QED BY <1>3, <1>4, <1>5 DEF IInv

\* Occurrences come and go without touching the jobs.
LEMMA TaskStepInv ==
  ASSUME IInv, NEW j \in Followed, TaskStep(j) PROVE IInv'
<1>1. UNCHANGED <<alive, jobs, pass, cursor, prov, kept, unborn, budget>>
  BY DEF TaskStep, Calm
<1>2. occ' \in [Job -> {"none", "pending", "claimed"}]
  BY KnobAssumption DEF IInv, TypeOK, TaskStep, Materialize, ClaimTask, ReleaseTask, RunTask, SetOcc
<1>3. TypeOK' BY <1>1, <1>2 DEF IInv, TypeOK
<1>4. PassesOK' /\ PublishersCurrent' /\ KeptOK' /\ ProvisionOK' /\ StampsYoung'
  BY <1>1 DEF IInv, PassesOK, PublishersCurrent, KeptOK, ProvisionOK, StampsYoung, Quarantined, Exposed
<1> QED BY <1>3, <1>4 DEF IInv

\* Time ages a stamp and the passes it is judged by alike.
LEMMA TickInv ==
  ASSUME IInv, Tick PROVE IInv'
<1> DEFINE row(j) == [jobs[j] EXCEPT
                        !.createdFor = Older(@, Settle + FlightTicks),
                        !.orphanedFor = IF @ = NULL THEN NULL ELSE Older(@, Grace + FlightTicks)]
           sweep(p) == [pass[p] EXCEPT !.age = @ + 1]
           later == [prov EXCEPT !.age = @ + 1]
<1>1. /\ \A p \in Pass : pass[p] # NULL => pass[p].age < FlightTicks
      /\ prov # NULL => prov.age < FlightTicks
      /\ jobs' = [j \in Job |-> IF jobs[j] = NULL THEN NULL ELSE row(j)]
      /\ pass' = [p \in Pass |-> IF pass[p] = NULL THEN NULL ELSE sweep(p)]
      /\ prov' = IF prov = NULL THEN NULL ELSE later
      /\ UNCHANGED <<alive, occ, cursor, kept, unborn, budget>>
  BY DEF Tick, Calm
<1>2. ASSUME NEW j \in Job, jobs[j] # NULL
      PROVE  /\ row(j) \in JobRow /\ (row(j).orphanedFor = NULL <=> jobs[j].orphanedFor = NULL)
             /\ jobs[j].orphanedFor # NULL => /\ row(j).orphanedFor \in Int /\ jobs[j].orphanedFor \in Int
                                              /\ row(j).orphanedFor <= jobs[j].orphanedFor + 1
  <2>1. jobs[j] \in JobRow BY <1>2, RowType
  <2>2. jobs[j].orphanedFor # NULL => jobs[j].orphanedFor \in 0..Grace + FlightTicks
    BY <2>1 DEF JobRow
  <2>3. jobs[j].createdFor \in 0..Settle + FlightTicks BY <2>1 DEF JobRow
  <2> DEFINE c == Older(jobs[j].createdFor, Settle + FlightTicks)
             o == IF jobs[j].orphanedFor = NULL THEN NULL
                  ELSE Older(jobs[j].orphanedFor, Grace + FlightTicks)
  <2>4. c \in 0..Settle + FlightTicks BY <2>3, KnobAssumption DEF Older
  <2>5. /\ o \in (0..Grace + FlightTicks) \cup {NULL}
        /\ o = NULL <=> jobs[j].orphanedFor = NULL
        /\ jobs[j].orphanedFor # NULL => o \in Int /\ o <= jobs[j].orphanedFor + 1
    BY <2>2, KnobAssumption, OwnerAssumption DEF Older
  <2>6. row(j) = [jobs[j] EXCEPT !.createdFor = c, !.orphanedFor = o]
    BY <2>1 DEF JobRow
  <2> HIDE DEF c, o, row
  <2>7. row(j) \in JobRow /\ row(j).orphanedFor = o BY <2>1, <2>4, <2>5, <2>6 DEF JobRow
  <2> QED BY <2>2, <2>5, <2>7, KnobAssumption
<1>3. ASSUME NEW p \in Pass, pass[p] # NULL
      PROVE  /\ SweepOK(sweep(p)) /\ sweep(p).age = pass[p].age + 1 /\ sweep(p).from = pass[p].from
             /\ sweep(p).mayPublish = pass[p].mayPublish /\ sweep(p).missing = pass[p].missing
             /\ pass[p].age \in Int
  <2> DEFINE s == pass[p]
  <2>1. s \in Sweep /\ SweepOK(s) BY <1>3, PassInFlight
  <2>2. s.age < FlightTicks BY <1>1, <1>3
  <2> HIDE DEF s
  <2>3. s.age \in Int /\ s.age + 1 \in 0..FlightTicks BY <2>1, <2>2, KnobAssumption DEF Sweep
  <2> DEFINE t == [s EXCEPT !.age = @ + 1]
  <2>4. /\ t \in Sweep /\ t.age = s.age + 1 /\ t.from = s.from /\ t.mayPublish = s.mayPublish
        /\ t.missing = s.missing /\ t.pc = s.pc /\ t.type = s.type /\ t.pages = s.pages
    BY <2>1, <2>3 DEF Sweep
  <2>5. sweep(p) = t BY DEF s
  <2> HIDE DEF t, sweep
  <2> QED BY <2>1, <2>3, <2>4, <2>5 DEF SweepOK, s
<1>4. prov # NULL => /\ later \in Provision /\ later.job = prov.job /\ later.lifted = prov.lifted
                     /\ later.torn = prov.torn /\ later.found = prov.found /\ prov.job \in Job
  <2> SUFFICES ASSUME prov # NULL
               PROVE  /\ later \in Provision /\ later.job = prov.job /\ later.lifted = prov.lifted
                      /\ later.torn = prov.torn /\ later.found = prov.found /\ prov.job \in Job
    OBVIOUS
  <2>1. prov \in Provision BY DEF IInv, TypeOK
  <2>2. prov.age + 1 \in 0..FlightTicks
    <3>1. prov.age \in 0..FlightTicks BY <2>1 DEF Provision
    <3>2. prov.age < FlightTicks BY <1>1
    <3> QED BY <3>1, <3>2, KnobAssumption
  <2> QED BY <2>1, <2>2 DEF Provision
<1> HIDE DEF row, sweep, later
<1>5. \A j \in Job : jobs'[j] = IF jobs[j] = NULL THEN NULL ELSE row(j) BY <1>1
<1>6. \A p \in Pass : pass'[p] = IF pass[p] = NULL THEN NULL ELSE sweep(p) BY <1>1
<1>7. \A p \in Pass : pass'[p] # NULL => pass[p] # NULL /\ pass'[p] = sweep(p) BY <1>6
<1>8. \A j \in Job : /\ jobs[j] # NULL <=> jobs'[j] # NULL
                     /\ Quarantined(j)' <=> Quarantined(j)
  BY <1>2, <1>5, NullAssumption DEF Quarantined
<1>9. prov # NULL <=> prov' # NULL BY <1>1, <1>4, NullAssumption
<1>10. TypeOK'
  <2>1. jobs' \in [Job -> JobRow \cup {NULL}] BY <1>1, <1>2
  <2>2. pass' \in [Pass -> Sweep \cup {NULL}] BY <1>1, <1>3 DEF SweepOK
  <2>3. prov' \in Provision \cup {NULL} BY <1>1, <1>4
  <2> QED BY <1>1, <2>1, <2>2, <2>3 DEF IInv, TypeOK
<1>11. PassesOK' BY <1>3, <1>7 DEF PassesOK
<1>12. PublishersCurrent' BY <1>1, <1>3, <1>7 DEF IInv, PublishersCurrent
<1>13. ProvisionOK' BY <1>1, <1>4, <1>8, <1>9 DEF IInv, ProvisionOK
<1>14. KeptOK' BY <1>1, <1>8 DEF IInv, TypeOK, KeptOK
<1>15. StampsYoung'
  <2> SUFFICES ASSUME NEW j \in Job, NEW q \in Pass, Exposed(j)', Quarantined(j)', pass'[q] # NULL,
                      OwnerOf[j] \in pass'[q].missing
               PROVE  jobs'[j].orphanedFor <= pass'[q].age + FlightTicks
    BY DEF StampsYoung
  <2>1. Exposed(j) BY <1>1, <1>4, <1>9 DEF Exposed
  <2>2. Quarantined(j) /\ jobs[j] # NULL /\ jobs[j].orphanedFor # NULL BY <1>8 DEF Quarantined
  <2>3. pass[q] # NULL /\ pass'[q].age = pass[q].age + 1 /\ OwnerOf[j] \in pass[q].missing
        /\ pass[q].age \in Int
    BY <1>3, <1>7
  <2>4. jobs[j].orphanedFor <= pass[q].age + FlightTicks BY <2>1, <2>2, <2>3 DEF IInv, StampsYoung
  <2>5. /\ jobs'[j].orphanedFor \in Int /\ jobs[j].orphanedFor \in Int
        /\ jobs'[j].orphanedFor <= jobs[j].orphanedFor + 1
    BY <1>2, <1>5, <2>2
  <2> QED BY <2>3, <2>4, <2>5, KnobAssumption
<1> QED BY <1>10, <1>11, <1>12, <1>13, <1>14, <1>15 DEF IInv

-----------------------------------------------------------------------------
\* The theorems.

\* Nothing exists yet in the initial state.
LEMMA InitInv == Init => IInv
<1> SUFFICES ASSUME Init PROVE IInv OBVIOUS
<1>1. TypeOK BY KnobAssumption DEF Init, TypeOK
<1> QED BY <1>1 DEF Init, IInv, PassesOK, PublishersCurrent, ProvisionOK, KeptOK, StampsYoung

\* Every step keeps the invariant.
LEMMA InvStep == IInv /\ [Next]_vars => IInv'
<1> SUFFICES ASSUME IInv, [Next]_vars PROVE IInv' OBVIOUS
<1>1. CASE UNCHANGED vars
  BY <1>1 DEF vars, IInv, TypeOK, PassesOK, PublishersCurrent, ProvisionOK, KeptOK, StampsYoung,
              Exposed, Quarantined
<1>2. CASE \E p \in Pass : PassStep(p) \/ AbortPass(p) \/ PassError(p)
  <2>1. PICK p \in Pass : PassStep(p) \/ AbortPass(p) \/ PassError(p) BY <1>2
  <2>2. CASE AbortPass(p) BY <2>2, AbortPassInv
  <2>3. CASE PassError(p) BY <2>3, PassErrorInv
  <2>4. CASE PassStep(p)
    <3>1. \/ StartPass(p) \/ AskPage(p) \/ QuarantineStep(p) \/ Recheck(p) \/ DeleteExpired(p)
          \/ FindQuarantined(p) \/ (\E j \in Job : LiftQuarantine(p, j)) \/ StopLifting(p)
          \/ FinishPass(p)
      BY <2>4 DEF PassStep
    <3> QED BY <3>1, StartPassInv, AskPageInv, QuarantineInv, RecheckInv, DeleteExpiredInv,
               RevivalReads, LiftInv, FinishPassInv
  <2> QED BY <2>1, <2>2, <2>3, <2>4
<1>3. CASE \E m \in Main : Crash(m) BY <1>3, CrashInv
<1>4. CASE \E o \in Owner : Publish(o) \/ Unpublish(o) \/ DeprovisionOwner(o)
  BY <1>4, PublishInv, UnpublishInv, DeprovisionInv
<1>5. CASE \E j \in Job : BeginProvision(j) BY <1>5, BeginProvisionInv
<1>6. CASE \E j \in Followed : TaskStep(j) BY <1>6, TaskStepInv
<1>7. CASE FindExisting \/ RollbackProvision BY <1>7, FindExistingInv, RollbackInv
<1>8. CASE \E changed, seeded \in BOOLEAN : CommitProvision(changed, seeded) BY <1>8, CommitInv
<1>9. CASE Tick BY <1>9, TickInv
<1> QED BY <1>1, <1>2, <1>3, <1>4, <1>5, <1>6, <1>7, <1>8, <1>9 DEF Next

\* The inductive invariant holds of every reachable state, for any owners and jobs and any
\* number of mains and of passes in flight.
THEOREM SweepInvariant == Spec => []IInv
BY InitInv, InvStep, PTL DEF Spec

\* Every variable keeps its type: pages, cursors and ages stay within their bounds.
THEOREM TypeCorrect == Spec => []TypeOK
<1>1. IInv => TypeOK BY DEF IInv
<1> QED BY <1>1, SweepInvariant, PTL

\* A job provisioned for an owner that has existed ever since is never deleted by a sweep
\* (deleteQuarantinedByOwnerIds), if the grace outlasts the oldest pass or transaction.
THEOREM PromiseKept == Spec => []ProvisionedNeverDeleted
<1>1. IInv => ProvisionedNeverDeleted BY DEF IInv, KeptOK, ProvisionedNeverDeleted
<1> QED BY <1>1, SweepInvariant, PTL

\* A cursor moves only with a pass that started from it or a crash (runReconcile's
\* published): an overtaken pass never publishes.
THEOREM CursorContinuity == Spec => CursorMovesFromItself
<1> DEFINE Moves(m) == \/ \E p \in Pass : /\ p[1] = m /\ pass[p] # NULL /\ pass'[p] = NULL
                                          /\ pass[p].from = cursor[m] /\ pass[p].resume = cursor'[m]
                       \/ budget' < budget
           A == \A m \in Main : cursor'[m] # cursor[m] => Moves(m)
<1>1. IInv /\ [Next]_vars => [A]_vars
  <2> SUFFICES ASSUME IInv, Next, NEW m \in Main, cursor'[m] # cursor[m] PROVE Moves(m) OBVIOUS
  <2>1. cursor' # cursor OBVIOUS
  <2>2. (\E p \in Pass : FinishPass(p)) \/ (\E n \in Main : Crash(n))
    BY <2>1 DEF Next, PassStep, StartPass, AskPage, QuarantineStep, Recheck, DeleteExpired,
       FindQuarantined, LiftQuarantine, StopLifting, AbortPass, PassError, Publish, Unpublish,
       DeprovisionOwner, BeginProvision, TaskStep, FindExisting, RollbackProvision, CommitProvision,
       Tick
  <2>3. CASE \E p \in Pass : FinishPass(p)
    <3>1. PICK p \in Pass : FinishPass(p) BY <2>3
    <3>2. /\ pass[p] # NULL /\ pass[p].mayPublish /\ cursor' = [cursor EXCEPT ![p[1]] = pass[p].resume]
          /\ pass' = [q \in Pass |-> IF q = p THEN NULL ELSE overtaken(p, q)]
      BY <2>1, <3>1 DEF FinishPass
    <3>3. p[1] \in Main /\ p[1] = m /\ cursor'[m] = pass[p].resume
      BY <3>2 DEF IInv, TypeOK, Pass
    <3>4. pass[p].from = cursor[m] BY <3>2, <3>3 DEF IInv, PublishersCurrent
    <3>5. pass'[p] = NULL BY <3>2
    <3> QED BY <3>2, <3>3, <3>4, <3>5
  <2>4. CASE \E n \in Main : Crash(n)
    <3>1. budget' = budget - 1 BY <2>4 DEF Crash, Disturb
    <3> QED BY <3>1, KnobAssumption DEF IInv, TypeOK
  <2> QED BY <2>2, <2>3, <2>4
<1>2. CursorMovesFromItself <=> [][A]_vars BY DEF CursorMovesFromItself
<1> QED BY <1>1, <1>2, SweepInvariant, PTL DEF Spec
=============================================================================
