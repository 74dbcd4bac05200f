----------------------------- MODULE TaskBroker -----------------------------
(***************************************************************************)
(* The task broker between the requester (in the same process) and task    *)
(* runners behind WebSockets.  A handler and the continuations it resolves *)
(* run to the end before the next event; frames, timers, disconnects and   *)
(* the disconnect analysis are the events.  The requester answers a ready  *)
(* task at once, so readiness, settings and the armed task timer are one   *)
(* step.  A task is named after the offer it consumes.                     *)
(***************************************************************************)
EXTENDS Integers, Sequences, FiniteSets, SequencesExt, FiniteSetsExt, Filtering

CONSTANTS
  Runner, Request,
  TypeOf,         \* the task type of each request and of each runner
  LauncherKinds,  \* may a process be a launcher, which defers tasks to one it starts
  MaxConcurrency, \* tasks a runner takes at once
  MaxStrikes,     \* acceptance timeouts in a row that make a runner unresponsive
  Mode,           \* internal or external
  MaxOffers,      \* bound: offers a runner id ever makes
  MaxSessions,    \* bound: processes that ever connect under one runner id
  NoTask

ASSUME BrokerAssumption ==
  /\ MaxConcurrency \in Nat \ {0} /\ MaxStrikes \in Nat \ {0}
  /\ MaxOffers \in Nat /\ MaxSessions \in Nat
  /\ Mode \in {"internal", "external"} /\ LauncherKinds \subseteq BOOLEAN

VARIABLES
  requester,  \* what the requester waits for, per request
  pool,       \* pending offers and requests, requests being accepted, acceptances
  tasks,      \* tracked tasks, each with its timer: task -> request
  strikes, silent,  \* consecutiveAcceptTimeouts, silentRunnersSince
  known,      \* knownRunners
  conn,       \* runnerConnections: none, open, dead (in the map, no longer OPEN)
  removals,   \* removeConnection calls waiting for the disconnect analysis
  proc,       \* the process behind each runner id
  toRunner, toBroker,  \* frames in flight
  session, offered, drain

vars == <<requester, pool, tasks, strikes, silent, known, conn, removals, proc,
          toRunner, toBroker, session, offered, drain>>
signs == <<strikes, silent>>
links == <<known, conn, removals, session>>

Task == Runner \X (1..MaxOffers)
runnerOf(t) == t[1]
NoProc == [alive |-> FALSE, launcher |-> FALSE, offering |-> FALSE, draining |-> FALSE,
           openOffers |-> {}, running |-> [t \in {} |-> ""]]
NewProc(launcher) == [NoProc EXCEPT !.alive = TRUE, !.launcher = launcher]

Init ==
  /\ requester = [q \in Request |-> [state |-> "none", task |-> NoTask]]
  /\ pool = [offers |-> <<>>, requests |-> <<>>, busy |-> {}, accepts |-> <<>>]
  /\ tasks = [t \in {} |-> NoTask]
  /\ strikes = [r \in Runner |-> 0] /\ silent = {}
  /\ known = {} /\ conn = [r \in Runner |-> "none"] /\ removals = {}
  /\ proc = [r \in Runner |-> NoProc]
  /\ toRunner = [r \in Runner |-> <<>>] /\ toBroker = [r \in Runner |-> <<>>]
  /\ session = [r \in Runner |-> 0] /\ offered = [r \in Runner |-> 0]
  /\ drain = "no"

-----------------------------------------------------------------------------
(* Helpers of the broker. *)

isRunnerReachable(r) == r \in known /\ conn[r] = "open"
ReachableRunners == {r \in Runner : isRunnerReachable(r)}

\* A frame reaches the runner only through an open socket.
messageRunner(frames, r, frame) ==
  IF isRunnerReachable(r) THEN [frames EXCEPT ![r] = Append(@, frame)] ELSE frames

getInFlightTaskIds(r) == {t \in DOMAIN tasks : runnerOf(t) = r}
untrack(f, S) == [x \in DOMAIN f \ S |-> f[x]]
put(f, x, value) == [y \in DOMAIN f \cup {x} |-> IF y = x THEN value ELSE f[y]]

\* The requests of the tasks in S hear of their end.
answer(S, state) ==
  [q \in Request |-> IF \E t \in S : t \in DOMAIN tasks /\ tasks[t] = q
                     THEN [requester[q] EXCEPT !.state = state] ELSE requester[q]]

discardOffersFrom(p, r) ==
  [p EXCEPT !.offers = Without(@, {t \in Range(p.offers) : runnerOf(t) = r})]

\* Mutant: a request being accepted is matched again.
BugMatchOne(s, q) ==
  LET fits == {i \in DOMAIN s.pool.offers : TypeOf[runnerOf(s.pool.offers[i])] = TypeOf[q]}
      t == s.pool.offers[Min(fits)]
  IN IF fits = {} THEN s
     ELSE [pool |-> [s.pool EXCEPT !.offers = RemoveAt(@, Min(fits)), !.busy = @ \cup {q},
                                   !.accepts = Append(@, [task |-> t, request |-> q])],
           frames |-> [s.frames EXCEPT ![runnerOf(t)] = Append(@, <<"offeraccept", t>>)]]

\* One request takes the first offer of its type.
matchOne(s, q) ==
  LET fits == {i \in DOMAIN s.pool.offers : TypeOf[runnerOf(s.pool.offers[i])] = TypeOf[q]}
      t == s.pool.offers[Min(fits)]
  IN IF q \in s.pool.busy \/ fits = {} THEN s
     ELSE [pool |-> [s.pool EXCEPT !.offers = RemoveAt(@, Min(fits)), !.busy = @ \cup {q},
                                   !.accepts = Append(@, [task |-> t, request |-> q])],
           frames |-> [s.frames EXCEPT ![runnerOf(t)] = Append(@, <<"offeraccept", t>>)]]

\* Expired offers and those of unreachable runners go first, then requests are matched
\* in order.
settleTasks(p, frames, lapsed, reachable) ==
  LET gone == {t \in Range(p.offers) : t \in lapsed \/ runnerOf(t) \notin reachable}
      start == [pool |-> [p EXCEPT !.offers = Without(@, gone)], frames |-> frames]
      after[i \in 0..Len(p.requests)] ==
        IF i = 0 THEN start ELSE matchOne(after[i-1], p.requests[i])
  IN after[Len(p.requests)]

\* Some of the offers have passed their validity by now.
Settle(p, frames, reachable) ==
  \E lapsed \in SUBSET Range(p.offers) :
    LET s == settleTasks(p, frames, lapsed, reachable)
    IN pool' = s.pool /\ toRunner' = s.frames

AcceptsOf(t) == {i \in DOMAIN pool.accepts : pool.accepts[i].task = t}
dropAccept(p, t) == [p EXCEPT !.accepts = Without(@, {a \in Range(p.accepts) : a.task = t})]
release(p, q) == [p EXCEPT !.busy = @ \ {q}]
removeRequest(p, q) == [p EXCEPT !.requests = Without(@, {q}), !.busy = @ \ {q}]
pending(q) == \E i \in DOMAIN pool.requests : pool.requests[i] = q

\* removeConnection up to the disconnect analysis, for the runners of S: no more routing,
\* and the process behind the socket ends.
removing(S) ==
  {[runner |-> r, session |-> session[r], tasks |-> getInFlightTaskIds(r), rejoin |-> FALSE]
     : r \in S}
cut(f, S, empty) == [r \in Runner |-> IF r \in S THEN empty ELSE f[r]]
removeConnections(S) ==
  /\ removals' = removals \cup removing(S)
  /\ conn' = cut(conn, S, "none")
  /\ proc' = cut(proc, S, NoProc)
  /\ toBroker' = cut(toBroker, S, <<>>)

-----------------------------------------------------------------------------
(* The requester's side. *)

TaskRequested(q) ==
  /\ requester[q].state = "none"
  /\ IF drain # "no"
     THEN /\ requester' = [requester EXCEPT ![q].state = "expired"]
          /\ UNCHANGED <<pool, toRunner>>
     ELSE /\ requester' = [requester EXCEPT ![q].state = "requested"]
          /\ Settle([pool EXCEPT !.requests = Append(@, q)], toRunner, ReachableRunners)
  /\ UNCHANGED <<tasks, signs, links, proc, toBroker, offered, drain>>

\* The execution is cancelled: the requester forgets its task and the broker tells the runner.
CancelTask(q) ==
  /\ requester[q].state = "running"
  /\ requester' = [requester EXCEPT ![q].state = "cancelled"]
  /\ tasks' = untrack(tasks, {requester[q].task})
  /\ toRunner' = IF requester[q].task \in DOMAIN tasks
                 THEN messageRunner(toRunner, runnerOf(requester[q].task),
                                    <<"cancel", requester[q].task>>)
                 ELSE toRunner
  /\ UNCHANGED <<pool, signs, links, proc, toBroker, offered, drain>>

\* A data, node types or rpc answer for a runner that is gone fails the task.
RespondToRunner(t) ==
  /\ t \in DOMAIN tasks /\ ~isRunnerReachable(runnerOf(t))
  /\ requester' = answer({t}, "error")
  /\ tasks' = untrack(tasks, {t})
  /\ UNCHANGED <<pool, signs, links, proc, toRunner, toBroker, offered, drain>>

-----------------------------------------------------------------------------
(* Timers of the broker. *)

isSilent(p, r) == /\ \A i \in DOMAIN p.offers : runnerOf(p.offers[i]) # r
                  /\ getInFlightTaskIds(r) = {}
                  /\ \A i \in DOMAIN p.accepts : runnerOf(p.accepts[i].task) # r

\* Reports are heard until the server begins to stop.
heard(S) == IF drain = "no" THEN S ELSE {}

\* Mutant: a request whose acceptance is in progress is left to it.
BugRequestTimeout(q) ==
  /\ pending(q)
  /\ pool' = IF q \in pool.busy THEN pool ELSE removeRequest(pool, q)
  /\ requester' = IF q \in pool.busy THEN requester
                  ELSE [requester EXCEPT ![q].state = "expired"]
  /\ UNCHANGED <<tasks, signs, links, proc, toRunner, toBroker, offered, drain>>

\* handleRequestTimeout and flagSilentRunners: a runner silent at two expiries far enough
\* apart is reported, and its connection removed.
RequestTimeout(q) ==
  /\ pending(q)
  /\ \E lapsed \in SUBSET Range(pool.offers), apart \in SUBSET silent :
       LET p == [pool EXCEPT !.offers = Without(@, lapsed)]
           asked == {r \in ReachableRunners : TypeOf[r] = TypeOf[q]}
           mute == {r \in asked : isSilent(p, r)}
           reported == mute \cap apart
       IN /\ silent' = ((silent \ asked) \cup mute) \ reported
          /\ removeConnections(heard(reported))
          /\ toRunner' = cut(toRunner, heard(reported), <<>>)
          /\ pool' = removeRequest(p, q)
  /\ requester' = [requester EXCEPT ![q].state = "expired"]
  /\ UNCHANGED <<tasks, strikes, known, session, offered, drain>>

\* Mutant: the runner is not told that its task is off.
BugAcceptTimeout(a) ==
  /\ a \in Range(pool.accepts)
  /\ Settle(discardOffersFrom(release(dropAccept(pool, a.task), a.request), runnerOf(a.task)),
            toRunner, ReachableRunners)
  /\ UNCHANGED <<requester, tasks, signs, links, proc, toBroker, offered, drain>>

\* The runner did not acknowledge in time: the task is called off, the runner's other
\* offers go, and enough timeouts in a row, each in a window of its own, report it.
AcceptTimeout(a) ==
  /\ a \in Range(pool.accepts)
  /\ LET r == runnerOf(a.task)
         frames == messageRunner(toRunner, r, <<"cancel", a.task>>)
         p == discardOffersFrom(release(dropAccept(pool, a.task), a.request), r)
     IN \E apart \in BOOLEAN :
          LET counts == apart \/ strikes[r] = 0
              failures == IF counts THEN Min({strikes[r] + 1, MaxStrikes}) ELSE strikes[r]
              reported == counts /\ failures = MaxStrikes /\ getInFlightTaskIds(r) = {}
              removed == IF reported /\ conn[r] # "none" THEN heard({r}) ELSE {}
          IN /\ strikes' = [strikes EXCEPT ![r] = IF reported THEN 0 ELSE failures]
             /\ removeConnections(removed)
             /\ Settle(p, cut(frames, removed, <<>>), ReachableRunners \ removed)
  /\ UNCHANGED <<requester, tasks, silent, known, session, offered, drain>>

\* The task's timer: the runner is told (external) or restarted (internal, see
\* ProcessDies), and the requester gets an error.
TaskTimeout(t) ==
  /\ t \in DOMAIN tasks
  /\ toRunner' = IF Mode = "external" THEN messageRunner(toRunner, runnerOf(t), <<"cancel", t>>)
                 ELSE toRunner
  /\ requester' = answer({t}, "error")
  /\ tasks' = untrack(tasks, {t})
  /\ UNCHANGED <<pool, signs, links, proc, toBroker, offered, drain>>

-----------------------------------------------------------------------------
(* Frames from a runner's current connection. *)

Receives(r, kind) == /\ conn[r] # "none" /\ toBroker[r] # <<>> /\ Head(toBroker[r])[1] = kind
                     /\ toBroker' = [toBroker EXCEPT ![r] = Tail(@)]
                     /\ silent' = silent \ {r}
Subject(r) == Head(toBroker[r])[2]
acceptFor(t) == CHOOSE a \in Range(pool.accepts) : a.task = t
forgive(r) == strikes' = [strikes EXCEPT ![r] = 0]

TaskOffered(r) ==
  /\ Receives(r, "offer")
  /\ Settle([pool EXCEPT !.offers = Append(@, Subject(r))], toRunner, ReachableRunners)
  /\ UNCHANGED <<requester, tasks, strikes, links, proc, offered, drain>>

\* Mutant: the acceptance counts although its request has expired.
BugRunnerAccepts(r) ==
  /\ Receives(r, "accepted")
  /\ LET t == Subject(r) IN
     IF AcceptsOf(t) = {} THEN UNCHANGED <<requester, pool, tasks, strikes, toRunner>>
     ELSE LET q == acceptFor(t).request IN
          /\ forgive(r)
          /\ pool' = removeRequest(dropAccept(pool, t), q)
          /\ tasks' = put(tasks, t, q)
          /\ requester' = IF pending(q) THEN [requester EXCEPT ![q] = [state |-> "running", task |-> t]]
                          ELSE requester
          /\ toRunner' = messageRunner(toRunner, r, <<"settings", t>>)
  /\ UNCHANGED <<links, proc, offered, drain>>

\* handleRunnerAccept and the rest of acceptOffer: the request is still pending and the
\* task starts, or it has expired and the task is cancelled; a runner that has become
\* unreachable fails the task as its settings are sent.
RunnerAccepts(r) ==
  /\ Receives(r, "accepted")
  /\ LET t == Subject(r) IN
     IF AcceptsOf(t) = {} THEN UNCHANGED <<requester, pool, tasks, strikes, toRunner>>
     ELSE LET q == acceptFor(t).request
              starts == pending(q) /\ isRunnerReachable(r)
          IN /\ forgive(r)
             /\ pool' = removeRequest(dropAccept(pool, t), q)
             /\ tasks' = IF starts THEN put(tasks, t, q) ELSE tasks
             /\ requester' = IF ~pending(q) THEN requester
                             ELSE [requester EXCEPT ![q] =
                                     [state |-> IF starts THEN "running" ELSE "error", task |-> t]]
             /\ toRunner' = messageRunner(toRunner, r,
                              <<IF pending(q) THEN "settings" ELSE "cancel", t>>)
  /\ UNCHANGED <<links, proc, offered, drain>>

RunnerRejects(r) ==
  /\ Receives(r, "rejected")
  /\ LET t == Subject(r) IN
     IF AcceptsOf(t) = {} THEN UNCHANGED <<pool, strikes, toRunner>>
     ELSE /\ forgive(r)
          /\ Settle(release(dropAccept(pool, t), acceptFor(t).request), toRunner, ReachableRunners)
  /\ UNCHANGED <<requester, tasks, links, proc, offered, drain>>

\* A deferred request waits for the process that is being started.
RunnerDefers(r) ==
  /\ Receives(r, "deferred")
  /\ LET t == Subject(r) IN
     IF AcceptsOf(t) = {} THEN UNCHANGED <<pool, strikes>>
     ELSE forgive(r) /\ pool' = release(dropAccept(pool, t), acceptFor(t).request)
  /\ UNCHANGED <<requester, tasks, links, proc, toRunner, offered, drain>>

TaskEnds(r, kind) ==
  /\ Receives(r, kind)
  /\ LET t == Subject(r) IN
     /\ IF t \in DOMAIN tasks THEN forgive(r) ELSE UNCHANGED strikes
     /\ requester' = answer({t}, kind)
     /\ tasks' = untrack(tasks, {t})
  /\ UNCHANGED <<pool, links, proc, toRunner, offered, drain>>

-----------------------------------------------------------------------------
(* Connections. *)

rejoining(r) == \E m \in removals : m.runner = r /\ m.rejoin
registers(r, frames) == [frames EXCEPT ![r] = <<<<"registered", NoTask>>>>]

\* A new process introduces itself; a connection its id still has is removed first.
\* Bound: one process at a time waits to take an id over.
Connect(r) ==
  /\ drain # "stopped" /\ session[r] < MaxSessions /\ ~proc[r].alive /\ ~rejoining(r)
  /\ session' = [session EXCEPT ![r] = @ + 1]
  /\ \E launcher \in LauncherKinds : proc' = [proc EXCEPT ![r] = NewProc(launcher)]
  /\ toBroker' = [toBroker EXCEPT ![r] = <<>>]
  /\ IF conn[r] = "none"
     THEN /\ conn' = [conn EXCEPT ![r] = "open"]
          /\ known' = known \cup {r}
          /\ toRunner' = registers(r, toRunner)
          /\ UNCHANGED removals
     ELSE /\ conn' = [conn EXCEPT ![r] = "none"]
          /\ removals' = removals \cup {[m EXCEPT !.rejoin = TRUE] : m \in removing({r})}
          /\ toRunner' = [toRunner EXCEPT ![r] = <<>>]
          /\ UNCHANGED known
  /\ UNCHANGED <<requester, pool, tasks, signs, offered, drain>>

\* The close event of a dead socket, or a heartbeat that was not answered.
RemoveConnection(r) ==
  /\ conn[r] = "dead" \/ (conn[r] = "open" /\ drain = "no")
  /\ removeConnections({r})
  /\ toRunner' = [toRunner EXCEPT ![r] = <<>>]
  /\ UNCHANGED <<requester, pool, tasks, signs, known, session, offered, drain>>

\* deregisterRunner: the acceptances of r are rejected one by one, each settling anew.
deregister(r, lapsed) ==
  LET others == {a \in Range(pool.accepts) : runnerOf(a.task) # r}
      mine == Without(pool.accepts, others)
      start == [pool |-> [discardOffersFrom(pool, r) EXCEPT !.accepts = Without(@, Range(mine))],
                frames |-> toRunner]
      after[i \in 0..Len(mine)] ==
        IF i = 0 THEN start
        ELSE settleTasks(release(after[i-1].pool, mine[i].request), after[i-1].frames, lapsed,
                         ReachableRunners \ {r})
  IN after[Len(mine)]

\* The analysis is in: a runner that has reconnected only loses the tasks of its old
\* connection, another one is deregistered, and a process that waited for this joins.
FinishRemoval(m) ==
  LET r == m.runner
      failed == IF conn[r] # "none" THEN m.tasks ELSE getInFlightTaskIds(r)
  IN
  /\ m \in removals
  /\ removals' = removals \ {m}
  /\ requester' = answer(failed, "error")
  /\ tasks' = untrack(tasks, failed)
  /\ \E lapsed \in SUBSET Range(pool.offers) :
       LET s == IF conn[r] # "none" THEN [pool |-> pool, frames |-> toRunner]
                ELSE deregister(r, lapsed)
       IN pool' = s.pool /\ toRunner' = IF m.rejoin THEN registers(r, s.frames) ELSE s.frames
  /\ IF conn[r] # "none" THEN UNCHANGED <<known, conn, signs>>
     ELSE /\ known' = IF m.rejoin THEN known \cup {r} ELSE known \ {r}
          /\ conn' = [conn EXCEPT ![r] = IF ~m.rejoin THEN "none"
                                         ELSE IF proc[r].alive THEN "open" ELSE "dead"]
          /\ strikes' = [strikes EXCEPT ![r] = 0] /\ silent' = silent \ {r}
  /\ UNCHANGED <<proc, toBroker, session, offered, drain>>

\* drainActiveTasks: no new requests, no new offers.
StartDraining ==
  /\ drain = "no" /\ drain' = "draining"
  /\ toRunner' = [r \in Runner |-> IF conn[r] = "open" THEN Append(toRunner[r], <<"drain", NoTask>>)
                                   ELSE toRunner[r]]
  /\ UNCHANGED <<requester, pool, tasks, signs, links, proc, toBroker, offered>>

\* The tasks are done or the drain has taken too long: every runner is disconnected.
StopRunners ==
  /\ drain = "draining" /\ drain' = "stopped"
  /\ LET S == {r \in Runner : conn[r] # "none"} IN
     removeConnections(S) /\ toRunner' = cut(toRunner, S, <<>>)
  /\ UNCHANGED <<requester, pool, tasks, signs, known, session, offered>>

-----------------------------------------------------------------------------
(* The runner process. *)

sendFrames(r, frames) ==
  toBroker' = IF conn[r] = "open" THEN [toBroker EXCEPT ![r] = @ \o frames] ELSE toBroker

\* sendOffers from local state p after the frames already sent: stale offers are
\* forgotten and every free slot is offered.
sendOffers(r, p, frames) ==
  \E stale \in SUBSET p.openOffers :
    LET open == p.openOffers \ stale
        slots == MaxConcurrency - Cardinality(open) - Cardinality(DOMAIN p.running)
        n == IF p.offering THEN Min({Max({slots, 0}), MaxOffers - offered[r]}) ELSE 0
        new == [i \in 1..n |-> <<r, offered[r] + i>>]
    IN /\ proc' = [proc EXCEPT ![r] = [p EXCEPT !.openOffers = open \cup Range(new)]]
       /\ offered' = [offered EXCEPT ![r] = @ + n]
       /\ sendFrames(r, frames \o [i \in 1..n |-> <<"offer", new[i]>>])

OfferTick(r) ==
  /\ proc[r].alive /\ proc[r].offering
  /\ sendOffers(r, proc[r], <<>>)
  /\ UNCHANGED <<requester, pool, tasks, signs, links, toRunner, drain>>

\* finishTask: the slot is free again, and offered.
finishTask(r, t, frames) ==
  sendOffers(r, [proc[r] EXCEPT !.running = untrack(@, {t})], frames)

Gets(r, kind) == /\ proc[r].alive /\ toRunner[r] # <<>> /\ Head(toRunner[r])[1] = kind
                 /\ toRunner' = [toRunner EXCEPT ![r] = Tail(@)]
Named(r) == Head(toRunner[r])[2]
setStatus(r, t, status) == proc' = [proc EXCEPT ![r].running = put(@, t, status)]

OnRegistered(r) ==
  /\ Gets(r, "registered")
  /\ proc' = [proc EXCEPT ![r].offering = TRUE]
  /\ UNCHANGED <<requester, pool, tasks, signs, links, toBroker, offered, drain>>

\* Mutant: an acceptance is taken without a look at the slots.
BugOfferAccepted(r) ==
  /\ Gets(r, "offeraccept")
  /\ proc' = [proc EXCEPT ![r].openOffers = @ \ {Named(r)},
                          ![r].running = put(@, Named(r), "waitingForSettings")]
  /\ sendFrames(r, <<<<"accepted", Named(r)>>>>)
  /\ UNCHANGED <<requester, pool, tasks, signs, links, offered, drain>>

OfferAccepted(r) ==
  /\ Gets(r, "offeraccept")
  /\ LET t == Named(r)
         p == proc[r]
         full == Cardinality(DOMAIN p.running) >= MaxConcurrency
     IN IF p.launcher
        THEN /\ proc' = [proc EXCEPT ![r].openOffers = @ \ {t}]
             /\ sendFrames(r, <<<<"deferred", t>>>>)
        ELSE IF p.draining \/ full \/ t \notin p.openOffers
        THEN /\ proc' = [proc EXCEPT ![r].openOffers = IF p.draining THEN @ ELSE @ \ {t}]
             /\ sendFrames(r, <<<<"rejected", t>>>>)
        ELSE /\ proc' = [proc EXCEPT ![r].openOffers = @ \ {t},
                                     ![r].running = put(@, t, "waitingForSettings")]
             /\ sendFrames(r, <<<<"accepted", t>>>>)
  /\ UNCHANGED <<requester, pool, tasks, signs, links, offered, drain>>

statusOf(r, t) == IF t \in DOMAIN proc[r].running THEN proc[r].running[t] ELSE "none"

TaskCancelled(r) ==
  /\ Gets(r, "cancel")
  /\ LET t == Named(r) IN
     CASE statusOf(r, t) = "waitingForSettings" -> finishTask(r, t, <<>>)
       [] statusOf(r, t) = "running" ->
            setStatus(r, t, "aborting:cancelled") /\ UNCHANGED <<toBroker, offered>>
       [] OTHER -> UNCHANGED <<proc, toBroker, offered>>
  /\ UNCHANGED <<requester, pool, tasks, signs, links, drain>>

ReceivedSettings(r) ==
  /\ Gets(r, "settings")
  /\ LET t == Named(r) IN
     IF statusOf(r, t) = "waitingForSettings" THEN setStatus(r, t, "running")
     ELSE UNCHANGED proc
  /\ UNCHANGED <<requester, pool, tasks, signs, links, toBroker, offered, drain>>

OnDrain(r) ==
  /\ Gets(r, "drain")
  /\ proc' = [proc EXCEPT ![r].draining = TRUE, ![r].offering = FALSE]
  /\ UNCHANGED <<requester, pool, tasks, signs, links, toBroker, offered, drain>>

\* The runner's own timer for the task.
TaskTimedOut(r, t) ==
  /\ statusOf(r, t) \in {"waitingForSettings", "running"}
  /\ IF statusOf(r, t) = "running"
     THEN setStatus(r, t, "aborting:timeout") /\ UNCHANGED <<toBroker, offered>>
     ELSE finishTask(r, t, <<<<"error", t>>>>)
  /\ UNCHANGED <<requester, pool, tasks, signs, links, toRunner, drain>>

\* taskExecutionSucceeded and taskExecutionFailed.
ExecutionEnds(r, t) ==
  /\ statusOf(r, t) \in {"running", "aborting:timeout", "aborting:cancelled"}
  /\ IF statusOf(r, t) = "aborting:cancelled" THEN finishTask(r, t, <<>>)
     ELSE \E kind \in {"done", "error"} : finishTask(r, t, <<<<kind, t>>>>)
  /\ UNCHANGED <<requester, pool, tasks, signs, links, toRunner, drain>>

\* stop(): the runner commits to draining; its exit is ProcessDies.
RunnerDrains(r) ==
  /\ proc[r].alive /\ ~proc[r].draining
  /\ proc' = [proc EXCEPT ![r].draining = TRUE, ![r].offering = FALSE, ![r].openOffers = {}]
  /\ UNCHANGED <<requester, pool, tasks, signs, links, toRunner, toBroker, offered, drain>>

\* The process is gone: its socket closes, or stays half-open until a heartbeat; what it
\* had sent may still arrive.
ProcessDies(r) ==
  /\ proc[r].alive
  /\ proc' = [proc EXCEPT ![r] = NoProc]
  /\ \E c \in IF conn[r] = "open" THEN {"open", "dead"} ELSE {conn[r]} :
       conn' = [conn EXCEPT ![r] = c]
  /\ toRunner' = [toRunner EXCEPT ![r] = <<>>]
  /\ UNCHANGED <<requester, pool, tasks, signs, known, removals, session, toBroker, offered, drain>>

Next ==
  \/ \E q \in Request : TaskRequested(q) \/ CancelTask(q) \/ RequestTimeout(q)
  \/ \E t \in Task : RespondToRunner(t) \/ TaskTimeout(t)
  \/ \E a \in Range(pool.accepts) : AcceptTimeout(a)
  \/ \E r \in Runner :
       \/ TaskOffered(r) \/ RunnerAccepts(r) \/ RunnerRejects(r) \/ RunnerDefers(r)
       \/ TaskEnds(r, "done") \/ TaskEnds(r, "error")
       \/ Connect(r) \/ RemoveConnection(r)
       \/ OfferTick(r) \/ OnRegistered(r) \/ OfferAccepted(r) \/ TaskCancelled(r)
       \/ ReceivedSettings(r) \/ OnDrain(r) \/ RunnerDrains(r) \/ ProcessDies(r)
       \/ \E t \in Task : TaskTimedOut(r, t) \/ ExecutionEnds(r, t)
  \/ \E m \in removals : FinishRemoval(m)
  \/ StartDraining \/ StopRunners

\* The broker's timers fire.  Nothing is asked of runners, sockets or the analysis.
Fairness ==
  /\ \A q \in Request : WF_vars(RequestTimeout(q))
  /\ \A t \in Task : WF_vars(TaskTimeout(t))

Spec == Init /\ [][Next]_vars /\ Fairness

-----------------------------------------------------------------------------
(* Properties. *)

Status == {"waitingForSettings", "running", "aborting:cancelled", "aborting:timeout"}

States == {"none", "requested", "running", "done", "error", "expired", "cancelled"}
Runs == UNION {[D -> Status] : D \in SUBSET Task}
Proc == [alive : BOOLEAN, launcher : BOOLEAN, offering : BOOLEAN, draining : BOOLEAN,
         openOffers : SUBSET Task, running : Runs]
Removal == [runner : Runner, session : 0..MaxSessions, tasks : SUBSET Task, rejoin : BOOLEAN]
Replies == {"accepted", "rejected", "deferred", "done", "error"}
ToRunner == ({"offeraccept", "settings", "cancel"} \X Task) \cup ({"registered", "drain"} \X {NoTask})
ToBroker == ({"offer"} \cup Replies) \X Task

\* The pool, the tracked tasks, the removals under way, the processes and the frames in
\* both directions name tasks, requests and runners that there are; only pending requests
\* are marked; a runner in the connection map is registered, and a runner never holds more
\* tasks than its slots.
TypeOK ==
  /\ requester \in [Request -> [state : States, task : Task \cup {NoTask}]]
  /\ pool \in [offers : Seq(Task), requests : Seq(Request), busy : SUBSET Request,
               accepts : Seq([task : Task, request : Request])]
  /\ pool.busy \subseteq Range(pool.requests)
  /\ DOMAIN tasks \subseteq Task /\ \A t \in DOMAIN tasks : tasks[t] \in Request
  /\ strikes \in [Runner -> 0..MaxStrikes] /\ silent \subseteq Runner
  /\ known \subseteq Runner /\ conn \in [Runner -> {"none", "open", "dead"}]
  /\ \A r \in Runner : conn[r] # "none" => r \in known
  /\ removals \subseteq Removal
  /\ proc \in [Runner -> Proc]
  /\ \A r \in Runner : Cardinality(DOMAIN proc[r].running) <= MaxConcurrency
  /\ toRunner \in [Runner -> Seq(ToRunner)] /\ toBroker \in [Runner -> Seq(ToBroker)]
  /\ session \in [Runner -> 0..MaxSessions] /\ offered \in [Runner -> 0..MaxOffers]
  /\ drain \in {"no", "draining", "stopped"}

\* Broker and requester agree on who waits for what: the pending requests are the ones
\* not yet answered, and the tracked tasks the ones whose result is awaited.  A request
\* outside both would wait for ever; a task outside would hold up the drain for nobody.
RequesterInSync ==
  /\ IsInjective(pool.requests)
  /\ Range(pool.requests) = {q \in Request : requester[q].state = "requested"}
  /\ \A q \in Request, t \in Task :
       (t \in DOMAIN tasks /\ tasks[t] = q)
         <=> (requester[q].state = "running" /\ requester[q].task = t)

\* At most one runner is being asked for a pending request, and exactly one when the
\* request is marked so; a request is never left marked with nobody asked.
OneAttemptPerRequest ==
  \A q \in Range(pool.requests) :
    Cardinality({a \in Range(pool.accepts) : a.request = q}) = IF q \in pool.busy THEN 1 ELSE 0

\* What a connected runner holds, the broker tracks, is waiting to have acknowledged, or
\* has called off in a frame on its way, or it is ending anyway: no slot is lost to a task
\* nobody knows.
SlotsAccounted ==
  Mode = "external" =>
    \A r \in Runner : conn[r] = "open" =>
      \A t \in DOMAIN proc[r].running :
        \/ t \in DOMAIN tasks
        \/ AcceptsOf(t) # {}
        \/ <<"cancel", t>> \in Range(toRunner[r])
        \/ proc[r].running[t] \in {"aborting:cancelled", "aborting:timeout"}

\* Every request is answered, by a result, an error or an expiry, even when runners hang,
\* vanish or never acknowledge: the broker's timers are enough.
EveryRequestAnswered ==
  \A q \in Request : requester[q].state = "requested" ~>
    requester[q].state \in {"done", "error", "expired", "cancelled"}
=============================================================================
