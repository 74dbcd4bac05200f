-------------------------- MODULE TaskBrokerProofs ---------------------------
(***************************************************************************)
(* Theorems about TaskBroker: broker and requester agree on who waits for   *)
(* what, a pending request is with exactly one runner when it is marked so, *)
(* and a connected runner holds no task nobody knows of.  A task passes     *)
(* through its stages once: an offer on its way, an offer in the pool, an   *)
(* acceptance, a task tracked by the broker.                                *)
(***************************************************************************)
EXTENDS TaskBroker, CollectionLemmas

-----------------------------------------------------------------------------
\* Queues.

\* The members of K occur at most once in the queue s.
OnceIn(s, K) == \A i, j \in DOMAIN s : s[i] = s[j] /\ s[i] \in K => i = j

\* Every x in the queue s has a y behind it.
FollowedBy(s, x, y) == \A i \in DOMAIN s : s[i] = x => \E j \in DOMAIN s : j > i /\ s[j] = y

\* Positions in a queue that grows.
LEMMA Positions ==
  ASSUME NEW S, NEW s \in Seq(S), NEW t \in Seq(S)
  PROVE  /\ s \o t \in Seq(S) /\ Len(s) \in Nat /\ Len(t) \in Nat
         /\ DOMAIN s = 1..Len(s) /\ DOMAIN t = 1..Len(t) /\ DOMAIN (s \o t) = 1..Len(s) + Len(t)
         /\ \A i \in DOMAIN s : i \in DOMAIN (s \o t) /\ (s \o t)[i] = s[i]
         /\ \A i \in DOMAIN t : Len(s) + i \in DOMAIN (s \o t) /\ (s \o t)[Len(s) + i] = t[i]
         /\ \A i \in DOMAIN (s \o t) : i \in DOMAIN s \/ \E j \in DOMAIN t : i = Len(s) + j
<1> DEFINE c == s \o t
<1>1. /\ c \in Seq(S) /\ Len(c) = Len(s) + Len(t)
      /\ \A i \in 1..Len(s) + Len(t) : c[i] = IF i <= Len(s) THEN s[i] ELSE t[i - Len(s)]
  BY ConcatProperties
<1>2. Len(s) \in Nat /\ Len(t) \in Nat /\ DOMAIN s = 1..Len(s) /\ DOMAIN t = 1..Len(t)
  BY LenProperties
<1>3. DOMAIN c = 1..Len(s) + Len(t) BY <1>1, LenProperties
<1> HIDE DEF c
<1>4. \A i \in DOMAIN s : i \in DOMAIN c /\ c[i] = s[i] BY <1>1, <1>2, <1>3
<1>5. ASSUME NEW i \in DOMAIN t PROVE Len(s) + i \in DOMAIN c /\ c[Len(s) + i] = t[i]
  <2>1. Len(s) + i \in 1..Len(s) + Len(t) /\ ~(Len(s) + i <= Len(s)) /\ (Len(s) + i) - Len(s) = i
    BY <1>2
  <2>2. c[Len(s) + i] = t[(Len(s) + i) - Len(s)] BY <1>1, <2>1
  <2> QED BY <1>3, <2>1, <2>2
<1>6. ASSUME NEW i \in DOMAIN c PROVE i \in DOMAIN s \/ \E j \in DOMAIN t : i = Len(s) + j
  <2>1. CASE i <= Len(s) BY <1>2, <1>3, <2>1
  <2>2. CASE i > Len(s)
    <3>1. i - Len(s) \in DOMAIN t /\ i = Len(s) + (i - Len(s)) BY <1>2, <1>3, <2>2
    <3> QED BY <3>1
  <2> QED BY <1>2, <1>3, <2>1, <2>2
<1> QED BY <1>1, <1>2, <1>3, <1>4, <1>5, <1>6 DEF c

\* What is behind the head of a queue.
LEMMA BehindHead ==
  ASSUME NEW S, NEW s \in Seq(S), s # <<>>
  PROVE  /\ DOMAIN Tail(s) \subseteq Nat /\ DOMAIN s \subseteq Nat
         /\ \A i \in DOMAIN Tail(s) : i + 1 \in DOMAIN s /\ Tail(s)[i] = s[i + 1]
         /\ 1 \in DOMAIN s /\ s[1] = Head(s)
         /\ \A i \in DOMAIN s : i # 1 => i - 1 \in DOMAIN Tail(s) /\ Tail(s)[i - 1] = s[i]
<1>1. /\ Tail(s) \in Seq(S) /\ Len(Tail(s)) = Len(s) - 1
      /\ \A i \in 1..Len(Tail(s)) : Tail(s)[i] = s[i + 1]
  BY HeadTailProperties
<1>2. Len(s) \in Nat \ {0} BY EmptySeq
<1>3. DOMAIN s = 1..Len(s) /\ DOMAIN Tail(s) = 1..Len(Tail(s)) BY <1>1, LenProperties
<1>4. ASSUME NEW i \in DOMAIN s, i # 1 PROVE i - 1 \in DOMAIN Tail(s) /\ Tail(s)[i - 1] = s[i]
  <2>1. i - 1 \in DOMAIN Tail(s) /\ (i - 1) + 1 = i BY <1>1, <1>2, <1>3, <1>4
  <2> QED BY <1>1, <1>3, <2>1
<1>5. Head(s) = s[1] OBVIOUS
<1> QED BY <1>1, <1>2, <1>3, <1>4, <1>5

\* Once in each part and not in both is once in the whole.
LEMMA OnceInConcat ==
  ASSUME NEW S, NEW s \in Seq(S), NEW t \in Seq(S), NEW K, OnceIn(s, K), OnceIn(t, K),
         Range(s) \cap Range(t) \cap K = {}
  PROVE  OnceIn(s \o t, K)
<1> DEFINE c == s \o t
           n == Len(s)
<1>1. /\ n \in Nat /\ DOMAIN s \subseteq Nat /\ DOMAIN t \subseteq Nat
      /\ \A i \in DOMAIN s : c[i] = s[i]
      /\ \A i \in DOMAIN t : c[n + i] = t[i]
      /\ \A i \in DOMAIN c : i \in DOMAIN s \/ \E j \in DOMAIN t : i = n + j
  BY Positions
<1> HIDE DEF c, n
<1>2. \A i \in DOMAIN s, j \in DOMAIN t : s[i] = t[j] => s[i] \notin K
  BY DEF Range
<1>3. ASSUME NEW i \in DOMAIN c, NEW j \in DOMAIN c, c[i] = c[j], c[i] \in K PROVE i = j
  <2>1. CASE i \in DOMAIN s /\ j \in DOMAIN s BY <1>1, <1>3, <2>1 DEF OnceIn
  <2>2. CASE i \in DOMAIN s /\ j \notin DOMAIN s BY <1>1, <1>2, <1>3, <2>2
  <2>3. CASE i \notin DOMAIN s /\ j \in DOMAIN s BY <1>1, <1>2, <1>3, <2>3
  <2>4. CASE i \notin DOMAIN s /\ j \notin DOMAIN s
    <3>1. PICK k \in DOMAIN t : i = n + k BY <1>1, <2>4
    <3>2. PICK l \in DOMAIN t : j = n + l BY <1>1, <2>4
    <3>3. k = l BY <1>1, <1>3, <3>1, <3>2 DEF OnceIn
    <3> QED BY <3>1, <3>2, <3>3
  <2> QED BY <2>1, <2>2, <2>3, <2>4
<1> QED BY <1>3 DEF OnceIn, c

\* A queue of one.
LEMMA OneFrame ==
  ASSUME NEW S, NEW f \in S
  PROVE  /\ <<f>> \in Seq(S) /\ Range(<<f>>) = {f} /\ DOMAIN <<f>> = {1} /\ <<f>>[1] = f
         /\ \A K : OnceIn(<<f>>, K)
<1>1. <<f>> \in Seq(S) /\ Len(<<f>>) = 1 /\ <<f>>[1] = f OBVIOUS
<1>2. DOMAIN <<f>> = {1}
  <2>1. DOMAIN <<f>> = 1..1 BY <1>1, LenProperties
  <2> QED BY <2>1
<1> QED BY <1>1, <1>2 DEF Range, OnceIn

\* The empty queue.
LEMMA NoFrames == \A S, K : <<>> \in Seq(S) /\ Range(<<>>) = {} /\ OnceIn(<<>>, K)
<1>1. DOMAIN <<>> = {} OBVIOUS
<1> QED BY <1>1 DEF Range, OnceIn

\* A frame enqueued.
LEMMA Enqueued ==
  ASSUME NEW S, NEW s \in Seq(S), NEW f \in S
  PROVE  /\ Append(s, f) \in Seq(S) /\ Range(Append(s, f)) = Range(s) \cup {f}
         /\ \A K : OnceIn(s, K) /\ (f \in K => f \notin Range(s)) => OnceIn(Append(s, f), K)
         /\ \A x, y : FollowedBy(s, x, y) /\ f # x => FollowedBy(Append(s, f), x, y)
         /\ \A x : f # x => FollowedBy(Append(s, f), x, f)
<1> DEFINE t == <<f>>
           c == Append(s, f)
           n == Len(s)
<1>1. t \in Seq(S) /\ Range(t) = {f} /\ DOMAIN t = {1} /\ t[1] = f /\ \A K : OnceIn(t, K)
  BY OneFrame
<1>2. c = s \o t BY AppendIsConcat
<1> HIDE DEF t, c
<1>3. c \in Seq(S) /\ Range(c) = Range(s) \cup {f} BY <1>1, <1>2, RangeOfConcat
<1>4. /\ n \in Nat /\ DOMAIN s = 1..n
      /\ \A i \in DOMAIN s : i \in DOMAIN c /\ c[i] = s[i]
      /\ n + 1 \in DOMAIN c /\ c[n + 1] = f
      /\ \A i \in DOMAIN c : i \in DOMAIN s \/ i = n + 1
  BY <1>1, <1>2, Positions
<1> HIDE DEF n
<1>5. ASSUME NEW K, OnceIn(s, K), f \in K => f \notin Range(s) PROVE OnceIn(c, K)
  <2>1. Range(s) \cap Range(t) \cap K = {} BY <1>1, <1>5
  <2> QED BY <1>1, <1>2, <1>5, <2>1, OnceInConcat
<1>6. ASSUME NEW x, NEW y, FollowedBy(s, x, y), f # x PROVE FollowedBy(c, x, y)
  BY <1>4, <1>6 DEF FollowedBy
<1>7. ASSUME NEW x, f # x PROVE FollowedBy(c, x, f)
  <2> SUFFICES ASSUME NEW i \in DOMAIN c, c[i] = x PROVE n + 1 > i BY <1>4 DEF FollowedBy
  <2>1. i \in DOMAIN s BY <1>4, <1>7
  <2> QED BY <1>4, <2>1
<1> QED BY <1>3, <1>5, <1>6, <1>7 DEF c

\* The head dequeued.
LEMMA Dequeued ==
  ASSUME NEW S, NEW s \in Seq(S), s # <<>>
  PROVE  /\ Head(s) \in S /\ Head(s) \in Range(s) /\ Tail(s) \in Seq(S)
         /\ Range(s) = {Head(s)} \cup Range(Tail(s))
         /\ \A K : OnceIn(s, K) =>
              OnceIn(Tail(s), K) /\ (Head(s) \in K => Head(s) \notin Range(Tail(s)))
         /\ \A x, y : FollowedBy(s, x, y) =>
              FollowedBy(Tail(s), x, y) /\ (Head(s) = x => y \in Range(Tail(s)))
<1> DEFINE t == Tail(s)
<1>1. /\ DOMAIN t \subseteq Nat /\ DOMAIN s \subseteq Nat
      /\ \A i \in DOMAIN t : i + 1 \in DOMAIN s /\ t[i] = s[i + 1]
      /\ 1 \in DOMAIN s /\ s[1] = Head(s)
      /\ \A i \in DOMAIN s : i # 1 => i - 1 \in DOMAIN t /\ t[i - 1] = s[i]
  BY BehindHead
<1>2. t \in Seq(S) BY RangeOfTail
<1>3. Len(t) \in Nat /\ DOMAIN t = 1..Len(t) BY <1>2, LenProperties
<1> HIDE DEF t
<1>4. ASSUME NEW K, OnceIn(s, K) PROVE OnceIn(t, K)
  <2> SUFFICES ASSUME NEW i \in DOMAIN t, NEW j \in DOMAIN t, t[i] = t[j], t[i] \in K PROVE i = j
    BY DEF OnceIn
  <2>1. i + 1 = j + 1 BY <1>1, <1>4 DEF OnceIn
  <2> QED BY <1>1, <2>1
<1>5. ASSUME NEW K, OnceIn(s, K), Head(s) \in K PROVE Head(s) \notin Range(t)
  <2> SUFFICES ASSUME NEW i \in DOMAIN t, t[i] = Head(s) PROVE FALSE BY DEF Range
  <2>1. i + 1 = 1 BY <1>1, <1>5 DEF OnceIn
  <2> QED BY <1>3, <2>1
<1>6. ASSUME NEW x, NEW y, FollowedBy(s, x, y) PROVE FollowedBy(t, x, y)
  <2> SUFFICES ASSUME NEW i \in DOMAIN t, t[i] = x PROVE \E j \in DOMAIN t : j > i /\ t[j] = y
    BY DEF FollowedBy
  <2>1. PICK j \in DOMAIN s : j > i + 1 /\ s[j] = y BY <1>1, <1>6 DEF FollowedBy
  <2>2. j - 1 \in DOMAIN t /\ t[j - 1] = y /\ j - 1 > i BY <1>1, <1>3, <2>1
  <2> QED BY <2>2
<1>7. ASSUME NEW x, NEW y, FollowedBy(s, x, y), Head(s) = x PROVE y \in Range(t)
  <2>1. PICK j \in DOMAIN s : j > 1 /\ s[j] = y BY <1>1, <1>7 DEF FollowedBy
  <2>2. j - 1 \in DOMAIN t /\ t[j - 1] = y BY <1>1, <2>1
  <2> QED BY <2>2 DEF Range
<1> QED BY <1>2, <1>4, <1>5, <1>6, <1>7, RangeOfTail DEF t

-----------------------------------------------------------------------------
\* The inductive invariant.

Ends == Replies \ {"accepted"}

\* Where a task is: offered so far, its offer on the way, running, answered for.
Issued == {t \in Task : t[2] <= offered[t[1]]}
Offering(t) == <<"offer", t>> \in Range(toBroker[t[1]])
Held(t) == t \in DOMAIN proc[t[1]].running
Replied(t) == \E k \in Replies : <<k, t>> \in Range(toBroker[t[1]])
Ended(t) == \E k \in Ends : <<k, t>> \in Range(toBroker[t[1]])
\* Nothing has come of its offer yet.
Quiet == {t \in Task : ~Offering(t) /\ ~Held(t) /\ ~Replied(t)}
Acceptable == {t \in Issued : ~Offering(t) /\ t \notin DOMAIN tasks}
Offerable == Acceptable \cap Quiet
AskedFor == {q \in Request : requester[q].state # "none"}
Live == {r \in Runner : conn[r] = "open"}

\* What the pool and the frames to the runners are measured against: the tasks that may be
\* in an offer, the ones that may be in an acceptance, the requests made so far, the tasks
\* offered so far, the ones nothing has come of, the runners that can be reached.
Ctx == [offerable |-> Offerable, acceptable |-> Acceptable, asked |-> AskedFor,
        issued |-> Issued, quiet |-> Quiet, live |-> Live]
Context(c) == /\ c.offerable \subseteq c.acceptable /\ c.offerable \subseteq c.quiet
              /\ c.acceptable \subseteq c.issued /\ c.issued \subseteq Task

\* The frames that runner r sends, and gets, when the tasks of I have been offered.
Up(r, I) == ({"offer"} \cup Replies) \X {t \in I : t[1] = r}
Down(r, I) == ({"offeraccept", "settings", "cancel"} \X {t \in I : t[1] = r})
                \cup ({"registered", "drain"} \X {NoTask})
Frames == [Runner -> Seq({"offeraccept", "settings", "cancel", "registered", "drain"}
                           \X (Task \cup {NoTask}))]

\* The requests in owed are marked although their acceptance is gone: they are about to be
\* released.
Pools(c) == [offers : Seq(c.offerable), requests : Seq(c.asked), busy : SUBSET c.asked,
             accepts : Seq([task : c.acceptable, request : c.asked])]
OneEach(p) ==
  /\ IsInjective(p.offers) /\ IsInjective(p.requests) /\ IsInjective(p.accepts)
  /\ \A a \in Range(p.accepts) : a.task \notin Range(p.offers)
  /\ \A a, b \in Range(p.accepts) : a.task = b.task => a = b
Marked(p, owed) ==
  /\ p.busy \subseteq Range(p.requests)
  /\ \A q \in Range(p.requests) :
       /\ q \in p.busy <=> (q \in owed \/ \E a \in Range(p.accepts) : a.request = q)
       /\ q \in owed => \A a \in Range(p.accepts) : a.request # q
       /\ \A a, b \in Range(p.accepts) : a.request = q /\ b.request = q => a = b
Sound(p, c, owed) == p \in Pools(c) /\ OneEach(p) /\ Marked(p, owed)

\* The frames to the runners: an acceptance is sent once, for a task that nothing has come
\* of, and while the runner is connected it is pending or a cancellation follows it.
Sequel(t, s, p) ==
  \/ \E a \in Range(p.accepts) : a.task = t
  \/ FollowedBy(s, <<"offeraccept", t>>, <<"cancel", t>>)
Delivery(s, p, r, c) ==
  /\ OnceIn(s, {"offeraccept"} \X Task)
  /\ \A t \in Task : <<"offeraccept", t>> \in Range(s) =>
       t \in c.quiet /\ t \notin Range(p.offers) /\ (r \in c.live => Sequel(t, s, p))
Delivering(frames, p, c) ==
  /\ frames \in Frames
  /\ \A r \in Runner : frames[r] \in Seq(Down(r, c.issued)) /\ Delivery(frames[r], p, r, c)

ShapesOK ==
  /\ requester \in [Request -> [state : States, task : Task \cup {NoTask}]]
  /\ DOMAIN tasks \subseteq Issued /\ \A t \in DOMAIN tasks : tasks[t] \in Request
  /\ strikes \in [Runner -> 0..MaxStrikes]
  /\ conn \in [Runner -> {"none", "open", "dead"}]
  /\ \A r \in Runner : conn[r] # "none" => r \in known
  /\ session \in [Runner -> 0..MaxSessions] /\ offered \in [Runner -> 0..MaxOffers]

SyncOK ==
  /\ Range(pool.requests) = {q \in Request : requester[q].state = "requested"}
  /\ \A t \in DOMAIN tasks :
       requester[tasks[t]].state = "running" /\ requester[tasks[t]].task = t
  /\ \A q \in Request : requester[q].state = "running" =>
       requester[q].task \in DOMAIN tasks /\ tasks[requester[q].task] = q

PoolOK == Sound(pool, Ctx, {})

DownOK == Delivering(toRunner, pool, Ctx)

UpQueues ==
  /\ DOMAIN toBroker = Runner
  /\ \A r \in Runner : /\ toBroker[r] \in Seq(Up(r, Issued))
                       /\ OnceIn(toBroker[r], {"offer"} \X Task)
Staged(t) ==
  /\ Offering(t) => t \notin DOMAIN tasks /\ ~Held(t) /\ ~Replied(t)
  /\ Ended(t) => ~Held(t) /\ (t \in proc[t[1]].openOffers => proc[t[1]].draining)
UpStages == \A t \in Task : Staged(t)
UpOK == UpQueues /\ UpStages

Slots(r) ==
  /\ DOMAIN proc[r].running \subseteq {t \in Issued : t[1] = r}
  /\ proc[r].openOffers \subseteq {t \in Issued : t[1] = r}
  /\ DOMAIN proc[r].running \cap proc[r].openOffers = {}
  /\ Cardinality(DOMAIN proc[r].running) <= MaxConcurrency
\* Nothing is left of a process without a connection.
Unplugged(r) == /\ DOMAIN proc[r].running = {} /\ proc[r].openOffers = {} /\ ~proc[r].offering
                /\ <<"registered", NoTask>> \notin Range(toRunner[r])
ProcOK == /\ proc \in [Runner -> Proc]
          /\ \A r \in Runner : Slots(r) /\ (conn[r] = "none" => Unplugged(r))

\* A removal in progress: what its runner held is over.
Removing(m) == /\ m \in Removal /\ m.tasks \subseteq Issued
               /\ m.rejoin => conn[m.runner] = "none"
               /\ \A t \in m.tasks : ~Held(t) /\ t \notin proc[t[1]].openOffers
RemovalsOK ==
  /\ \A m \in removals : Removing(m)
  /\ \A m, n \in removals : m.rejoin /\ n.rejoin /\ m.runner = n.runner => m = n

\* A task that a runner holds, and somebody knows of.
Accounted(t) == \/ t \in DOMAIN tasks
                \/ \E a \in Range(pool.accepts) : a.task = t
                \/ <<"cancel", t>> \in Range(toRunner[t[1]])
                \/ proc[t[1]].running[t] \in {"aborting:cancelled", "aborting:timeout"}
SlotsOK ==
  Mode = "external" => \A t \in Task : conn[t[1]] = "open" /\ Held(t) => Accounted(t)

IInv == ShapesOK /\ SyncOK /\ PoolOK /\ DownOK /\ UpOK /\ ProcOK /\ RemovalsOK /\ SlotsOK

-----------------------------------------------------------------------------
\* The pool.

\* The fields of a pool have their types.
LEMMA PoolFields ==
  ASSUME NEW c, NEW p \in Pools(c)
  PROVE  /\ p.offers \in Seq(c.offerable) /\ Range(p.offers) \subseteq c.offerable
         /\ p.requests \in Seq(c.asked) /\ Range(p.requests) \subseteq c.asked
         /\ p.busy \subseteq c.asked
         /\ p.accepts \in Seq([task : c.acceptable, request : c.asked])
         /\ Range(p.accepts) \subseteq [task : c.acceptable, request : c.asked]
         /\ \A a \in Range(p.accepts) : a.task \in c.acceptable /\ a.request \in c.asked
<1>1. /\ p.offers \in Seq(c.offerable) /\ p.requests \in Seq(c.asked) /\ p.busy \subseteq c.asked
      /\ p.accepts \in Seq([task : c.acceptable, request : c.asked])
  BY DEF Pools
<1>2. Range(p.accepts) \subseteq [task : c.acceptable, request : c.asked] BY <1>1, RangeInType
<1>3. \A a \in Range(p.accepts) : a.task \in c.acceptable /\ a.request \in c.asked BY <1>2
<1> QED BY <1>1, <1>2, <1>3, RangeInType

\* A sound pool stays sound when the tasks and requests it may hold change around it.
LEMMA SoundElsewhere ==
  ASSUME NEW c, NEW d, NEW owed, NEW p, Sound(p, c, owed),
         Range(p.offers) \subseteq d.offerable, c.asked \subseteq d.asked,
         \A a \in Range(p.accepts) : a.task \in d.acceptable
  PROVE  Sound(p, d, owed)
<1>1. p \in Pools(c) BY DEF Sound
<1>2. p.offers \in Seq(d.offerable) BY <1>1, PoolFields, QueueRetyped
<1>3. p.requests \in Seq(d.asked) BY <1>1, PoolFields, QueueRetyped
<1>4. p.accepts \in Seq([task : d.acceptable, request : d.asked])
  <2>1. \A a \in Range(p.accepts) : a \in [task : d.acceptable, request : d.asked]
    <3> SUFFICES ASSUME NEW a \in Range(p.accepts)
                 PROVE  a \in [task : d.acceptable, request : d.asked]
      OBVIOUS
    <3>1. a \in [task : c.acceptable, request : c.asked] BY <1>1, PoolFields
    <3>2. a.task \in d.acceptable /\ a.request \in d.asked BY <3>1
    <3> QED BY <3>1, <3>2
  <2>2. p.accepts \in Seq([task : c.acceptable, request : c.asked]) BY <1>1, PoolFields
  <2> DEFINE R == [task : d.acceptable, request : d.asked]
             S == [task : c.acceptable, request : c.asked]
  <2>3. \A a \in Range(p.accepts) : a \in R BY <2>1
  <2>4. p.accepts \in Seq(S) BY <2>2
  <2> HIDE DEF R, S
  <2>5. p.accepts \in Seq(R) BY <2>3, <2>4, QueueRetyped
  <2> QED BY <2>5 DEF R
<1>5. p.busy \in SUBSET d.asked BY <1>1, PoolFields
<1>6. p \in Pools(d)
  <2>1. p = [offers |-> p.offers, requests |-> p.requests, busy |-> p.busy, accepts |-> p.accepts]
    BY <1>1 DEF Pools
  <2> QED BY <1>2, <1>3, <1>4, <1>5, <2>1 DEF Pools
<1> QED BY <1>6 DEF Sound

\* The pool with fewer offers, with another offer, with another request.
lessOffers(p, gone) == [p EXCEPT !.offers = Without(@, gone)]
moreOffers(p, t) == [p EXCEPT !.offers = Append(@, t)]
moreRequests(p, q) == [p EXCEPT !.requests = Append(@, q)]

\* Discarding offers.
LEMMA FewerOffers ==
  ASSUME NEW c, NEW owed, NEW p, Sound(p, c, owed), NEW gone,
         NEW n, n = lessOffers(p, gone)
  PROVE  /\ Sound(n, c, owed) /\ n.requests = p.requests /\ n.accepts = p.accepts
         /\ Range(n.offers) = Range(p.offers) \ gone
<1> DEFINE o == Without(p.offers, gone)
<1>1. p \in Pools(c) /\ OneEach(p) /\ Marked(p, owed) BY DEF Sound
<1>2. o \in Seq(c.offerable) /\ Range(o) = Range(p.offers) \ gone /\ IsInjective(o)
  <2>1. p.offers \in Seq(c.offerable) /\ IsInjective(p.offers) BY <1>1, PoolFields DEF OneEach
  <2> QED BY <2>1, WithoutElements
<1> HIDE DEF o
<1>3. /\ n \in Pools(c) /\ n.offers = o /\ n.requests = p.requests /\ n.busy = p.busy
      /\ n.accepts = p.accepts
  <2>1. n = [p EXCEPT !.offers = o] BY DEF lessOffers, o
  <2> QED BY <1>1, <1>2, <2>1 DEF Pools
<1>4. OneEach(n) BY <1>1, <1>2, <1>3 DEF OneEach
<1>5. Marked(n, owed) BY <1>1, <1>3 DEF Marked
<1>6. Sound(n, c, owed) BY <1>3, <1>4, <1>5 DEF Sound
<1>7. n.requests = p.requests /\ n.accepts = p.accepts /\ Range(n.offers) = Range(p.offers) \ gone
  BY <1>2, <1>3
<1> QED BY <1>6, <1>7

\* An acceptance is over: nothing else of the pool changes.
LEMMA AcceptDropped ==
  ASSUME NEW c, NEW owed, NEW p, Sound(p, c, owed), NEW a \in Range(p.accepts),
         NEW n, n = dropAccept(p, a.task)
  PROVE  /\ n \in Pools(c) /\ OneEach(n) /\ n.offers = p.offers /\ n.requests = p.requests
         /\ n.busy = p.busy /\ Range(n.accepts) = Range(p.accepts) \ {a}
<1> DEFINE gone == {b \in Range(p.accepts) : b.task = a.task}
           R == [task : c.acceptable, request : c.asked]
           o == Without(p.accepts, gone)
<1>1. p \in Pools(c) /\ OneEach(p) /\ Marked(p, owed) BY DEF Sound
<1>2. gone = {a} BY <1>1 DEF OneEach
<1>3. p.accepts \in Seq(R) BY <1>1, PoolFields
<1>4. o \in Seq(R) /\ Range(o) = Range(p.accepts) \ gone /\ IsInjective(o)
  <2>1. IsInjective(p.accepts) BY <1>1 DEF OneEach
  <2> HIDE DEF gone, R
  <2> QED BY <1>3, <2>1, WithoutElements
<1> HIDE DEF o, gone
<1>5. /\ n \in Pools(c) /\ n.offers = p.offers /\ n.requests = p.requests /\ n.busy = p.busy
      /\ n.accepts = o
  <2>1. n = [p EXCEPT !.accepts = o] BY DEF dropAccept, o, gone
  <2> QED BY <1>1, <1>4, <2>1 DEF Pools
<1> HIDE DEF R
<1>6. OneEach(n) BY <1>1, <1>4, <1>5 DEF OneEach
<1> QED BY <1>2, <1>4, <1>5, <1>6

\* The request of an acceptance that was rejected or deferred, or timed out, is free again.
LEMMA AcceptFailed ==
  ASSUME NEW c, NEW p, Sound(p, c, {}), NEW a \in Range(p.accepts),
         NEW n, n = release(dropAccept(p, a.task), a.request)
  PROVE  /\ Sound(n, c, {}) /\ n.offers = p.offers /\ n.requests = p.requests
         /\ Range(n.accepts) = Range(p.accepts) \ {a}
<1> DEFINE d == dropAccept(p, a.task)
<1>1. p \in Pools(c) /\ OneEach(p) /\ Marked(p, {}) BY DEF Sound
<1>2. /\ d \in Pools(c) /\ OneEach(d) /\ d.offers = p.offers /\ d.requests = p.requests
      /\ d.busy = p.busy /\ Range(d.accepts) = Range(p.accepts) \ {a}
  BY AcceptDropped
<1>0. n = release(d, a.request) OBVIOUS
<1> HIDE DEF d
<1>3. /\ n \in Pools(c) /\ n.offers = p.offers /\ n.requests = p.requests
      /\ n.busy = p.busy \ {a.request} /\ n.accepts = d.accepts
  BY <1>0, <1>2 DEF release, Pools
<1>4. OneEach(n) BY <1>2, <1>3 DEF OneEach
<1>5. Marked(n, {})
  <2>1. n.busy \subseteq Range(n.requests) BY <1>1, <1>3 DEF Marked
  <2>2. ASSUME NEW q \in Range(n.requests)
        PROVE  /\ q \in n.busy <=> \E b \in Range(n.accepts) : b.request = q
               /\ \A x, y \in Range(n.accepts) : x.request = q /\ y.request = q => x = y
    <3>1. /\ q \in p.busy <=> \E b \in Range(p.accepts) : b.request = q
          /\ \A x, y \in Range(p.accepts) : x.request = q /\ y.request = q => x = y
      BY <1>1, <1>3, <2>2 DEF Marked
    <3>2. CASE q = a.request BY <1>2, <1>3, <3>1, <3>2
    <3>3. CASE q # a.request BY <1>2, <1>3, <3>1, <3>3
    <3> QED BY <3>2, <3>3
  <2> QED BY <2>1, <2>2 DEF Marked
<1>6. Sound(n, c, {}) BY <1>3, <1>4, <1>5 DEF Sound
<1> QED BY <1>2, <1>3, <1>6

\* A request leaves the pool.
LEMMA RequestRemoved ==
  ASSUME NEW c, NEW p \in Pools(c), OneEach(p), NEW q,
         p.busy \subseteq Range(p.requests),
         \A x \in Range(p.requests) \ {q} :
           /\ x \in p.busy <=> \E a \in Range(p.accepts) : a.request = x
           /\ \A a, b \in Range(p.accepts) : a.request = x /\ b.request = x => a = b,
         NEW n, n = removeRequest(p, q)
  PROVE  /\ Sound(n, c, {}) /\ n.offers = p.offers /\ n.accepts = p.accepts
         /\ Range(n.requests) = Range(p.requests) \ {q}
<1> DEFINE o == Without(p.requests, {q})
<1>1. o \in Seq(c.asked) /\ Range(o) = Range(p.requests) \ {q} /\ IsInjective(o)
  <2>1. p.requests \in Seq(c.asked) /\ IsInjective(p.requests) BY PoolFields DEF OneEach
  <2> QED BY <2>1, WithoutElements
<1> HIDE DEF o
<1>2. /\ n \in Pools(c) /\ n.offers = p.offers /\ n.requests = o /\ n.busy = p.busy \ {q}
      /\ n.accepts = p.accepts
  <2>1. n = [p EXCEPT !.requests = o, !.busy = @ \ {q}] BY DEF removeRequest, o
  <2> DEFINE m == [p EXCEPT !.requests = o, !.busy = @ \ {q}]
  <2>2. /\ m \in Pools(c) /\ m.offers = p.offers /\ m.requests = o /\ m.busy = p.busy \ {q}
        /\ m.accepts = p.accepts
    BY <1>1 DEF Pools
  <2> HIDE DEF m
  <2>3. n = m BY <2>1 DEF m
  <2> QED BY <2>2, <2>3
<1>3. OneEach(n) BY <1>1, <1>2 DEF OneEach
<1>4. Marked(n, {}) BY <1>1, <1>2 DEF Marked
<1>5. Sound(n, c, {}) BY <1>2, <1>3, <1>4 DEF Sound
<1> QED BY <1>1, <1>2, <1>5

\* A request that nobody was asked for joins the queue.
LEMMA RequestAdded ==
  ASSUME NEW c, NEW d, NEW p, Sound(p, c, {}), NEW q \in d.asked, q \notin Range(p.requests),
         c.offerable = d.offerable, c.acceptable = d.acceptable, c.asked \subseteq d.asked,
         \A a \in Range(p.accepts) : a.request # q,
         NEW n, n = moreRequests(p, q)
  PROVE  /\ Sound(n, d, {}) /\ n.offers = p.offers /\ n.accepts = p.accepts
         /\ Range(n.requests) = Range(p.requests) \cup {q}
<1> DEFINE o == Append(p.requests, q)
<1>1. p \in Pools(c) BY DEF Sound
<1>2. Sound(p, d, {}) BY <1>1, PoolFields, SoundElsewhere
<1>3. p \in Pools(d) /\ OneEach(p) /\ Marked(p, {}) BY <1>2 DEF Sound
<1>4. o \in Seq(d.asked) /\ Range(o) = Range(p.requests) \cup {q} /\ IsInjective(o)
  <2>1. p.requests \in Seq(d.asked) /\ IsInjective(p.requests) BY <1>3, PoolFields DEF OneEach
  <2> QED BY <2>1, InjectiveAppend, Enqueued
<1> HIDE DEF o
<1>5. /\ n \in Pools(d) /\ n.offers = p.offers /\ n.requests = o /\ n.busy = p.busy
      /\ n.accepts = p.accepts
  <2>1. n = [p EXCEPT !.requests = o] BY DEF moreRequests, o
  <2> QED BY <1>3, <1>4, <2>1 DEF Pools
<1>6. OneEach(n) BY <1>3, <1>4, <1>5 DEF OneEach
<1>7. Marked(n, {})
  <2>1. q \notin p.busy BY <1>3 DEF Marked
  <2>2. n.busy \subseteq Range(n.requests) BY <1>3, <1>4, <1>5 DEF Marked
  <2>3. ASSUME NEW x \in Range(n.requests)
        PROVE  /\ x \in n.busy <=> \E a \in Range(n.accepts) : a.request = x
               /\ \A a, b \in Range(n.accepts) : a.request = x /\ b.request = x => a = b
    <3>1. CASE x = q BY <1>5, <2>1, <3>1
    <3>2. CASE x # q BY <1>3, <1>4, <1>5, <3>2 DEF Marked
    <3> QED BY <3>1, <3>2
  <2> QED BY <2>2, <2>3 DEF Marked
<1>8. Sound(n, d, {}) BY <1>5, <1>6, <1>7 DEF Sound
<1> QED BY <1>4, <1>5, <1>8

\* A new offer joins the pool.
LEMMA OfferAdded ==
  ASSUME NEW c, NEW p, Sound(p, c, {}), NEW t \in c.offerable, t \notin Range(p.offers),
         \A a \in Range(p.accepts) : a.task # t,
         NEW n, n = moreOffers(p, t)
  PROVE  /\ Sound(n, c, {}) /\ Range(n.offers) = Range(p.offers) \cup {t}
         /\ n.accepts = p.accepts /\ n.requests = p.requests
<1> DEFINE o == Append(p.offers, t)
<1>1. p \in Pools(c) /\ OneEach(p) /\ Marked(p, {}) BY DEF Sound
<1>2. o \in Seq(c.offerable) /\ Range(o) = Range(p.offers) \cup {t} /\ IsInjective(o)
  <2>1. p.offers \in Seq(c.offerable) /\ IsInjective(p.offers) BY <1>1, PoolFields DEF OneEach
  <2> QED BY <2>1, InjectiveAppend, Enqueued
<1> HIDE DEF o
<1>3. /\ n \in Pools(c) /\ n.offers = o /\ n.requests = p.requests /\ n.busy = p.busy
      /\ n.accepts = p.accepts
  <2>1. n = [p EXCEPT !.offers = o] BY DEF moreOffers, o
  <2> QED BY <1>1, <1>2, <2>1 DEF Pools
<1>4. OneEach(n) BY <1>1, <1>2, <1>3 DEF OneEach
<1>5. Marked(n, {}) BY <1>1, <1>3 DEF Marked
<1>6. Sound(n, c, {}) BY <1>3, <1>4, <1>5 DEF Sound
<1> QED BY <1>2, <1>3, <1>6

-----------------------------------------------------------------------------
\* Matching.

\* s has b's requests, acceptances and frames, and may have accepted more offers.
Grows(s, b) ==
  /\ s.pool.requests = b.pool.requests
  /\ Range(b.pool.accepts) \subseteq Range(s.pool.accepts)
  /\ \A r \in Runner : /\ Range(b.frames[r]) \subseteq Range(s.frames[r])
                       /\ \A f \in Range(s.frames[r]) : f \in Range(b.frames[r])
                                                        \/ f[1] = "offeraccept"

\* What matching goes through, from b.
Stage(c, owed, b) ==
  {s \in [pool : Pools(c), frames : Frames] :
     Sound(s.pool, c, owed) /\ Delivering(s.frames, s.pool, c) /\ Grows(s, b)}

\* Frames that stay as they are, while the pool changes around them.
LEMMA DeliveryKept ==
  ASSUME NEW s, NEW r, NEW c, NEW d, NEW p, NEW n, Delivery(s, p, r, c),
         \A t \in Task : <<"offeraccept", t>> \in Range(s) =>
                           t \in d.quiet /\ t \notin Range(n.offers),
         r \in d.live =>
           /\ r \in c.live
           /\ \A a \in Range(p.accepts) : <<"offeraccept", a.task>> \in Range(s) =>
                \E b \in Range(n.accepts) : b.task = a.task
  PROVE  Delivery(s, n, r, d)
<1> SUFFICES ASSUME NEW t \in Task, <<"offeraccept", t>> \in Range(s), r \in d.live
             PROVE  Sequel(t, s, n)
  BY DEF Delivery
<1>1. Sequel(t, s, p) BY DEF Delivery
<1> QED BY <1>1 DEF Sequel

\* A frame other than an acceptance is sent.
LEMMA DeliverySent ==
  ASSUME NEW S, NEW s \in Seq(S), NEW f \in S, NEW r, NEW c, NEW p, Delivery(s, p, r, c),
         f[1] # "offeraccept"
  PROVE  Delivery(Append(s, f), p, r, c)
<1> DEFINE n == Append(s, f)
<1>1. \A t : f # <<"offeraccept", t>> OBVIOUS
<1>2. f \notin {"offeraccept"} \X Task OBVIOUS
<1>3. Range(n) = Range(s) \cup {f} BY Enqueued
<1>4. OnceIn(n, {"offeraccept"} \X Task)
  <2> DEFINE K == {"offeraccept"} \X Task
  <2>1. OnceIn(s, K) /\ f \notin K BY <1>2 DEF Delivery
  <2> HIDE DEF K
  <2>2. OnceIn(n, K) BY <2>1, Enqueued
  <2> QED BY <2>2 DEF K
<1>5. ASSUME NEW t \in Task, Sequel(t, s, p) PROVE Sequel(t, n, p)
  <2> DEFINE x == <<"offeraccept", t>>
             y == <<"cancel", t>>
  <2>1. f # x BY <1>1
  <2> HIDE DEF x, y
  <2>2. FollowedBy(s, x, y) => FollowedBy(n, x, y) BY <2>1, Enqueued
  <2> QED BY <1>5, <2>2 DEF Sequel, x, y
<1> HIDE DEF n
<1>6. \A t \in Task : <<"offeraccept", t>> \in Range(n) => <<"offeraccept", t>> \in Range(s)
  BY <1>1, <1>3
<1>7. Delivery(n, p, r, c) BY <1>4, <1>5, <1>6 DEF Delivery
<1> QED BY <1>7 DEF n

\* One match: the offer leaves the pool, its acceptance is pending and on its way.
LEMMA MatchOne ==
  ASSUME NEW c, Context(c), NEW owed, NEW b, NEW s \in Stage(c, owed, b),
         NEW q \in Range(b.pool.requests)
  PROVE  matchOne(s, q) \in Stage(c, owed, b)
<1> DEFINE p == s.pool
           fits == {i \in DOMAIN p.offers : TypeOf[runnerOf(p.offers[i])] = TypeOf[q]}
           k == Min(fits)
           t == p.offers[k]
           r == runnerOf(t)
           a == [task |-> t, request |-> q]
           f == <<"offeraccept", t>>
           o == RemoveAt(p.offers, k)
           l == Append(p.accepts, a)
           n == [p EXCEPT !.offers = o, !.busy = @ \cup {q}, !.accepts = l]
           fr == [s.frames EXCEPT ![r] = Append(@, f)]
<1>1. CASE q \in p.busy \/ fits = {} BY <1>1 DEF matchOne
<1>2. CASE ~(q \in p.busy \/ fits = {})
  <2>1. matchOne(s, q) = [pool |-> n, frames |-> fr] BY <1>2 DEF matchOne
  <2>2. /\ s \in [pool : Pools(c), frames : Frames] /\ p \in Pools(c) /\ s.frames \in Frames
        /\ OneEach(p) /\ Marked(p, owed) /\ Delivering(s.frames, p, c) /\ Grows(s, b)
    BY DEF Stage, Sound
  <2>3. /\ p.offers \in Seq(c.offerable) /\ Range(p.offers) \subseteq c.offerable
        /\ p.accepts \in Seq([task : c.acceptable, request : c.asked])
        /\ Range(p.requests) \subseteq c.asked /\ p.busy \subseteq c.asked
    BY <2>2, PoolFields
  <2>4. k \in DOMAIN p.offers /\ k \in 1..Len(p.offers) /\ DOMAIN p.offers \subseteq Nat
    <3>1. Len(p.offers) \in Nat /\ DOMAIN p.offers = 1..Len(p.offers) BY <2>3, LenProperties
    <3>2. fits \in SUBSET Nat /\ fits # {} BY <1>2, <3>1
    <3>3. k \in fits
      <4> HIDE DEF fits
      <4> QED BY <3>2, MinOfNats
    <3> QED BY <3>1, <3>3
  <2>5. t \in Range(p.offers) BY <2>4 DEF Range
  <2>6. t \in c.offerable /\ t \in c.acceptable /\ t \in c.quiet /\ t \in c.issued /\ t \in Task
    BY <2>3, <2>5 DEF Context
  <2>7. r \in Runner /\ t[1] = r /\ r = runnerOf(t) BY <2>6 DEF runnerOf, Task
  <2>8. q \in c.asked /\ q \in Range(p.requests) BY <2>2, <2>3 DEF Grows
  <2>9. q \notin owed /\ \A x \in Range(p.accepts) : x.request # q
    BY <1>2, <2>2, <2>8 DEF Marked
  <2> HIDE DEF fits, k, t, r
  <2>10. o \in Seq(c.offerable) /\ IsInjective(o) /\ Range(o) = Range(p.offers) \ {t}
    <3>1. IsInjective(p.offers) BY <2>2 DEF OneEach
    <3> QED BY <2>3, <2>4, <3>1, RemovedAt DEF t
  <2>11. a \in [task : c.acceptable, request : c.asked] /\ a.task = t /\ a.request = q
    BY <2>6, <2>8
  <2>12. a \notin Range(p.accepts) BY <2>2, <2>5, <2>11 DEF OneEach
  <2> HIDE DEF a, o
  <2>13. /\ l \in Seq([task : c.acceptable, request : c.asked]) /\ IsInjective(l)
         /\ Range(l) = Range(p.accepts) \cup {a}
    <3> DEFINE R == [task : c.acceptable, request : c.asked]
    <3>1. p.accepts \in Seq(R) /\ a \in R /\ IsInjective(p.accepts) BY <2>2, <2>3, <2>11 DEF OneEach
    <3> HIDE DEF R
    <3>2. l \in Seq(R) /\ Range(l) = Range(p.accepts) \cup {a} BY <3>1, Enqueued
    <3>3. IsInjective(l) BY <2>12, <3>1, InjectiveAppend
    <3> QED BY <3>2, <3>3 DEF R
  <2> HIDE DEF l
  <2>14. /\ n \in Pools(c) /\ n.offers = o /\ n.requests = p.requests
         /\ n.busy = p.busy \cup {q} /\ n.accepts = l
    BY <2>2, <2>3, <2>8, <2>10, <2>13 DEF Pools
  <2> HIDE DEF n
  <2>15. OneEach(n) BY <2>2, <2>5, <2>10, <2>11, <2>13, <2>14 DEF OneEach
  <2>16. Marked(n, owed)
    <3>1. n.busy \subseteq Range(n.requests) BY <2>2, <2>8, <2>14 DEF Marked
    <3>2. ASSUME NEW x \in Range(n.requests)
          PROVE  /\ x \in n.busy <=> (x \in owed \/ \E d \in Range(n.accepts) : d.request = x)
                 /\ x \in owed => \A d \in Range(n.accepts) : d.request # x
                 /\ \A d, e \in Range(n.accepts) : d.request = x /\ e.request = x => d = e
      <4>1. /\ x \in p.busy <=> (x \in owed \/ \E d \in Range(p.accepts) : d.request = x)
            /\ x \in owed => \A d \in Range(p.accepts) : d.request # x
            /\ \A d, e \in Range(p.accepts) : d.request = x /\ e.request = x => d = e
        BY <2>2, <2>14 DEF Marked
      <4>2. CASE x = q BY <2>9, <2>11, <2>13, <2>14, <4>2
      <4>3. CASE x # q BY <2>11, <2>13, <2>14, <4>1, <4>3
      <4> QED BY <4>2, <4>3
    <3> QED BY <3>1, <3>2 DEF Marked
  <2>17. Sound(n, c, owed) BY <2>14, <2>15, <2>16 DEF Sound
  <2>18. /\ f \in Down(r, c.issued) /\ f[1] = "offeraccept"
         /\ f \in {"offeraccept", "settings", "cancel", "registered", "drain"} \X (Task \cup {NoTask})
    BY <2>6, <2>7 DEF Down
  <2>19. /\ fr \in Frames /\ fr[r] = Append(s.frames[r], f)
         /\ \A x \in Runner \ {r} : fr[x] = s.frames[x]
    <3> DEFINE F == {"offeraccept", "settings", "cancel", "registered", "drain"}
                      \X (Task \cup {NoTask})
               S == Seq(F)
    <3>1. s.frames \in [Runner -> S] BY <2>2 DEF Frames
    <3>2. Append(s.frames[r], f) \in S
      <4>1. s.frames[r] \in Seq(F) /\ f \in F BY <2>7, <2>18, <3>1
      <4> HIDE DEF F
      <4> QED BY <4>1, Enqueued
    <3> HIDE DEF S, f
    <3>3. fr \in [Runner -> S] BY <3>1, <3>2
    <3>4. fr[r] = Append(s.frames[r], f) /\ \A x \in Runner \ {r} : fr[x] = s.frames[x]
      BY <2>7, <3>1
    <3> QED BY <3>3, <3>4 DEF Frames, S
  <2>20. s.frames[r] \in Seq(Down(r, c.issued)) /\ Delivery(s.frames[r], p, r, c)
    BY <2>2, <2>7 DEF Delivering
  <2>21. /\ fr[r] \in Seq(Down(r, c.issued)) /\ Range(fr[r]) = Range(s.frames[r]) \cup {f}
         /\ \A K : OnceIn(s.frames[r], K) /\ (f \in K => f \notin Range(s.frames[r]))
                     => OnceIn(fr[r], K)
         /\ \A x, y : FollowedBy(s.frames[r], x, y) /\ f # x => FollowedBy(fr[r], x, y)
    <3> DEFINE D == Down(r, c.issued)
               old == s.frames[r]
    <3>1. old \in Seq(D) /\ f \in D /\ fr[r] = Append(old, f) BY <2>18, <2>19, <2>20
    <3> HIDE DEF f, fr, D, old
    <3>2. /\ fr[r] \in Seq(D) /\ Range(fr[r]) = Range(old) \cup {f}
          /\ \A K : OnceIn(old, K) /\ (f \in K => f \notin Range(old)) => OnceIn(fr[r], K)
          /\ \A x, y : FollowedBy(old, x, y) /\ f # x => FollowedBy(fr[r], x, y)
      BY <3>1, Enqueued
    <3> QED BY <3>2 DEF D, old
  <2> HIDE DEF fr
  <2>22. f \notin Range(s.frames[r]) BY <2>5, <2>6, <2>20 DEF Delivery
  <2>23. Delivery(fr[r], n, r, c)
    <3>1. OnceIn(fr[r], {"offeraccept"} \X Task)
      <4>1. OnceIn(s.frames[r], {"offeraccept"} \X Task) BY <2>20 DEF Delivery
      <4> HIDE DEF f
      <4> QED BY <2>21, <2>22, <4>1
    <3>2. ASSUME NEW u \in Task, <<"offeraccept", u>> \in Range(fr[r])
          PROVE  u \in c.quiet /\ u \notin Range(n.offers) /\ (r \in c.live => Sequel(u, fr[r], n))
      <4>1. CASE u = t
        <5>1. \E d \in Range(n.accepts) : d.task = u BY <2>11, <2>13, <2>14, <4>1
        <5> QED BY <2>6, <2>10, <2>14, <4>1, <5>1 DEF Sequel
      <4>2. CASE u # t
        <5>1. <<"offeraccept", u>> \in Range(s.frames[r]) /\ f # <<"offeraccept", u>>
          BY <2>21, <3>2, <4>2
        <5>2. u \in c.quiet /\ u \notin Range(p.offers) /\ (r \in c.live => Sequel(u, s.frames[r], p))
          BY <2>20, <5>1 DEF Delivery
        <5>3. Sequel(u, s.frames[r], p) => Sequel(u, fr[r], n)
          <6>1. FollowedBy(s.frames[r], <<"offeraccept", u>>, <<"cancel", u>>)
                  => FollowedBy(fr[r], <<"offeraccept", u>>, <<"cancel", u>>)
            BY <2>21, <5>1
          <6> QED BY <2>13, <2>14, <6>1 DEF Sequel
        <5> QED BY <2>10, <2>14, <5>2, <5>3
      <4> QED BY <4>1, <4>2
    <3> QED BY <3>1, <3>2 DEF Delivery
  <2>24. ASSUME NEW x \in Runner, x # r
         PROVE  fr[x] \in Seq(Down(x, c.issued)) /\ Delivery(fr[x], n, x, c)
    <3>1. fr[x] = s.frames[x] /\ fr[x] \in Seq(Down(x, c.issued)) /\ Delivery(fr[x], p, x, c)
      BY <2>2, <2>19, <2>24 DEF Delivering
    <3>2. \A y \in Range(p.accepts) : y \in Range(n.accepts) BY <2>13, <2>14
    <3>3. \A u \in Task : <<"offeraccept", u>> \in Range(fr[x]) =>
            u \in c.quiet /\ u \notin Range(n.offers)
      BY <2>10, <2>14, <3>1 DEF Delivery
    <3> QED BY <3>1, <3>2, <3>3, DeliveryKept
  <2>25. Delivering(fr, n, c) BY <2>19, <2>21, <2>23, <2>24 DEF Delivering
  <2>26. Grows([pool |-> n, frames |-> fr], b)
    <3>1. Range(b.pool.accepts) \subseteq Range(n.accepts) /\ n.requests = b.pool.requests
      BY <2>2, <2>13, <2>14 DEF Grows
    <3>2. \A x \in Runner : /\ Range(b.frames[x]) \subseteq Range(fr[x])
                            /\ \A g \in Range(fr[x]) : g \in Range(b.frames[x])
                                                       \/ g[1] = "offeraccept"
      <4> SUFFICES ASSUME NEW x \in Runner
                   PROVE  /\ Range(b.frames[x]) \subseteq Range(fr[x])
                          /\ \A g \in Range(fr[x]) : g \in Range(b.frames[x])
                                                     \/ g[1] = "offeraccept"
        OBVIOUS
      <4>1. /\ Range(b.frames[x]) \subseteq Range(s.frames[x])
            /\ \A g \in Range(s.frames[x]) : g \in Range(b.frames[x]) \/ g[1] = "offeraccept"
        BY <2>2 DEF Grows
      <4>2. CASE x = r BY <2>18, <2>21, <4>1, <4>2
      <4>3. CASE x # r BY <2>19, <4>1, <4>3
      <4> QED BY <4>2, <4>3
    <3> QED BY <3>1, <3>2 DEF Grows
  <2> QED BY <2>1, <2>14, <2>17, <2>19, <2>25, <2>26 DEF Stage
<1> QED BY <1>1, <1>2

\* Fewer offers change nothing for the frames on their way.
LEMMA FewerOffersDelivery ==
  ASSUME NEW c, NEW p, NEW n, NEW frames, Delivering(frames, p, c),
         Range(n.offers) \subseteq Range(p.offers), n.accepts = p.accepts
  PROVE  Delivering(frames, n, c)
<1> SUFFICES ASSUME NEW r \in Runner PROVE Delivery(frames[r], n, r, c) BY DEF Delivering
<1>1. Delivery(frames[r], p, r, c) BY DEF Delivering
<1>2. \A t \in Task : <<"offeraccept", t>> \in Range(frames[r]) =>
        t \in c.quiet /\ t \notin Range(n.offers)
  BY <1>1 DEF Delivery
<1> QED BY <1>1, <1>2, DeliveryKept

\* settleTasks keeps the pool sound and every acceptance accounted for.
LEMMA SettleTasks ==
  ASSUME NEW c, Context(c), NEW owed, NEW p, Sound(p, c, owed),
         NEW frames, Delivering(frames, p, c), NEW lapsed, NEW reachable
  PROVE  settleTasks(p, frames, lapsed, reachable)
           \in Stage(c, owed, [pool |-> p, frames |-> frames])
<1> DEFINE gone == {t \in Range(p.offers) : t \in lapsed \/ runnerOf(t) \notin reachable}
           m == [p EXCEPT !.offers = Without(@, gone)]
           start == [pool |-> m, frames |-> frames]
           b == [pool |-> p, frames |-> frames]
           S == Stage(c, owed, b)
           n == Len(p.requests)
           Walk(f) == f = [i \in 0..n |-> IF i = 0 THEN start ELSE matchOne(f[i-1], p.requests[i])]
           all == CHOOSE f : Walk(f)
           G == [i \in 0..n |-> S]
           F == [i \in 1..n |-> [x \in S |-> matchOne(x, p.requests[i])]]
<1>1. n \in Nat /\ DOMAIN p.requests = 1..n
  <2>1. p \in Pools(c) BY DEF Sound
  <2>2. p.requests \in Seq(c.asked) BY <2>1, PoolFields
  <2> QED BY <2>2, LenProperties
<1>2. start \in S
  <2>1. /\ Sound(m, c, owed) /\ m.requests = p.requests /\ m.accepts = p.accepts
        /\ Range(m.offers) \subseteq Range(p.offers)
    <3>1. m = lessOffers(p, gone) BY DEF lessOffers
    <3> HIDE DEF gone, m
    <3>2. Range(m.offers) = Range(p.offers) \ gone BY <3>1, FewerOffers
    <3>3. Sound(m, c, owed) BY <3>1, FewerOffers
    <3>4. m.requests = p.requests /\ m.accepts = p.accepts BY <3>1, FewerOffers
    <3> QED BY <3>2, <3>3, <3>4
  <2> HIDE DEF m
  <2>2. Delivering(frames, m, c) BY <2>1, FewerOffersDelivery
  <2>3. m \in Pools(c) /\ frames \in Frames BY <2>1, <2>2 DEF Sound, Delivering
  <2>4. Grows(start, b) BY <2>1 DEF Grows
  <2> QED BY <2>1, <2>2, <2>3, <2>4 DEF Stage
<1>3. settleTasks(p, frames, lapsed, reachable) = all[n] BY DEF settleTasks
<1> HIDE DEF start, n
<1>4. \A i \in 1..n, x \in S : matchOne(x, p.requests[i]) \in S
  <2> SUFFICES ASSUME NEW i \in 1..n, NEW x \in S PROVE matchOne(x, p.requests[i]) \in S OBVIOUS
  <2> DEFINE q == p.requests[i]
  <2>1. q \in Range(p.requests) BY <1>1 DEF Range
  <2>2. b.pool.requests = p.requests OBVIOUS
  <2> HIDE DEF q, b
  <2>3. matchOne(x, q) \in Stage(c, owed, b) BY <2>1, <2>2, MatchOne
  <2> QED BY <2>3 DEF q
<1> HIDE DEF S, b
<1>5. \E f : Walk(f)
  <2>1. StepsLead(n, F, G)
    <3> SUFFICES ASSUME NEW i \in 1..n, NEW x \in G[i-1] PROVE F[i][x] \in G[i] BY DEF StepsLead
    <3>1. G[i-1] = S /\ G[i] = S BY <1>1
    <3> QED BY <1>4, <3>1
  <2>2. start \in G[0] /\ \A i \in 0..n : G[i] \subseteq S BY <1>1, <1>2
  <2> HIDE DEF G, F, all, Walk
  <2>3. PICK f \in [0..n -> S] : FollowsSteps(f, n, start, F, G)
    BY <1>1, <2>1, <2>2, RecursionSolved
  <2>4. \A i \in 0..n : f[i] = IF i = 0 THEN start ELSE matchOne(f[i-1], p.requests[i])
    <3> SUFFICES ASSUME NEW i \in 0..n, i # 0 PROVE f[i] = matchOne(f[i-1], p.requests[i])
      BY <2>3 DEF FollowsSteps
    <3>2. i \in 1..n /\ i - 1 \in 0..n BY <1>1
    <3>1. f[i] = F[i][f[i-1]] BY <2>3, <3>2 DEF FollowsSteps
    <3>3. f[i-1] \in S
      <4>1. f[i-1] \in G[i-1] BY <2>3, <3>2 DEF FollowsSteps
      <4> QED BY <3>2, <4>1 DEF G
    <3>4. F[i][f[i-1]] = matchOne(f[i-1], p.requests[i]) BY <3>2, <3>3 DEF F
    <3> QED BY <3>1, <3>4
  <2>5. f = [i \in 0..n |-> f[i]] OBVIOUS
  <2>6. Walk(f) BY <2>4, <2>5 DEF Walk
  <2> QED BY <2>6
<1>6. Walk(all)
  <2> HIDE DEF Walk
  <2> QED BY <1>5
<1> HIDE DEF all
<1>7. all[0] = start /\ \A i \in 1..n : all[i] = matchOne(all[i-1], p.requests[i])
  BY <1>1, <1>6
<1>8. \A i \in 0..n : all[i] \in G[i]
  <2>1. all[0] \in G[0] BY <1>1, <1>2, <1>7
  <2>2. \A i \in 1..n : all[i-1] \in G[i-1] => all[i] \in G[i]
    <3> SUFFICES ASSUME NEW i \in 1..n, all[i-1] \in G[i-1] PROVE all[i] \in G[i] OBVIOUS
    <3>1. G[i-1] = S /\ G[i] = S BY <1>1
    <3> QED BY <1>4, <1>7, <3>1
  <2> HIDE DEF G
  <2> QED BY <1>1, <2>1, <2>2, HandedOn
<1>9. all[n] \in S BY <1>1, <1>8
<1> QED BY <1>3, <1>9 DEF S, b

\* Growing is transitive.
LEMMA GrowsOn ==
  ASSUME NEW s, NEW m, NEW b, Grows(s, m), Grows(m, b) PROVE Grows(s, b)
<1>1. s.pool.requests = b.pool.requests /\ Range(b.pool.accepts) \subseteq Range(s.pool.accepts)
  BY DEF Grows
<1>2. ASSUME NEW r \in Runner
      PROVE  /\ Range(b.frames[r]) \subseteq Range(s.frames[r])
             /\ \A f \in Range(s.frames[r]) : f \in Range(b.frames[r]) \/ f[1] = "offeraccept"
  BY DEF Grows
<1> QED BY <1>1, <1>2 DEF Grows

\* Of the requests of p that are owed their release, all but q are left.
AllBut(p, owed, q, left) == \A x \in Range(p.requests) : x \in left <=> x \in owed /\ x # q

\* One of the requests that are owed their release gets it.
LEMMA Released ==
  ASSUME NEW c, NEW owed, NEW left, NEW p, Sound(p, c, owed), NEW q \in owed,
         AllBut(p, owed, q, left), NEW n, n = release(p, q)
  PROVE  /\ Sound(n, c, left) /\ n.offers = p.offers /\ n.requests = p.requests
         /\ n.accepts = p.accepts
<1>1. p \in Pools(c) /\ OneEach(p) /\ Marked(p, owed) BY DEF Sound
<1>2. /\ n \in Pools(c) /\ n.offers = p.offers /\ n.requests = p.requests
      /\ n.busy = p.busy \ {q} /\ n.accepts = p.accepts
  BY <1>1 DEF release, Pools
<1>3. OneEach(n) BY <1>1, <1>2 DEF OneEach
<1>4. Marked(n, left)
  <2>1. n.busy \subseteq Range(n.requests) BY <1>1, <1>2 DEF Marked
  <2>2. ASSUME NEW x \in Range(n.requests)
        PROVE  /\ x \in n.busy <=> (x \in left \/ \E a \in Range(n.accepts) : a.request = x)
               /\ x \in left => \A a \in Range(n.accepts) : a.request # x
               /\ \A a, b \in Range(n.accepts) : a.request = x /\ b.request = x => a = b
    <3>1. /\ x \in p.busy <=> (x \in owed \/ \E a \in Range(p.accepts) : a.request = x)
          /\ x \in owed => \A a \in Range(p.accepts) : a.request # x
          /\ \A a, b \in Range(p.accepts) : a.request = x /\ b.request = x => a = b
      BY <1>1, <1>2 DEF Marked
    <3>2. x \in left <=> x \in owed /\ x # q BY <1>2 DEF AllBut
    <3>3. CASE x = q BY <1>2, <3>1, <3>2, <3>3
    <3>4. CASE x # q BY <1>2, <3>1, <3>2, <3>4
    <3> QED BY <3>3, <3>4
  <2> QED BY <2>1, <2>2 DEF Marked
<1> QED BY <1>2, <1>3, <1>4 DEF Sound

\* The acceptances of the other runners and of runner r, in order, the requests of some
\* acceptances, and the pool without r's.
othersOf(p, r) == {a \in Range(p.accepts) : runnerOf(a.task) # r}
acceptsBy(p, r) == Without(p.accepts, othersOf(p, r))
requestsOf(accepts) == {a.request : a \in Range(accepts)}
stripped(p, r) == [discardOffersFrom(p, r) EXCEPT !.accepts = Without(@, Range(acceptsBy(p, r)))]

\* The pool as the acceptances of runner r have been taken out of it and its offers dropped.
LEMMA AcceptsTaken ==
  ASSUME NEW c, NEW p, Sound(p, c, {}), NEW r, NEW mine, mine = acceptsBy(p, r),
         NEW n, n = stripped(p, r)
  PROVE  /\ mine \in Seq([task : c.acceptable, request : c.asked]) /\ IsInjective(mine)
         /\ Range(mine) \subseteq Range(p.accepts)
         /\ Sound(n, c, requestsOf(mine)) /\ n.requests = p.requests
         /\ Range(n.offers) \subseteq Range(p.offers) /\ Range(n.accepts) = othersOf(p, r)
<1> DEFINE R == [task : c.acceptable, request : c.asked]
           others == othersOf(p, r)
           gone == {t \in Range(p.offers) : runnerOf(t) = r}
           d == lessOffers(p, gone)
           M == Range(mine)
           o == Without(d.accepts, M)
           m == [d EXCEPT !.accepts = o]
           owed == {a.request : a \in M}
<1>1. p \in Pools(c) /\ OneEach(p) /\ Marked(p, {}) BY DEF Sound
<1>2. p.accepts \in Seq(R) /\ IsInjective(p.accepts) BY <1>1, PoolFields DEF OneEach
<1>3. mine \in Seq(R) /\ IsInjective(mine) /\ Range(mine) = Range(p.accepts) \ others
  <2>1. mine = Without(p.accepts, others) BY DEF acceptsBy
  <2> HIDE DEF R, others
  <2> QED BY <1>2, <2>1, WithoutElements
<1>4. M \subseteq Range(p.accepts) /\ others \subseteq Range(p.accepts) BY <1>3 DEF othersOf
<1>5. discardOffersFrom(p, r) = d BY DEF discardOffersFrom, lessOffers
<1>6. /\ Sound(d, c, {}) /\ d.requests = p.requests /\ d.accepts = p.accepts
      /\ Range(d.offers) \subseteq Range(p.offers)
  <2> HIDE DEF gone, d
  <2>1. d = lessOffers(p, gone) BY DEF d
  <2>2. Range(d.offers) = Range(p.offers) \ gone BY <2>1, FewerOffers
  <2>3. Sound(d, c, {}) /\ d.requests = p.requests /\ d.accepts = p.accepts BY <2>1, FewerOffers
  <2> QED BY <2>2, <2>3
<1> HIDE DEF d
<1>7. d \in Pools(c) /\ OneEach(d) /\ Marked(d, {}) BY <1>6 DEF Sound
<1>8. o \in Seq(R) /\ IsInjective(o) /\ Range(o) = Range(p.accepts) \ M
  <2>1. d.accepts \in Seq(R) /\ IsInjective(d.accepts) BY <1>2, <1>6
  <2> HIDE DEF R, M
  <2> QED BY <1>6, <2>1, WithoutElements
<1>9. Range(o) = others BY <1>3, <1>4, <1>8
<1> HIDE DEF o, others
<1>10. /\ m \in Pools(c) /\ m.offers = d.offers /\ m.requests = d.requests /\ m.busy = d.busy
       /\ m.accepts = o
  BY <1>7, <1>8 DEF Pools
<1>11. n = m
  <2>1. n = [d EXCEPT !.accepts = Without(@, Range(acceptsBy(p, r)))] BY <1>5 DEF stripped
  <2>2. M = Range(acceptsBy(p, r)) OBVIOUS
  <2> QED BY <2>1, <2>2 DEF m, o
<1> HIDE DEF m, M, R
<1>12. OneEach(m) BY <1>6, <1>7, <1>8, <1>10 DEF OneEach
<1>13. Marked(m, owed)
  <2>1. m.busy \subseteq Range(m.requests) BY <1>7, <1>10 DEF Marked
  <2>2. ASSUME NEW x \in Range(m.requests)
        PROVE  /\ x \in m.busy <=> (x \in owed \/ \E a \in Range(m.accepts) : a.request = x)
               /\ x \in owed => \A a \in Range(m.accepts) : a.request # x
               /\ \A a, b \in Range(m.accepts) : a.request = x /\ b.request = x => a = b
    <3>1. /\ x \in m.busy <=> \E a \in Range(p.accepts) : a.request = x
          /\ \A a, b \in Range(p.accepts) : a.request = x /\ b.request = x => a = b
      BY <1>6, <1>7, <1>10 DEF Marked
    <3>2. M \subseteq Range(p.accepts) /\ Range(m.accepts) = Range(p.accepts) \ M
      BY <1>4, <1>8, <1>10
    <3> QED BY <3>1, <3>2
  <2> QED BY <2>1, <2>2 DEF Marked
<1>14. Sound(m, c, owed) BY <1>10, <1>12, <1>13 DEF Sound
<1>15. owed = requestsOf(mine) BY DEF M, requestsOf
<1>16. Sound(n, c, requestsOf(mine)) BY <1>11, <1>14, <1>15
<1>17. n.requests = p.requests /\ Range(n.offers) \subseteq Range(p.offers)
  BY <1>6, <1>10, <1>11
<1>18. Range(n.accepts) = othersOf(p, r) BY <1>9, <1>10, <1>11 DEF others
<1> QED BY <1>3, <1>4, <1>16, <1>17, <1>18 DEF M, R

\* deregisterRunner: each acceptance of the runner is released and the requests settled
\* anew; in the end nothing is owed.
LEMMA Deregister ==
  ASSUME NEW c, Context(c), Sound(pool, c, {}), Delivering(toRunner, pool, c),
         NEW r \in Runner, r \notin c.live, NEW lapsed
  PROVE  \E b : /\ deregister(r, lapsed) \in Stage(c, {}, [pool |-> b, frames |-> toRunner])
                /\ b.requests = pool.requests
                /\ Range(b.accepts) = othersOf(pool, r)
<1> DEFINE mine == acceptsBy(pool, r)
           m == stripped(pool, r)
           start == [pool |-> m, frames |-> toRunner]
           n == Len(mine)
           reachable == ReachableRunners \ {r}
           step(x, i) == settleTasks(release(x.pool, mine[i].request), x.frames, lapsed, reachable)
           Walk(f) == f = [i \in 0..n |-> IF i = 0 THEN start ELSE step(f[i-1], i)]
           all == CHOOSE f : Walk(f)
           Owed(i) == {mine[j].request : j \in i+1..n}
           V == [pool : Pools(c), frames : Frames]
           S(i) == Stage(c, Owed(i), start)
           G == [i \in 0..n |-> S(i)]
           F == [i \in 1..n |-> [x \in S(i-1) |-> step(x, i)]]
<1>1. deregister(r, lapsed) = all[n] BY DEF deregister, acceptsBy, stripped, othersOf
<1> HIDE DEF all
<1>2. /\ mine \in Seq([task : c.acceptable, request : c.asked]) /\ IsInjective(mine)
      /\ Range(mine) \subseteq Range(pool.accepts)
      /\ Sound(m, c, requestsOf(mine)) /\ m.requests = pool.requests
      /\ Range(m.offers) \subseteq Range(pool.offers) /\ Range(m.accepts) = othersOf(pool, r)
  BY AcceptsTaken
<1> HIDE DEF mine, m
<1>3. n \in Nat /\ DOMAIN mine = 1..n BY <1>2, LenProperties
<1> HIDE DEF n
<1>4. Marked(pool, {}) BY DEF Sound
<1>5. start \in S(0)
  <2>1. Owed(0) = requestsOf(mine) BY <1>3 DEF Range, requestsOf
  <2>2. Delivering(toRunner, m, c)
    <3>1. toRunner \in Frames /\ \A x \in Runner : toRunner[x] \in Seq(Down(x, c.issued)) BY DEF Delivering
    <3>2. ASSUME NEW x \in Runner PROVE Delivery(toRunner[x], m, x, c)
      <4>1. Delivery(toRunner[x], pool, x, c) BY DEF Delivering
      <4>2. \A t \in Task : <<"offeraccept", t>> \in Range(toRunner[x]) =>
              t \in c.quiet /\ t \notin Range(m.offers)
        BY <1>2, <4>1 DEF Delivery
      <4>3. ASSUME x \in c.live, NEW a \in Range(pool.accepts),
                   <<"offeraccept", a.task>> \in Range(toRunner[x])
            PROVE  a \in Range(m.accepts)
        <5>1. x # r BY <4>3
        <5>2. <<"offeraccept", a.task>> \in Down(x, c.issued)
          BY <3>1, <4>3, RangeInType
        <5>3. runnerOf(a.task) = x BY <5>2 DEF Down, runnerOf
        <5> QED BY <1>2, <4>3, <5>1, <5>3 DEF othersOf
      <4> QED BY <4>1, <4>2, <4>3, DeliveryKept
    <3> QED BY <3>1, <3>2 DEF Delivering
  <2>3. m \in Pools(c) /\ toRunner \in Frames BY <1>2, <2>2 DEF Sound, Delivering
  <2>4. Grows(start, start) BY DEF Grows
  <2>5. Sound(m, c, Owed(0)) BY <1>2, <2>1
  <2> HIDE DEF Owed
  <2> QED BY <2>2, <2>3, <2>4, <2>5 DEF Stage
<1>6. start.pool.requests = pool.requests BY <1>2
<1> HIDE DEF start
<1>7. ASSUME NEW i \in 1..n, NEW x \in S(i-1) PROVE step(x, i) \in S(i)
  <2> DEFINE q == mine[i].request
             before == Owed(i-1)
             left == Owed(i)
             p == release(x.pool, q)
             b == [pool |-> p, frames |-> x.frames]
  <2>1. /\ Sound(x.pool, c, before) /\ Delivering(x.frames, x.pool, c) /\ Grows(x, start)
    <3> HIDE DEF Owed
    <3> QED BY DEF Stage
  <2>2. q \in before BY <1>3
  <2>3. AllBut(x.pool, before, q, left)
    <3> SUFFICES ASSUME NEW y \in Range(pool.requests) PROVE y \in left <=> y \in before /\ y # q
      BY <1>6, <2>1 DEF Grows, AllBut
    <3>1. \A a, d \in Range(pool.accepts) : a.request = y /\ d.request = y => a = d
      BY <1>4 DEF Marked
    <3>2. \A j \in 1..n : mine[j] \in Range(pool.accepts) BY <1>2, <1>3 DEF Range
    <3>3. \A j \in i+1..n : mine[j].request = y => q # y
      <4> SUFFICES ASSUME NEW j \in i+1..n, mine[j].request = y, q = y PROVE FALSE OBVIOUS
      <4>1. j \in 1..n /\ j # i BY <1>3
      <4>2. mine[i] = mine[j] BY <3>1, <3>2, <4>1
      <4> QED BY <1>2, <1>3, <4>1, <4>2 DEF IsInjective
    <3>4. \A j : j \in (i-1)+1..n <=> j = i \/ j \in i+1..n BY <1>3
    <3> QED BY <3>3, <3>4
  <2> HIDE DEF q, before, left, Owed
  <2>4. /\ Sound(p, c, left) /\ p.offers = x.pool.offers /\ p.requests = x.pool.requests
        /\ p.accepts = x.pool.accepts
    <3>1. p = release(x.pool, q) OBVIOUS
    <3> HIDE DEF p
    <3> QED BY <2>1, <2>2, <2>3, <3>1, Released
  <2>5. step(x, i) = settleTasks(p, x.frames, lapsed, reachable) BY DEF q
  <2> HIDE DEF p, step
  <2>6. Delivering(x.frames, p, c) BY <2>1, <2>4, FewerOffersDelivery
  <2>7. step(x, i) \in Stage(c, left, b) BY <2>4, <2>5, <2>6, SettleTasks
  <2>8. Grows(b, start)
    <3>1. Grows(x, start) BY <2>1
    <3>2. b.pool = p /\ b.frames = x.frames OBVIOUS
    <3> HIDE DEF b
    <3> QED BY <2>4, <3>1, <3>2 DEF Grows
  <2> HIDE DEF b
  <2>9. step(x, i) \in Stage(c, left, start)
    <3>1. Grows(step(x, i), b) BY <2>7 DEF Stage
    <3>2. Grows(step(x, i), start) BY <2>8, <3>1, GrowsOn
    <3> QED BY <2>7, <3>2 DEF Stage
  <2> QED BY <2>9 DEF left
<1> HIDE DEF step
<1>8. \A i \in 0..n : S(i) \subseteq V BY DEF Stage
<1> HIDE DEF S, V
<1>9. \E f : Walk(f)
  <2>1. StepsLead(n, F, G)
    <3> SUFFICES ASSUME NEW i \in 1..n, NEW x \in G[i-1] PROVE F[i][x] \in G[i] BY DEF StepsLead
    <3>1. G[i-1] = S(i-1) /\ G[i] = S(i) BY <1>3
    <3> QED BY <1>7, <3>1
  <2>2. start \in G[0] /\ \A i \in 0..n : G[i] \subseteq V BY <1>3, <1>5, <1>8
  <2> HIDE DEF G, F, Walk
  <2>3. PICK f \in [0..n -> V] : FollowsSteps(f, n, start, F, G)
    BY <1>3, <2>1, <2>2, RecursionSolved
  <2>4. \A i \in 0..n : f[i] = IF i = 0 THEN start ELSE step(f[i-1], i)
    <3> SUFFICES ASSUME NEW i \in 0..n, i # 0 PROVE f[i] = step(f[i-1], i)
      BY <2>3 DEF FollowsSteps
    <3>1. i \in 1..n /\ i - 1 \in 0..n BY <1>3
    <3>2. f[i] = F[i][f[i-1]] BY <2>3, <3>1 DEF FollowsSteps
    <3>3. f[i-1] \in S(i-1)
      <4>1. f[i-1] \in G[i-1] BY <2>3, <3>1 DEF FollowsSteps
      <4> QED BY <3>1, <4>1 DEF G
    <3>4. F[i][f[i-1]] = step(f[i-1], i) BY <3>1, <3>3 DEF F
    <3> QED BY <3>2, <3>4
  <2>5. f = [i \in 0..n |-> f[i]] OBVIOUS
  <2>6. Walk(f) BY <2>4, <2>5 DEF Walk
  <2> QED BY <2>6
<1>10. Walk(all)
  <2> HIDE DEF Walk
  <2> QED BY <1>9 DEF all
<1>11. all[0] = start /\ \A i \in 1..n : all[i] = step(all[i-1], i)
  BY <1>3, <1>10
<1>12. \A i \in 0..n : all[i] \in G[i]
  <2>1. all[0] \in G[0] BY <1>3, <1>5, <1>11
  <2>2. \A i \in 1..n : all[i-1] \in G[i-1] => all[i] \in G[i]
    <3> SUFFICES ASSUME NEW i \in 1..n, all[i-1] \in G[i-1] PROVE all[i] \in G[i] OBVIOUS
    <3>1. G[i-1] = S(i-1) /\ G[i] = S(i) BY <1>3
    <3> QED BY <1>7, <1>11, <3>1
  <2> HIDE DEF G
  <2> QED BY <1>3, <2>1, <2>2, HandedOn
<1>13. all[n] \in S(n) BY <1>3, <1>12
<1>14. Owed(n) = {} BY <1>3
<1>15. all[n] \in Stage(c, {}, start) BY <1>13, <1>14 DEF S
<1> QED BY <1>1, <1>2, <1>15 DEF start

-----------------------------------------------------------------------------
\* Steps in general.

\* The context of a state.
LEMMA CtxFields ==
  /\ Ctx.offerable = Offerable /\ Ctx.acceptable = Acceptable /\ Ctx.asked = AskedFor
  /\ Ctx.issued = Issued /\ Ctx.quiet = Quiet /\ Ctx.live = Live /\ Context(Ctx)
BY DEF Ctx, Context, Offerable, Acceptable, Issued

\* And of the next one.
LEMMA CtxFieldsNext ==
  /\ Ctx'.offerable = Offerable' /\ Ctx'.acceptable = Acceptable' /\ Ctx'.asked = AskedFor'
  /\ Ctx'.issued = Issued' /\ Ctx'.quiet = Quiet' /\ Ctx'.live = Live' /\ Context(Ctx')
<1>1. (/\ Ctx.offerable = Offerable /\ Ctx.acceptable = Acceptable /\ Ctx.asked = AskedFor
       /\ Ctx.issued = Issued /\ Ctx.quiet = Quiet /\ Ctx.live = Live /\ Context(Ctx))'
  BY CtxFields, PTL
<1> QED BY <1>1

\* A task's runner.
LEMMA TaskRunner == \A t \in Task : t[1] \in Runner /\ t[2] \in 1..MaxOffers /\ runnerOf(t) = t[1]
BY DEF Task, runnerOf

\* d is the context of the next state, and pool p and frames g are in order in it.
Seen(d, p, g) == /\ d = Ctx' /\ Context(d) /\ Sound(p, d, {}) /\ Delivering(g, p, d)
                 /\ d.offerable = Offerable' /\ d.acceptable = Acceptable' /\ d.asked = AskedFor'
                 /\ d.issued = Issued' /\ d.quiet = Quiet' /\ d.live = Live'

\* The queues of g carry no acceptance, or are those of f without an acceptance of T's.
Passed(g, f, T) ==
  \A r \in Runner :
    /\ g[r] \in Seq(Down(r, Issued'))
    /\ \/ \A t \in Task : <<"offeraccept", t>> \notin Range(g[r])
       \/ /\ g[r] = f[r] /\ (r \in Live' => r \in Live)
          /\ \A t \in T : <<"offeraccept", t>> \notin Range(g[r])

\* Pool and frames seen from the next state: p and f are where this one leaves them, the
\* tasks of T have had something come of them, the ones of N are on offer or tracked now.
LEMMA Transfer ==
  ASSUME NEW p, NEW f, Sound(p, Ctx, {}), Delivering(f, p, Ctx), NEW T, NEW N,
         Quiet \ T \subseteq Quiet', Acceptable \ N \subseteq Acceptable',
         Issued \subseteq Issued', AskedFor \subseteq AskedFor',
         Range(p.offers) \cap (T \cup N) = {}, \A a \in Range(p.accepts) : a.task \notin N,
         NEW g \in Frames, Passed(g, f, T)
  PROVE  \E d : Seen(d, p, g)
<1>1. PICK d : d = Ctx' OBVIOUS
<1>2. /\ d.offerable = Offerable' /\ d.acceptable = Acceptable' /\ d.asked = AskedFor'
      /\ d.issued = Issued' /\ d.quiet = Quiet' /\ d.live = Live' /\ Context(d)
  BY <1>1, CtxFieldsNext
<1> DEFINE c == Ctx
<1>3. /\ c.offerable \ (T \cup N) \subseteq d.offerable /\ c.acceptable \ N \subseteq d.acceptable
      /\ c.asked \subseteq d.asked /\ c.quiet \ T \subseteq d.quiet /\ c.live = Live
  BY <1>2, CtxFields DEF Offerable
<1>4. Sound(p, c, {}) /\ Delivering(f, p, c) OBVIOUS
<1> HIDE DEF c
<1>5. Sound(p, d, {})
  <2>1. p \in Pools(c) BY <1>4 DEF Sound
  <2>2. Range(p.offers) \subseteq c.offerable /\ \A a \in Range(p.accepts) : a.task \in c.acceptable
    BY <2>1, PoolFields
  <2>3. Range(p.offers) \subseteq d.offerable /\ \A a \in Range(p.accepts) : a.task \in d.acceptable
    BY <1>3, <2>2
  <2> QED BY <1>3, <1>4, <2>3, SoundElsewhere
<1>6. ASSUME NEW r \in Runner PROVE Delivery(g[r], p, r, d)
  <2>1. CASE \A t \in Task : <<"offeraccept", t>> \notin Range(g[r])
    <3>1. OnceIn(g[r], {"offeraccept"} \X Task)
      <4>1. \A i \in DOMAIN g[r] : g[r][i] \notin {"offeraccept"} \X Task BY <2>1 DEF Range
      <4> QED BY <4>1 DEF OnceIn
    <3> QED BY <2>1, <3>1 DEF Delivery
  <2>2. CASE /\ g[r] = f[r] /\ (r \in Live' => r \in Live)
             /\ \A t \in T : <<"offeraccept", t>> \notin Range(g[r])
    <3>1. Delivery(g[r], p, r, c) BY <1>4, <2>2 DEF Delivering
    <3>2. \A t \in Task : <<"offeraccept", t>> \in Range(g[r]) =>
            t \in d.quiet /\ t \notin Range(p.offers)
      BY <1>3, <2>2, <3>1 DEF Delivery
    <3>3. r \in d.live => r \in c.live BY <1>2, <1>3, <2>2
    <3> QED BY <3>1, <3>2, <3>3, DeliveryKept
  <2> QED BY <2>1, <2>2 DEF Passed
<1>7. Delivering(g, p, d) BY <1>2, <1>6 DEF Delivering, Passed
<1> QED BY <1>1, <1>2, <1>5, <1>7 DEF Seen

\* A task that the step brings no further.
Undisturbed(t) ==
  /\ Offering(t)' => Offering(t)
  /\ Held(t)' => Held(t)
  /\ Replied(t)' => Replied(t)
  /\ Ended(t)' => Ended(t)
  /\ Offering(t) /\ t \in DOMAIN tasks' => t \in DOMAIN tasks
  /\ t \in proc'[t[1]].openOffers =>
       t \in proc[t[1]].openOffers /\ (proc[t[1]].draining => proc'[t[1]].draining)

\* Its stages stay apart.
LEMMA StageKept == ASSUME NEW t, Undisturbed(t), Staged(t) PROVE Staged(t)'
<1>1. Offering(t)' => t \notin DOMAIN tasks' /\ ~Held(t)' /\ ~Replied(t)'
  BY DEF Undisturbed, Staged
<1>2. ASSUME Ended(t)' PROVE ~Held(t)' /\ (t \in proc'[t[1]].openOffers => proc'[t[1]].draining)
  BY <1>2 DEF Undisturbed, Staged
<1> QED BY <1>1, <1>2 DEF Staged

\* The queues of frames to the broker lose their heads, or all they hold.
Drops(r) == \/ toBroker'[r] = toBroker[r] \/ toBroker'[r] = <<>>
            \/ toBroker[r] # <<>> /\ toBroker'[r] = Tail(toBroker[r])

\* A step that offers and takes no new task.
Calm ==
  /\ offered' = offered /\ \A t \in DOMAIN tasks' : Offering(t) => t \in DOMAIN tasks
  /\ DOMAIN toBroker' = Runner /\ proc' \in [Runner -> Proc]
  /\ \A r \in Runner :
       /\ Drops(r)
       /\ DOMAIN proc'[r].running \subseteq DOMAIN proc[r].running
       /\ proc'[r].openOffers \subseteq proc[r].openOffers
       /\ proc[r].draining => proc'[r].draining \/ proc'[r].openOffers = {}

\* It leaves the queues to the broker in order.
LEMMA CalmQueues ==
  ASSUME Calm, UpQueues
  PROVE  UpQueues' /\ \A r \in Runner : Range(toBroker'[r]) \subseteq Range(toBroker[r])
<1>1. Issued' = Issued BY DEF Calm, Issued
<1>2. ASSUME NEW r \in Runner
      PROVE  /\ toBroker'[r] \in Seq(Up(r, Issued')) /\ OnceIn(toBroker'[r], {"offer"} \X Task)
             /\ Range(toBroker'[r]) \subseteq Range(toBroker[r])
  <2> DEFINE S == Up(r, Issued')
             K == {"offer"} \X Task
             s == toBroker[r]
             t == toBroker'[r]
  <2>1. s \in Seq(S) /\ OnceIn(s, K) BY <1>1 DEF UpQueues
  <2>2. t = s \/ t = <<>> \/ (s # <<>> /\ t = Tail(s)) BY DEF Calm, Drops
  <2> HIDE DEF S, K, s, t
  <2>3. t \in Seq(S) /\ OnceIn(t, K) /\ Range(t) \subseteq Range(s)
    <3>1. CASE t = s BY <2>1, <3>1
    <3>2. CASE t = <<>> BY <3>2, NoFrames
    <3>3. CASE s # <<>> /\ t = Tail(s) BY <2>1, <3>3, Dequeued
    <3> QED BY <2>2, <3>1, <3>2, <3>3
  <2> QED BY <2>3 DEF S, K, s, t
<1>3. DOMAIN toBroker' = Runner BY DEF Calm
<1> QED BY <1>2, <1>3 DEF UpQueues

\* No task gets any further in it.
LEMMA CalmTasks ==
  ASSUME Calm, UpQueues
  PROVE  /\ \A t \in Task : Undisturbed(t)
         /\ Issued' = Issued /\ Quiet \subseteq Quiet'
         /\ Acceptable \ DOMAIN tasks' \subseteq Acceptable'
<1>1. ASSUME NEW t \in Task PROVE Undisturbed(t)
  <2>1. t[1] \in Runner BY TaskRunner
  <2>2. Range(toBroker'[t[1]]) \subseteq Range(toBroker[t[1]]) BY <2>1, CalmQueues
  <2>3. Offering(t)' => Offering(t) BY <2>2 DEF Offering
  <2>4. Held(t)' => Held(t) BY <2>1 DEF Held, Calm
  <2>5. Replied(t)' => Replied(t) BY <2>2 DEF Replied
  <2>6. Ended(t)' => Ended(t) BY <2>2 DEF Ended
  <2>7. Offering(t) /\ t \in DOMAIN tasks' => t \in DOMAIN tasks BY DEF Calm
  <2>8. t \in proc'[t[1]].openOffers =>
          t \in proc[t[1]].openOffers /\ (proc[t[1]].draining => proc'[t[1]].draining)
    BY <2>1 DEF Calm
  <2> QED BY <2>3, <2>4, <2>5, <2>6, <2>7, <2>8 DEF Undisturbed
<1>2. Issued' = Issued BY DEF Calm, Issued
<1>3. Quiet \subseteq Quiet' BY <1>1 DEF Quiet, Undisturbed
<1>4. Acceptable \ DOMAIN tasks' \subseteq Acceptable'
  <2>1. Issued \subseteq Task BY DEF Issued
  <2> QED BY <1>1, <1>2, <2>1 DEF Acceptable, Undisturbed
<1> QED BY <1>1, <1>2, <1>3, <1>4

\* The tasks of one runner are finitely many.
LEMMA FiniteSlots ==
  ASSUME NEW r \in Runner, NEW S, S \subseteq {t \in Task : t[1] = r}
  PROVE  IsFiniteSet(S) /\ Cardinality(S) \in Nat
<1> DEFINE all == {t \in Task : t[1] = r}
           f == [i \in 1..MaxOffers |-> <<r, i>>]
<1>1. MaxOffers \in Nat BY BrokerAssumption
<1>2. IsFiniteSet(1..MaxOffers) BY <1>1, FS_Interval
<1>3. f \in Surjection(1..MaxOffers, all)
  <2>1. f \in [1..MaxOffers -> all] BY DEF Task
  <2>2. ASSUME NEW t \in all PROVE \E i \in 1..MaxOffers : f[i] = t
    <3>1. t[2] \in 1..MaxOffers /\ t = <<r, t[2]>> BY DEF Task
    <3> QED BY <3>1
  <2> HIDE DEF f, all
  <2> QED BY <2>1, <2>2 DEF Surjection
<1> HIDE DEF f, all
<1>4. IsFiniteSet(all) BY <1>2, <1>3, FS_Surjection
<1>5. IsFiniteSet(S) BY <1>4, FS_Subset DEF all
<1> QED BY <1>5, FS_CardinalityType

\* Removals that go on.
LEMMA RemovingKept ==
  ASSUME Calm, UpQueues, NEW m, Removing(m), m.rejoin => conn'[m.runner] = "none"
  PROVE  Removing(m)'
<1>1. m \in Removal /\ m.tasks \subseteq Issued' BY CalmTasks DEF Removing
<1>2. ASSUME NEW t \in m.tasks PROVE ~Held(t)' /\ t \notin proc'[t[1]].openOffers
  <2>1. t \in Task BY DEF Removing, Issued
  <2>2. ~Held(t) /\ t \notin proc[t[1]].openOffers BY DEF Removing
  <2> QED BY <2>1, <2>2, CalmTasks DEF Undisturbed
<1> QED BY <1>1, <1>2 DEF Removing

\* They do when no more are started and no connection is made.
LEMMA RemovalsKept ==
  ASSUME RemovalsOK, Calm, UpQueues, removals' \subseteq removals, conn' = conn PROVE RemovalsOK'
<1>1. \A m \in removals' : Removing(m)' BY RemovingKept DEF RemovalsOK, Removing
<1> QED BY <1>1 DEF RemovalsOK

\* The tasks that the runners hold stay accounted for.
LEMMA SlotsKept ==
  ASSUME SlotsOK, Calm, UpQueues,
         \A t \in Task : Mode = "external" /\ conn'[t[1]] = "open" /\ Held(t)' =>
           conn[t[1]] = "open" /\ (Accounted(t) => Accounted(t)')
  PROVE  SlotsOK'
<1> SUFFICES ASSUME Mode = "external", NEW t \in Task, conn'[t[1]] = "open", Held(t)'
             PROVE  Accounted(t)'
  BY DEF SlotsOK
<1>1. Held(t) BY CalmTasks DEF Undisturbed
<1> QED BY <1>1 DEF SlotsOK

\* What is left to show of a step that gets no task any further.
LEMMA CalmStep ==
  ASSUME IInv, Calm, ShapesOK', SyncOK', PoolOK', DownOK', RemovalsOK', SlotsOK',
         \A r \in Runner : conn'[r] = "none" => Unplugged(r)'
  PROVE  IInv'
<1>1. UpQueues /\ UpStages /\ ProcOK BY DEF IInv, UpOK
<1>2. UpOK'
  <2>1. \A t \in Task : Staged(t)' BY <1>1, CalmTasks, StageKept DEF UpStages
  <2>2. UpQueues' BY <1>1, CalmQueues
  <2> QED BY <2>1, <2>2 DEF UpOK, UpStages
<1>3. ASSUME NEW r \in Runner PROVE Slots(r)'
  <2> DEFINE R == DOMAIN proc[r].running
             Q == DOMAIN proc'[r].running
             I == {t \in Issued : t[1] = r}
  <2>1. /\ R \subseteq I /\ proc[r].openOffers \subseteq I /\ R \cap proc[r].openOffers = {}
        /\ Cardinality(R) <= MaxConcurrency
    BY <1>1 DEF ProcOK, Slots
  <2>2. Q \subseteq R /\ proc'[r].openOffers \subseteq proc[r].openOffers /\ Issued' = Issued
    BY <1>1, CalmTasks DEF Calm
  <2>3. IsFiniteSet(R) /\ Cardinality(R) \in Nat
    <3>1. R \subseteq {t \in Task : t[1] = r} BY <2>1 DEF Issued
    <3> HIDE DEF R
    <3> QED BY <3>1, FiniteSlots
  <2>4. Cardinality(Q) \in Nat /\ Cardinality(Q) <= Cardinality(R)
    <3> HIDE DEF Q, R
    <3> QED BY <2>2, <2>3, FS_Subset, FS_CardinalityType
  <2>5. Cardinality(Q) <= MaxConcurrency BY <2>1, <2>3, <2>4, BrokerAssumption
  <2> QED BY <2>1, <2>2, <2>5 DEF Slots
<1>4. ProcOK' BY <1>3 DEF ProcOK, Calm
<1> QED BY <1>2, <1>4 DEF IInv

\* A process that has just connected, or that is gone.
LEMMA EmptyProcs ==
  /\ NoProc \in Proc /\ DOMAIN NoProc.running = {} /\ NoProc.openOffers = {} /\ ~NoProc.offering
  /\ \A l \in BOOLEAN : /\ NewProc(l) \in Proc /\ DOMAIN NewProc(l).running = {}
                        /\ NewProc(l).openOffers = {} /\ ~NewProc(l).offering
<1> DEFINE none == [t \in {} |-> ""]
<1>1. none \in Runs
  <2>1. none \in [{} -> Status] OBVIOUS
  <2> QED BY <2>1 DEF Runs
<1>2. DOMAIN none = {} OBVIOUS
<1>3. NoProc = [alive |-> FALSE, launcher |-> FALSE, offering |-> FALSE, draining |-> FALSE,
                openOffers |-> {}, running |-> none]
  BY DEF NoProc
<1> HIDE DEF none
<1>4. /\ NoProc \in Proc /\ DOMAIN NoProc.running = {} /\ NoProc.openOffers = {} /\ ~NoProc.offering
  BY <1>1, <1>2, <1>3 DEF Proc
<1>5. ASSUME NEW l \in BOOLEAN
      PROVE  /\ NewProc(l) \in Proc /\ DOMAIN NewProc(l).running = {}
             /\ NewProc(l).openOffers = {} /\ ~NewProc(l).offering
  <2> DEFINE m == [NoProc EXCEPT !.alive = TRUE, !.launcher = l]
  <2>1. /\ m \in Proc /\ m.running = NoProc.running /\ m.openOffers = NoProc.openOffers
        /\ m.offering = NoProc.offering
    BY <1>4 DEF Proc
  <2>2. NewProc(l) = m BY DEF NewProc
  <2> HIDE DEF m
  <2> QED BY <1>4, <2>1, <2>2
<1> QED BY <1>4, <1>5

\* removeConnection, for the runners of S.
LEMMA Disconnected ==
  ASSUME IInv, NEW S \in SUBSET Runner, removeConnections(S), tasks' = tasks, offered' = offered
  PROVE  /\ Calm /\ RemovalsOK' /\ conn' \in [Runner -> {"none", "open", "dead"}]
         /\ \A r \in S : /\ conn'[r] = "none" /\ DOMAIN proc'[r].running = {}
                         /\ proc'[r].openOffers = {} /\ ~proc'[r].offering
         /\ \A r \in Runner \ S : conn'[r] = conn[r] /\ proc'[r] = proc[r]
<1>1. /\ proc \in [Runner -> Proc] /\ conn \in [Runner -> {"none", "open", "dead"}]
      /\ session \in [Runner -> 0..MaxSessions] /\ DOMAIN tasks \subseteq Issued
      /\ UpQueues /\ RemovalsOK
  BY DEF IInv, ProcOK, ShapesOK, UpOK
<1>2. /\ conn' \in [Runner -> {"none", "open", "dead"}]
      /\ \A r \in S : conn'[r] = "none"
      /\ \A r \in Runner \ S : conn'[r] = conn[r]
  BY <1>1 DEF removeConnections, cut
<1>3. /\ proc' \in [Runner -> Proc]
      /\ \A r \in S : proc'[r] = NoProc
      /\ \A r \in Runner \ S : proc'[r] = proc[r]
  BY <1>1, EmptyProcs DEF removeConnections, cut
<1>4. \A r \in S : DOMAIN proc'[r].running = {} /\ proc'[r].openOffers = {} /\ ~proc'[r].offering
  BY <1>3, EmptyProcs
<1>5. DOMAIN toBroker' = Runner /\ \A r \in Runner : Drops(r)
  BY DEF removeConnections, cut, Drops
<1>6. Calm BY <1>3, <1>4, <1>5 DEF Calm
<1>7. ASSUME NEW m \in removing(S) PROVE Removing(m)' /\ m.rejoin = FALSE
  <2>1. PICK r \in S : m = [runner |-> r, session |-> session[r], tasks |-> getInFlightTaskIds(r),
                            rejoin |-> FALSE]
    BY DEF removing
  <2> DEFINE I == getInFlightTaskIds(r)
  <2>2. I \subseteq Issued /\ \A t \in I : t \in Task /\ t[1] = r
    BY <1>1, TaskRunner DEF getInFlightTaskIds, Issued
  <2>3. I \in SUBSET Task BY <2>2
  <2> HIDE DEF I
  <2>4. m \in Removal /\ m.tasks = I /\ m.rejoin = FALSE
    <3>1. m = [runner |-> r, session |-> session[r], tasks |-> I, rejoin |-> FALSE] BY <2>1 DEF I
    <3> QED BY <1>1, <2>3, <3>1 DEF Removal
  <2>5. \A t \in I : ~Held(t)' /\ t \notin proc'[t[1]].openOffers BY <1>4, <2>2 DEF Held
  <2>6. Issued' = Issued BY <1>1, <1>6, CalmTasks
  <2> QED BY <2>2, <2>4, <2>5, <2>6 DEF Removing
<1>8. ASSUME NEW m \in removals PROVE Removing(m)'
  <2>1. Removing(m) BY <1>1 DEF RemovalsOK
  <2>2. m.rejoin => conn'[m.runner] = "none"
    <3>1. m.runner \in Runner BY <2>1 DEF Removing, Removal
    <3> QED BY <1>2, <2>1, <3>1 DEF Removing
  <2> QED BY <1>1, <1>6, <2>1, <2>2, RemovingKept
<1>9. RemovalsOK'
  <2>1. removals' = removals \cup removing(S) BY DEF removeConnections
  <2>2. \A m \in removals' : Removing(m)' BY <1>7, <1>8, <2>1
  <2>3. \A m, n \in removals' : m.rejoin /\ n.rejoin /\ m.runner = n.runner => m = n
    BY <1>1, <1>7, <2>1 DEF RemovalsOK
  <2> QED BY <2>2, <2>3 DEF RemovalsOK
<1> QED BY <1>2, <1>3, <1>4, <1>6, <1>9

\* Some queues to the runners are cut, or begin anew; the others stay.
Reset(g, f) ==
  /\ g = [r \in Runner |-> g[r]]
  /\ \A r \in Runner : \/ g[r] = <<>> \/ g[r] = <<<<"registered", NoTask>>>>
                       \/ g[r] = f[r] /\ (r \in Live' => r \in Live)

\* Pool and frames seen from the state after a calm step.
LEMMA CalmContext ==
  ASSUME Calm, UpQueues, AskedFor \subseteq AskedFor', DOMAIN tasks' \subseteq DOMAIN tasks,
         NEW p, NEW f, Sound(p, Ctx, {}), Delivering(f, p, Ctx), NEW g, Reset(g, f)
  PROVE  \E d : Seen(d, p, g)
<1>1. Quiet \ {} \subseteq Quiet' /\ Acceptable \ {} \subseteq Acceptable' /\ Issued' = Issued
  BY CalmTasks DEF Acceptable
<1>2. f \in Frames /\ \A r \in Runner : f[r] \in Seq(Down(r, Issued'))
  BY <1>1, CtxFields DEF Delivering
<1> DEFINE F == {"offeraccept", "settings", "cancel", "registered", "drain"} \X (Task \cup {NoTask})
           frame == <<"registered", NoTask>>
<1>3. /\ frame \in F /\ \A r : frame \in Down(r, Issued')
      /\ \A t : frame # <<"offeraccept", t>>
  BY DEF Down
<1>4. f \in [Runner -> Seq(F)] BY <1>2 DEF Frames
<1> HIDE DEF F, frame
<1>5. ASSUME NEW r \in Runner
      PROVE  /\ g[r] \in Seq(F) /\ g[r] \in Seq(Down(r, Issued'))
             /\ \/ \A t \in Task : <<"offeraccept", t>> \notin Range(g[r])
                \/ g[r] = f[r] /\ (r \in Live' => r \in Live)
  <2>1. CASE g[r] = <<>> BY <2>1, NoFrames
  <2>2. CASE g[r] = <<frame>>
    <3>1. g[r] \in Seq(F) /\ Range(g[r]) = {frame} BY <1>3, <2>2, OneFrame
    <3> DEFINE D == Down(r, Issued')
    <3>2. frame \in D BY <1>3
    <3> HIDE DEF D
    <3>3. g[r] \in Seq(D) BY <2>2, <3>2, OneFrame
    <3> QED BY <1>3, <3>1, <3>3 DEF D
  <2>3. CASE g[r] = f[r] /\ (r \in Live' => r \in Live) BY <1>2, <1>4, <2>3
  <2> QED BY <2>1, <2>2, <2>3 DEF Reset, frame
<1>6. g \in Frames
  <2>1. g = [r \in Runner |-> g[r]] BY DEF Reset
  <2>2. g \in [Runner -> Seq(F)] BY <1>5, <2>1
  <2> QED BY <2>2 DEF Frames, F
<1>7. PICK T : T = {} OBVIOUS
<1>8. /\ Quiet \ T \subseteq Quiet' /\ Acceptable \ T \subseteq Acceptable'
      /\ Issued \subseteq Issued' /\ Range(p.offers) \cap (T \cup T) = {}
      /\ \A a \in Range(p.accepts) : a.task \notin T
  BY <1>1, <1>7
<1>9. Passed(g, f, T) BY <1>5, <1>7 DEF Passed
<1> QED BY <1>6, <1>8, <1>9, Transfer

\* The frames of g are those of f and others of the kinds in K.
Gains(g, f, K) ==
  \A r \in Runner : /\ Range(f[r]) \subseteq Range(g[r])
                    /\ \A x \in Range(g[r]) : x \in Range(f[r]) \/ x[1] \in K

\* What settling comes to.
LEMMA SettleNext ==
  ASSUME NEW d, d = Ctx', Context(d), NEW p, Sound(p, d, {}), NEW frames, Delivering(frames, p, d),
         NEW reachable, Settle(p, frames, reachable)
  PROVE  /\ PoolOK' /\ DownOK' /\ pool'.requests = p.requests
         /\ Range(p.accepts) \subseteq Range(pool'.accepts)
         /\ Gains(toRunner', frames, {"offeraccept"})
<1>1. PICK lapsed : pool' = settleTasks(p, frames, lapsed, reachable).pool
                    /\ toRunner' = settleTasks(p, frames, lapsed, reachable).frames
  BY DEF Settle
<1> DEFINE b == [pool |-> p, frames |-> frames]
           s == settleTasks(p, frames, lapsed, reachable)
<1>2. s \in Stage(d, {}, b) BY SettleTasks
<1> HIDE DEF b, s
<1>3. Sound(s.pool, d, {}) /\ Delivering(s.frames, s.pool, d) /\ Grows(s, b) BY <1>2 DEF Stage
<1>4. s.pool = pool' /\ s.frames = toRunner' BY <1>1 DEF s
<1>5. Sound(pool', d, {}) /\ Delivering(toRunner', pool', d) BY <1>3, <1>4
<1>6. b.pool = p /\ b.frames = frames BY DEF b
<1>7. /\ pool'.requests = p.requests /\ Range(p.accepts) \subseteq Range(pool'.accepts)
      /\ Gains(toRunner', frames, {"offeraccept"})
  BY <1>3, <1>4, <1>6 DEF Grows, Gains
<1>8. PoolOK' BY <1>5 DEF PoolOK
<1>9. DownOK' BY <1>5 DEF DownOK
<1> QED BY <1>7, <1>8, <1>9

\* An acceptance is over; if the runner may still get it, a cancellation follows.
LEMMA Forgotten ==
  ASSUME NEW c, NEW p, NEW n, NEW frames, Delivering(frames, p, c), NEW a,
         Range(n.offers) \subseteq Range(p.offers),
         Range(p.accepts) \ {a} \subseteq Range(n.accepts),
         \A r \in Runner : r \in c.live /\ <<"offeraccept", a.task>> \in Range(frames[r]) =>
           FollowedBy(frames[r], <<"offeraccept", a.task>>, <<"cancel", a.task>>)
  PROVE  Delivering(frames, n, c)
<1> SUFFICES ASSUME NEW r \in Runner PROVE Delivery(frames[r], n, r, c) BY DEF Delivering
<1>1. Delivery(frames[r], p, r, c) BY DEF Delivering
<1>2. ASSUME NEW t \in Task, <<"offeraccept", t>> \in Range(frames[r]), r \in c.live
      PROVE  Sequel(t, frames[r], n)
  <2>1. Sequel(t, frames[r], p) BY <1>1, <1>2 DEF Delivery
  <2>2. CASE \E b \in Range(p.accepts) : b.task = t
    <3>1. PICK b \in Range(p.accepts) : b.task = t BY <2>2
    <3>2. CASE b = a BY <1>2, <3>1, <3>2 DEF Sequel
    <3>3. CASE b # a BY <3>1, <3>3 DEF Sequel
    <3> QED BY <3>2, <3>3
  <2>3. CASE FollowedBy(frames[r], <<"offeraccept", t>>, <<"cancel", t>>) BY <2>3 DEF Sequel
  <2> QED BY <2>1, <2>2, <2>3 DEF Sequel
<1> QED BY <1>1, <1>2 DEF Delivery

\* A message to a runner.
LEMMA Told ==
  ASSUME NEW c, NEW p, NEW frames, Delivering(frames, p, c), NEW r \in Runner,
         NEW f \in Down(r, c.issued), c.issued \subseteq Task, f[1] # "offeraccept",
         NEW g, g = messageRunner(frames, r, f)
  PROVE  /\ Delivering(g, p, c) /\ Gains(g, frames, {f[1]})
         /\ isRunnerReachable(r) => /\ f \in Range(g[r])
                                    /\ \A x : f # x => FollowedBy(g[r], x, f)
<1>1. CASE ~isRunnerReachable(r)
  <2>1. g = frames BY <1>1 DEF messageRunner
  <2> QED BY <1>1, <2>1 DEF Gains
<1>2. CASE isRunnerReachable(r)
  <2> DEFINE F == {"offeraccept", "settings", "cancel", "registered", "drain"}
                    \X (Task \cup {NoTask})
             D == Down(r, c.issued)
             s == frames[r]
             n == Append(s, f)
  <2>1. f \in F BY DEF Down
  <2>2. frames \in [Runner -> Seq(F)] /\ s \in Seq(F) BY DEF Delivering, Frames
  <2>3. s \in Seq(D) /\ f \in D /\ Delivery(s, p, r, c) BY DEF Delivering
  <2>4. g = [frames EXCEPT ![r] = n] BY <1>2 DEF messageRunner
  <2> HIDE DEF F, D, s
  <2>5. /\ n \in Seq(D) /\ Range(n) = Range(s) \cup {f}
        /\ \A x : f # x => FollowedBy(n, x, f)
    BY <2>3, Enqueued
  <2>6. n \in Seq(F) BY <2>1, <2>2, Enqueued
  <2>7. Delivery(n, p, r, c) BY <2>3, DeliverySent
  <2> HIDE DEF n
  <2>8. g \in [Runner -> Seq(F)] /\ g[r] = n /\ \A x \in Runner \ {r} : g[x] = frames[x]
    BY <2>2, <2>4, <2>6
  <2>9. g \in Frames BY <2>8 DEF Frames, F
  <2>10. \A x \in Runner : g[x] \in Seq(Down(x, c.issued)) /\ Delivery(g[x], p, x, c)
    <3> SUFFICES ASSUME NEW x \in Runner
                 PROVE  g[x] \in Seq(Down(x, c.issued)) /\ Delivery(g[x], p, x, c)
      OBVIOUS
    <3>1. CASE x = r BY <2>5, <2>7, <2>8, <3>1 DEF D
    <3>2. CASE x # r BY <2>8, <3>2 DEF Delivering
    <3> QED BY <3>1, <3>2
  <2>11. Delivering(g, p, c) BY <2>9, <2>10 DEF Delivering
  <2>12. Gains(g, frames, {f[1]})
    <3> SUFFICES ASSUME NEW x \in Runner
                 PROVE  /\ Range(frames[x]) \subseteq Range(g[x])
                        /\ \A y \in Range(g[x]) : y \in Range(frames[x]) \/ y[1] \in {f[1]}
      BY DEF Gains
    <3>1. CASE x = r BY <2>5, <2>8, <3>1 DEF s
    <3>2. CASE x # r BY <2>8, <3>2
    <3> QED BY <3>1, <3>2
  <2> QED BY <2>5, <2>8, <2>11, <2>12
<1> QED BY <1>1, <1>2

\* The runners that can be reached.
LEMMA Reachable ==
  ASSUME ShapesOK, NEW r \in Runner
  PROVE  /\ isRunnerReachable(r) <=> r \in Live
         /\ r \in Live <=> conn[r] = "open"
BY DEF ShapesOK, isRunnerReachable, Live

\* What is left to show of a step that changes neither runners nor connections.
LEMMA SteadyStep ==
  ASSUME IInv, Calm, UNCHANGED <<conn, proc>>, removals' \subseteq removals,
         ShapesOK', SyncOK', PoolOK', DownOK',
         NEW K, Gains(toRunner', toRunner, K), "registered" \notin K,
         \A t \in Task : /\ Mode = "external" /\ conn[t[1]] = "open" /\ Held(t)
                         /\ t \in DOMAIN tasks \/ \E a \in Range(pool.accepts) : a.task = t
                         => Accounted(t)'
  PROVE  IInv'
<1>1. UpQueues /\ ProcOK /\ RemovalsOK /\ SlotsOK BY DEF IInv, UpOK
<1>2. RemovalsOK' BY <1>1, RemovalsKept
<1>3. ASSUME NEW r \in Runner, conn'[r] = "none" PROVE Unplugged(r)'
  <2>1. Unplugged(r) BY <1>1, <1>3 DEF ProcOK
  <2> QED BY <2>1 DEF Unplugged, Gains
<1>4. SlotsOK'
  <2>1. ASSUME NEW t \in Task, Mode = "external", conn'[t[1]] = "open", Held(t)', Accounted(t)
        PROVE  Accounted(t)'
    <3>1. Held(t) /\ conn[t[1]] = "open" /\ t[1] \in Runner BY <2>1, TaskRunner DEF Held
    <3>2. CASE t \in DOMAIN tasks \/ \E a \in Range(pool.accepts) : a.task = t
      BY <2>1, <3>1, <3>2
    <3>3. CASE <<"cancel", t>> \in Range(toRunner[t[1]]) BY <3>1, <3>3 DEF Accounted, Gains
    <3>4. CASE proc[t[1]].running[t] \in {"aborting:cancelled", "aborting:timeout"}
      BY <3>4 DEF Accounted
    <3> QED BY <2>1, <3>2, <3>3, <3>4 DEF Accounted
  <2> QED BY <1>1, <2>1, SlotsKept
<1> QED BY <1>2, <1>3, <1>4, CalmStep

\* Pool and frames seen from the state after a step that changes no connection.
LEMMA SteadyContext ==
  ASSUME IInv, Calm, AskedFor \subseteq AskedFor', conn' = conn,
         DOMAIN tasks' \subseteq DOMAIN tasks
  PROVE  \E d : Seen(d, pool, toRunner)
<1>1. UpQueues /\ Sound(pool, Ctx, {}) /\ Delivering(toRunner, pool, Ctx)
  BY DEF IInv, UpOK, PoolOK, DownOK
<1>2. toRunner \in Frames BY <1>1 DEF Delivering
<1>3. toRunner = [r \in Runner |-> toRunner[r]] BY <1>2 DEF Frames
<1>4. Live' = Live BY DEF Live
<1>5. Reset(toRunner, toRunner) BY <1>3, <1>4 DEF Reset
<1> QED BY <1>1, <1>5, CalmContext

\* Pool and frames of the next state.
LEMMA SeenNow ==
  ASSUME NEW d, d = Ctx', Sound(pool', d, {}), Delivering(toRunner', pool', d)
  PROVE  PoolOK' /\ DownOK'
<1>1. PoolOK' BY DEF PoolOK
<1>2. DownOK' BY DEF DownOK
<1> QED BY <1>1, <1>2

Final == {"done", "error", "expired", "cancelled"}

\* The requests of some tracked tasks are answered, and the tasks tracked no more.
LEMMA Answered ==
  ASSUME ShapesOK, SyncOK, NEW S, NEW st \in Final,
         requester' = answer(S, st), tasks' = untrack(tasks, S), pool'.requests = pool.requests
  PROVE  /\ requester' \in [Request -> [state : States, task : Task \cup {NoTask}]]
         /\ SyncOK' /\ AskedFor' = AskedFor
         /\ DOMAIN tasks' = DOMAIN tasks \ S /\ \A t \in DOMAIN tasks' : tasks'[t] = tasks[t]
<1>1. requester \in [Request -> [state : States, task : Task \cup {NoTask}]] BY DEF ShapesOK
<1>2. DOMAIN tasks' = DOMAIN tasks \ S /\ \A t \in DOMAIN tasks' : tasks'[t] = tasks[t]
  BY DEF untrack
<1> DEFINE Hit(q) == \E t \in S : t \in DOMAIN tasks /\ tasks[t] = q
<1>3. ASSUME NEW q \in Request
      PROVE  /\ requester'[q] \in [state : States, task : Task \cup {NoTask}]
             /\ Hit(q) => requester'[q].state = st /\ requester[q].state = "running"
             /\ ~Hit(q) => requester'[q] = requester[q]
  <2>1. requester'[q] = IF Hit(q) THEN [requester[q] EXCEPT !.state = st] ELSE requester[q]
    BY DEF answer
  <2>2. requester[q] \in [state : States, task : Task \cup {NoTask}] /\ st \in States
    BY <1>1 DEF States, Final
  <2>3. Hit(q) => requester[q].state = "running" BY DEF SyncOK
  <2> QED BY <2>1, <2>2, <2>3
<1>4. requester' \in [Request -> [state : States, task : Task \cup {NoTask}]]
  <2>1. requester' = [q \in Request |-> requester'[q]] BY DEF answer
  <2> HIDE DEF Hit
  <2> QED BY <1>3, <2>1
<1>5. \A q \in Request : requester'[q].state = "requested" <=> requester[q].state = "requested"
  BY <1>3 DEF Final
<1>6. AskedFor' = AskedFor BY <1>3 DEF AskedFor, Final
<1>7. ASSUME NEW t \in DOMAIN tasks'
      PROVE  requester'[tasks'[t]].state = "running" /\ requester'[tasks'[t]].task = t
  <2>1. tasks[t] \in Request /\ t \in DOMAIN tasks /\ t \notin S /\ tasks'[t] = tasks[t]
    BY <1>2 DEF ShapesOK
  <2>2. ~Hit(tasks[t]) BY <2>1 DEF SyncOK
  <2> HIDE DEF Hit
  <2> QED BY <1>3, <2>1, <2>2 DEF SyncOK
<1>8. ASSUME NEW q \in Request, requester'[q].state = "running"
      PROVE  requester'[q].task \in DOMAIN tasks' /\ tasks'[requester'[q].task] = q
  <2>1. ~Hit(q) BY <1>3, <1>8 DEF Final
  <2>2. requester'[q] = requester[q]
    <3> HIDE DEF Hit
    <3> QED BY <1>3, <2>1
  <2>3. requester[q].task \in DOMAIN tasks /\ tasks[requester[q].task] = q
    BY <1>8, <2>2 DEF SyncOK
  <2>4. requester[q].task \notin S BY <2>1, <2>3
  <2> QED BY <1>2, <2>2, <2>3, <2>4
<1>9. SyncOK' BY <1>5, <1>7, <1>8 DEF SyncOK
<1> QED BY <1>2, <1>4, <1>6, <1>9

\* The shapes after a step that changes no connection.
LEMMA SteadyShapes ==
  ASSUME ShapesOK, UNCHANGED <<known, conn, session, offered>>,
         requester' \in [Request -> [state : States, task : Task \cup {NoTask}]],
         DOMAIN tasks' \subseteq DOMAIN tasks, \A t \in DOMAIN tasks' : tasks'[t] = tasks[t],
         strikes' \in [Runner -> 0..MaxStrikes]
  PROVE  ShapesOK'
<1>1. Issued' = Issued BY DEF Issued
<1>2. DOMAIN tasks' \subseteq Issued' /\ \A t \in DOMAIN tasks' : tasks'[t] \in Request
  BY <1>1 DEF ShapesOK
<1> QED BY <1>2 DEF ShapesOK

\* A step that leaves runners and queues to the broker alone is calm.
LEMMA QuietStep ==
  ASSUME IInv, UNCHANGED <<proc, toBroker, offered>>,
         DOMAIN tasks' \subseteq DOMAIN tasks
  PROVE  Calm
<1>1. proc \in [Runner -> Proc] /\ DOMAIN toBroker = Runner
  BY DEF IInv, ProcOK, UpOK, UpQueues
<1> QED BY <1>1 DEF Calm, Drops

\* The broker takes a frame of runner r, about task t.
LEMMA Received ==
  ASSUME IInv, NEW r \in Runner, NEW kind \in {"offer"} \cup Replies, Receives(r, kind),
         UNCHANGED <<proc, offered>>
  PROVE  /\ Subject(r) \in Issued /\ Subject(r) \in Task /\ Subject(r)[1] = r
         /\ <<kind, Subject(r)>> \in Range(toBroker[r])
         /\ kind = "offer" => <<kind, Subject(r)>> \notin Range(toBroker'[r])
         /\ (\A t \in DOMAIN tasks' : Offering(t) => t \in DOMAIN tasks) => Calm
<1> DEFINE U == Up(r, Issued)
           K == {"offer"} \X Task
           s == toBroker[r]
           f == Head(s)
<1>1. /\ proc \in [Runner -> Proc] /\ DOMAIN toBroker = Runner /\ s \in Seq(U) /\ OnceIn(s, K)
  BY DEF IInv, ProcOK, UpOK, UpQueues
<1>2. s # <<>> /\ f[1] = kind /\ toBroker' = [toBroker EXCEPT ![r] = Tail(s)] BY DEF Receives
<1>3. toBroker'[r] = Tail(s) /\ \A x \in Runner \ {r} : toBroker'[x] = toBroker[x]
  BY <1>1, <1>2
<1>4. DOMAIN toBroker' = Runner BY <1>1, <1>2
<1>5. \A x \in Runner : Drops(x) BY <1>2, <1>3 DEF Drops
<1> HIDE DEF U, K, s
<1>6. f \in U /\ f \in Range(s) /\ (f \in K => f \notin Range(Tail(s))) BY <1>1, <1>2, Dequeued
<1>7. f = <<kind, f[2]>> /\ f[2] \in Issued /\ f[2][1] = r BY <1>2, <1>6 DEF U, Up
<1>8. f[2] \in Task BY <1>7 DEF Issued
<1>9. kind = "offer" => f \in K BY <1>7, <1>8 DEF K
<1>10. Subject(r) = f[2] BY DEF Subject, s
<1>11. (\A t \in DOMAIN tasks' : Offering(t) => t \in DOMAIN tasks) => Calm BY <1>1, <1>4, <1>5 DEF Calm
<1> HIDE DEF f
<1> QED BY <1>3, <1>6, <1>7, <1>8, <1>9, <1>10, <1>11 DEF s

-----------------------------------------------------------------------------
\* The broker's steps keep the invariant.

\* TaskRequested.
LEMMA TaskRequestedStep == ASSUME IInv, NEW q \in Request, TaskRequested(q) PROVE IInv'
<1>1. /\ requester[q].state = "none" /\ UNCHANGED <<tasks, strikes, known, conn, removals, session>>
      /\ UNCHANGED <<proc, toBroker, offered>>
  BY DEF TaskRequested, signs, links
<1>2. Calm BY <1>1, QuietStep
<1>3. ShapesOK /\ SyncOK BY DEF IInv
<1>4. requester \in [Request -> [state : States, task : Task \cup {NoTask}]] BY <1>3 DEF ShapesOK
<1>5. PICK st \in {"expired", "requested"} :
        /\ requester' = [requester EXCEPT ![q].state = st]
        /\ st = "expired" => UNCHANGED <<pool, toRunner>>
        /\ st = "requested" => Settle(moreRequests(pool, q), toRunner, ReachableRunners)
  BY DEF TaskRequested, moreRequests
<1>6. /\ requester' \in [Request -> [state : States, task : Task \cup {NoTask}]]
      /\ requester'[q].state = st
      /\ \A x \in Request \ {q} : requester'[x] = requester[x]
  BY <1>4, <1>5 DEF States
<1>7. q \notin AskedFor /\ q \in AskedFor' /\ AskedFor \subseteq AskedFor'
  BY <1>1, <1>6 DEF AskedFor
<1>8. PICK d : Seen(d, pool, toRunner) BY <1>1, <1>2, <1>7, SteadyContext
<1>9. /\ d = Ctx' /\ Context(d) /\ Sound(pool, d, {}) /\ Delivering(toRunner, pool, d)
      /\ d.asked = AskedFor'
  BY <1>8 DEF Seen
<1>10. /\ \A a \in Range(pool.accepts) : a.request # q
       /\ q \notin Range(pool.requests)
  <2>1. pool \in Pools(Ctx) BY DEF IInv, PoolOK, Sound
  <2>2. \A a \in Range(pool.accepts) : a.request \in AskedFor BY <2>1, PoolFields, CtxFields
  <2> QED BY <1>1, <1>3, <1>7, <2>2 DEF SyncOK
<1>11. /\ PoolOK' /\ DownOK' /\ Gains(toRunner', toRunner, {"offeraccept"})
       /\ Range(pool.accepts) \subseteq Range(pool'.accepts)
       /\ Range(pool'.requests) = {x \in Request : requester'[x].state = "requested"}
  <2>1. CASE st = "expired"
    <3>1. pool' = pool /\ toRunner' = toRunner BY <1>5, <2>1
    <3>2. PoolOK' /\ DownOK' BY <1>9, <3>1, SeenNow
    <3>3. Range(pool.requests) = {x \in Request : requester'[x].state = "requested"}
      BY <1>1, <1>3, <1>6, <2>1 DEF SyncOK
    <3> QED BY <3>1, <3>2, <3>3 DEF Gains
  <2>2. CASE st = "requested"
    <3>1. PICK n : n = moreRequests(pool, q) OBVIOUS
    <3>2. /\ Sound(n, d, {}) /\ n.offers = pool.offers /\ n.accepts = pool.accepts
          /\ Range(n.requests) = Range(pool.requests) \cup {q}
      BY <1>7, <1>9, <1>10, <3>1, RequestAdded
    <3>3. Delivering(toRunner, n, d) BY <1>9, <3>2, FewerOffersDelivery
    <3>4. Settle(n, toRunner, ReachableRunners) BY <1>5, <2>2, <3>1
    <3>5. /\ PoolOK' /\ DownOK' /\ pool'.requests = n.requests
          /\ Range(n.accepts) \subseteq Range(pool'.accepts)
          /\ Gains(toRunner', toRunner, {"offeraccept"})
      BY <1>9, <3>2, <3>3, <3>4, SettleNext
    <3>6. Range(n.requests) = {x \in Request : requester'[x].state = "requested"}
      BY <1>3, <1>6, <2>2, <3>2 DEF SyncOK
    <3> QED BY <3>2, <3>5, <3>6
  <2> QED BY <2>1, <2>2
<1>12. SyncOK'
  <2>1. \A t \in DOMAIN tasks' :
          requester'[tasks'[t]].state = "running" /\ requester'[tasks'[t]].task = t
    BY <1>1, <1>3, <1>6 DEF SyncOK, ShapesOK
  <2>2. \A x \in Request : requester'[x].state = "running" =>
          requester'[x].task \in DOMAIN tasks' /\ tasks'[requester'[x].task] = x
    BY <1>1, <1>3, <1>6 DEF SyncOK
  <2> QED BY <1>11, <2>1, <2>2 DEF SyncOK
<1>13. ShapesOK'
  <2>1. strikes' \in [Runner -> 0..MaxStrikes] BY <1>1, <1>3 DEF ShapesOK
  <2> QED BY <1>1, <1>3, <1>6, <2>1, SteadyShapes
<1>14. \A t \in Task : /\ Mode = "external" /\ conn[t[1]] = "open" /\ Held(t)
                       /\ t \in DOMAIN tasks \/ \E a \in Range(pool.accepts) : a.task = t
                       => Accounted(t)'
  BY <1>1, <1>11 DEF Accounted
<1> QED BY <1>1, <1>2, <1>11, <1>12, <1>13, <1>14, SteadyStep

\* The frame about a task to its runner.
LEMMA TaskFrame ==
  ASSUME NEW t \in Task, NEW k \in {"offeraccept", "settings", "cancel"}, NEW I, t \in I
  PROVE  <<k, t>> \in Down(t[1], I) /\ <<k, t>>[1] = k
BY DEF Down

\* CancelTask.
LEMMA CancelTaskStep == ASSUME IInv, NEW q \in Request, CancelTask(q) PROVE IInv'
<1> DEFINE t == requester[q].task
           f == <<"cancel", t>>
<1>1. /\ requester[q].state = "running" /\ UNCHANGED <<strikes, known, conn, removals, session>>
      /\ UNCHANGED <<pool, proc, toBroker, offered>>
      /\ requester' = [requester EXCEPT ![q].state = "cancelled"]
      /\ tasks' = untrack(tasks, {t})
  BY DEF CancelTask, signs, links
<1>2. ShapesOK /\ SyncOK BY DEF IInv
<1>3. t \in DOMAIN tasks /\ tasks[t] = q /\ t \in Issued BY <1>1, <1>2 DEF SyncOK, ShapesOK
<1>4. t \in Task /\ t[1] \in Runner /\ runnerOf(t) = t[1] BY <1>3, TaskRunner DEF Issued
<1>5. toRunner' = messageRunner(toRunner, t[1], f) BY <1>3, <1>4 DEF CancelTask
<1>6. DOMAIN tasks' = DOMAIN tasks \ {t} /\ \A x \in DOMAIN tasks' : tasks'[x] = tasks[x]
  BY <1>1 DEF untrack
<1>7. Calm BY <1>1, <1>6, QuietStep
<1>8. /\ requester' \in [Request -> [state : States, task : Task \cup {NoTask}]]
      /\ requester'[q].state = "cancelled"
      /\ \A x \in Request \ {q} : requester'[x] = requester[x]
  <2>1. requester \in [Request -> [state : States, task : Task \cup {NoTask}]] BY <1>2 DEF ShapesOK
  <2> QED BY <1>1, <2>1 DEF States
<1>9. AskedFor \subseteq AskedFor' BY <1>8 DEF AskedFor
<1>10. PICK d : Seen(d, pool, toRunner) BY <1>1, <1>6, <1>7, <1>9, SteadyContext
<1>11. /\ d = Ctx' /\ Context(d) /\ Sound(pool, d, {}) /\ Delivering(toRunner, pool, d)
       /\ d.issued = Issued'
  BY <1>10 DEF Seen
<1>12. f \in Down(t[1], d.issued) /\ f[1] = "cancel" /\ d.issued \subseteq Task
  <2>1. Issued' = Issued BY <1>1 DEF Issued
  <2> HIDE DEF t
  <2> QED BY <1>3, <1>4, <1>11, <2>1, TaskFrame DEF Context
<1> HIDE DEF t, f
<1>13. /\ Delivering(toRunner', pool, d) /\ Gains(toRunner', toRunner, {f[1]})
       /\ isRunnerReachable(t[1]) => f \in Range(toRunner'[t[1]])
  BY <1>4, <1>5, <1>11, <1>12, Told
<1>14. PoolOK' /\ DownOK' BY <1>1, <1>11, <1>13, SeenNow
<1>15. ShapesOK'
  <2>1. strikes' \in [Runner -> 0..MaxStrikes] BY <1>1, <1>2 DEF ShapesOK
  <2> QED BY <1>1, <1>2, <1>6, <1>8, <2>1, SteadyShapes
<1>16. SyncOK'
  <2>1. Range(pool'.requests) = {x \in Request : requester'[x].state = "requested"}
    BY <1>1, <1>2, <1>8 DEF SyncOK
  <2>2. ASSUME NEW u \in DOMAIN tasks'
        PROVE  requester'[tasks'[u]].state = "running" /\ requester'[tasks'[u]].task = u
    <3>1. u \in DOMAIN tasks /\ u # t /\ tasks'[u] = tasks[u] /\ tasks[u] \in Request
      BY <1>2, <1>6 DEF ShapesOK
    <3>2. tasks[u] # q BY <1>2, <3>1 DEF SyncOK, t
    <3> QED BY <1>2, <1>8, <3>1, <3>2 DEF SyncOK
  <2>3. ASSUME NEW x \in Request, requester'[x].state = "running"
        PROVE  requester'[x].task \in DOMAIN tasks' /\ tasks'[requester'[x].task] = x
    <3>1. x # q /\ requester'[x] = requester[x] BY <1>8, <2>3
    <3>2. requester[x].task \in DOMAIN tasks /\ tasks[requester[x].task] = x
      BY <1>2, <2>3, <3>1 DEF SyncOK
    <3> QED BY <1>3, <1>6, <3>1, <3>2
  <2> QED BY <2>1, <2>2, <2>3 DEF SyncOK
<1>17. ASSUME NEW u \in Task, conn[u[1]] = "open",
              u \in DOMAIN tasks \/ \E a \in Range(pool.accepts) : a.task = u
       PROVE  Accounted(u)'
  <2>1. CASE u = t
    <3>1. isRunnerReachable(t[1]) BY <1>2, <1>4, <1>17, <2>1, Reachable
    <3> QED BY <1>13, <2>1, <3>1 DEF Accounted, f
  <2>2. CASE u # t BY <1>1, <1>6, <1>17, <2>2 DEF Accounted
  <2> QED BY <2>1, <2>2
<1> QED BY <1>1, <1>7, <1>12, <1>13, <1>14, <1>15, <1>16, <1>17, SteadyStep

\* RespondToRunner.
LEMMA RespondToRunnerStep == ASSUME IInv, NEW t \in Task, RespondToRunner(t) PROVE IInv'
<1>1. /\ ~isRunnerReachable(t[1]) /\ UNCHANGED <<strikes, known, conn, removals, session>>
      /\ UNCHANGED <<pool, proc, toRunner, toBroker, offered>>
      /\ requester' = answer({t}, "error") /\ tasks' = untrack(tasks, {t})
  BY DEF RespondToRunner, signs, links, runnerOf
<1>2. ShapesOK /\ SyncOK BY DEF IInv
<1>3. /\ requester' \in [Request -> [state : States, task : Task \cup {NoTask}]]
      /\ SyncOK' /\ AskedFor' = AskedFor
      /\ DOMAIN tasks' = DOMAIN tasks \ {t} /\ \A x \in DOMAIN tasks' : tasks'[x] = tasks[x]
  <2> DEFINE S == {t}
             st == "error"
  <2>1. /\ requester' = answer(S, st) /\ tasks' = untrack(tasks, S) /\ st \in Final
        /\ pool'.requests = pool.requests
    BY <1>1 DEF Final
  <2> HIDE DEF S, st
  <2>2. /\ requester' \in [Request -> [state : States, task : Task \cup {NoTask}]]
        /\ SyncOK' /\ AskedFor' = AskedFor
        /\ DOMAIN tasks' = DOMAIN tasks \ S /\ \A x \in DOMAIN tasks' : tasks'[x] = tasks[x]
    BY <1>2, <2>1, Answered
  <2> QED BY <2>2 DEF S
<1>4. Calm BY <1>1, <1>3, QuietStep
<1>5. PICK d : Seen(d, pool, toRunner) BY <1>1, <1>3, <1>4, SteadyContext
<1>6. PoolOK' /\ DownOK' BY <1>1, <1>5, SeenNow DEF Seen
<1>7. ShapesOK'
  <2>1. strikes' \in [Runner -> 0..MaxStrikes] BY <1>1, <1>2 DEF ShapesOK
  <2> QED BY <1>1, <1>2, <1>3, <2>1, SteadyShapes
<1>8. \A u \in Task : /\ conn[u[1]] = "open"
                      /\ u \in DOMAIN tasks \/ \E a \in Range(pool.accepts) : a.task = u
                      => Accounted(u)'
  <2>1. conn[t[1]] # "open" BY <1>1, <1>2, TaskRunner, Reachable
  <2> QED BY <1>1, <1>3, <2>1 DEF Accounted
<1>9. Gains(toRunner', toRunner, {}) BY <1>1 DEF Gains
<1>10. PICK K : K = {} OBVIOUS
<1> QED BY <1>1, <1>3, <1>4, <1>6, <1>7, <1>8, <1>9, <1>10, SteadyStep

\* TaskTimeout.
LEMMA TaskTimeoutStep == ASSUME IInv, NEW t \in Task, TaskTimeout(t) PROVE IInv'
<1> DEFINE f == <<"cancel", t>>
<1>1. /\ t \in DOMAIN tasks /\ UNCHANGED <<strikes, known, conn, removals, session>>
      /\ UNCHANGED <<pool, proc, toBroker, offered>>
      /\ requester' = answer({t}, "error") /\ tasks' = untrack(tasks, {t})
      /\ toRunner' = IF Mode = "external" THEN messageRunner(toRunner, t[1], f) ELSE toRunner
  BY DEF TaskTimeout, signs, links, runnerOf
<1>2. ShapesOK /\ SyncOK /\ t \in Issued /\ t[1] \in Runner
  BY <1>1, TaskRunner DEF IInv, ShapesOK
<1>3. /\ requester' \in [Request -> [state : States, task : Task \cup {NoTask}]]
      /\ SyncOK' /\ AskedFor' = AskedFor
      /\ DOMAIN tasks' = DOMAIN tasks \ {t} /\ \A x \in DOMAIN tasks' : tasks'[x] = tasks[x]
  <2> DEFINE S == {t}
             st == "error"
  <2>1. /\ requester' = answer(S, st) /\ tasks' = untrack(tasks, S) /\ st \in Final
        /\ pool'.requests = pool.requests
    BY <1>1 DEF Final
  <2> HIDE DEF S, st
  <2>2. /\ requester' \in [Request -> [state : States, task : Task \cup {NoTask}]]
        /\ SyncOK' /\ AskedFor' = AskedFor
        /\ DOMAIN tasks' = DOMAIN tasks \ S /\ \A x \in DOMAIN tasks' : tasks'[x] = tasks[x]
    BY <1>2, <2>1, Answered
  <2> QED BY <2>2 DEF S
<1>4. Calm BY <1>1, <1>3, QuietStep
<1>5. PICK d : Seen(d, pool, toRunner) BY <1>1, <1>3, <1>4, SteadyContext
<1>6. /\ d = Ctx' /\ Context(d) /\ Sound(pool, d, {}) /\ Delivering(toRunner, pool, d)
      /\ d.issued = Issued'
  BY <1>5 DEF Seen
<1>7. f \in Down(t[1], d.issued) /\ f[1] = "cancel" /\ d.issued \subseteq Task
  <2>1. Issued' = Issued BY <1>1 DEF Issued
  <2> QED BY <1>2, <1>6, <2>1, TaskFrame DEF Context
<1> HIDE DEF f
<1>8. /\ Delivering(toRunner', pool, d) /\ Gains(toRunner', toRunner, {f[1]})
      /\ Mode = "external" /\ isRunnerReachable(t[1]) => f \in Range(toRunner'[t[1]])
  <2>1. CASE Mode = "external"
    <3>1. toRunner' = messageRunner(toRunner, t[1], f) BY <1>1, <2>1
    <3> QED BY <1>2, <1>6, <1>7, <3>1, Told
  <2>2. CASE Mode # "external"
    <3>1. toRunner' = toRunner BY <1>1, <2>2
    <3> QED BY <1>6, <2>2, <3>1 DEF Gains
  <2> QED BY <2>1, <2>2
<1>9. PoolOK' /\ DownOK' BY <1>1, <1>6, <1>8, SeenNow
<1>10. ShapesOK'
  <2>1. strikes' \in [Runner -> 0..MaxStrikes] BY <1>1, <1>2 DEF ShapesOK
  <2> QED BY <1>1, <1>2, <1>3, <2>1, SteadyShapes
<1>11. ASSUME Mode = "external", NEW u \in Task, conn[u[1]] = "open",
              u \in DOMAIN tasks \/ \E a \in Range(pool.accepts) : a.task = u
       PROVE  Accounted(u)'
  <2>1. CASE u = t
    <3>1. isRunnerReachable(t[1]) BY <1>2, <1>11, <2>1, Reachable
    <3> QED BY <1>8, <1>11, <2>1, <3>1 DEF Accounted, f
  <2>2. CASE u # t BY <1>1, <1>3, <1>11, <2>2 DEF Accounted
  <2> QED BY <2>1, <2>2
<1> QED BY <1>1, <1>3, <1>4, <1>7, <1>8, <1>9, <1>10, <1>11, SteadyStep

\* TaskEnds.
LEMMA TaskEndsStep ==
  ASSUME IInv, NEW r \in Runner, NEW kind \in {"done", "error"}, TaskEnds(r, kind) PROVE IInv'
<1> DEFINE t == Subject(r)
<1>1. /\ Receives(r, kind) /\ UNCHANGED <<known, conn, removals, session>>
      /\ UNCHANGED <<pool, proc, toRunner, offered>>
      /\ requester' = answer({t}, kind) /\ tasks' = untrack(tasks, {t})
      /\ strikes' = strikes \/ forgive(r)
  BY DEF TaskEnds, links
<1>2. ShapesOK /\ SyncOK /\ UpStages BY DEF IInv, UpOK
<1>3. /\ requester' \in [Request -> [state : States, task : Task \cup {NoTask}]]
      /\ SyncOK' /\ AskedFor' = AskedFor
      /\ DOMAIN tasks' = DOMAIN tasks \ {t} /\ \A x \in DOMAIN tasks' : tasks'[x] = tasks[x]
  <2> DEFINE S == {t}
  <2>1. /\ requester' = answer(S, kind) /\ tasks' = untrack(tasks, S) /\ kind \in Final
        /\ pool'.requests = pool.requests
    BY <1>1 DEF Final
  <2> HIDE DEF S
  <2>2. /\ requester' \in [Request -> [state : States, task : Task \cup {NoTask}]]
        /\ SyncOK' /\ AskedFor' = AskedFor
        /\ DOMAIN tasks' = DOMAIN tasks \ S /\ \A x \in DOMAIN tasks' : tasks'[x] = tasks[x]
    BY <1>2, <2>1, Answered
  <2> QED BY <2>2 DEF S
<1> HIDE DEF t
<1>4. t \in Task /\ t[1] = r /\ <<kind, t>> \in Range(toBroker[r]) /\ Calm
  <2>1. kind \in {"offer"} \cup Replies BY DEF Replies
  <2> QED BY <1>1, <1>3, <2>1, Received DEF t
<1>5. PICK d : Seen(d, pool, toRunner) BY <1>1, <1>3, <1>4, SteadyContext
<1>6. PoolOK' /\ DownOK' BY <1>1, <1>5, SeenNow DEF Seen
<1>7. ShapesOK'
  <2>1. strikes' \in [Runner -> 0..MaxStrikes] BY <1>1, <1>2, BrokerAssumption DEF ShapesOK, forgive
  <2> QED BY <1>1, <1>2, <1>3, <2>1, SteadyShapes
<1>8. ~Held(t)
  <2>1. Ended(t) BY <1>4 DEF Ended, Ends, Replies
  <2> QED BY <1>2, <1>4, <2>1 DEF UpStages, Staged
<1>9. \A u \in Task : /\ Held(u)
                      /\ u \in DOMAIN tasks \/ \E a \in Range(pool.accepts) : a.task = u
                      => Accounted(u)'
  BY <1>1, <1>3, <1>8 DEF Accounted
<1>10. Gains(toRunner', toRunner, {}) BY <1>1 DEF Gains
<1>11. PICK K : K = {} OBVIOUS
<1> QED BY <1>1, <1>3, <1>4, <1>6, <1>7, <1>9, <1>10, <1>11, SteadyStep

\* A task that its runner has answered for is in no acceptance on its way.
LEMMA AnsweredFor ==
  ASSUME IInv, NEW t \in Task, Replied(t), NEW r \in Runner
  PROVE  <<"offeraccept", t>> \notin Range(toRunner[r])
<1>1. Delivery(toRunner[r], pool, r, Ctx) BY DEF IInv, DownOK, Delivering
<1>2. t \notin Ctx.quiet BY CtxFields DEF Quiet
<1> QED BY <1>1, <1>2 DEF Delivery

\* An acceptance that is pending.
LEMMA Accepting ==
  ASSUME NEW t, AcceptsOf(t) # {}
  PROVE  acceptFor(t) \in Range(pool.accepts) /\ acceptFor(t).task = t
<1>1. \E a \in Range(pool.accepts) : a.task = t BY DEF AcceptsOf, Range
<1> QED BY <1>1 DEF acceptFor

\* RunnerRejects and RunnerDefers: the request goes to another offer now or later.
LEMMA RefusedStep ==
  ASSUME IInv, NEW r \in Runner, RunnerRejects(r) \/ RunnerDefers(r) PROVE IInv'
<1>0. PICK t : t = Subject(r) OBVIOUS
<1> DEFINE n == release(dropAccept(pool, t), acceptFor(t).request)
<1>1. PICK kind \in {"rejected", "deferred"} : Receives(r, kind)
  BY DEF RunnerRejects, RunnerDefers
<1>2. /\ UNCHANGED <<requester, tasks, known, conn, removals, session>>
      /\ UNCHANGED <<proc, offered>>
      /\ \/ UNCHANGED <<pool, strikes, toRunner>>
         \/ /\ AcceptsOf(t) # {} /\ forgive(r)
            /\ \/ Settle(n, toRunner, ReachableRunners)
               \/ pool' = n /\ toRunner' = toRunner
  BY <1>0 DEF RunnerRejects, RunnerDefers, links
<1>3. ShapesOK /\ SyncOK /\ UpStages BY DEF IInv, UpOK
<1>4. t \in Task /\ t[1] = r /\ <<kind, t>> \in Range(toBroker[r]) /\ Calm
  <2>1. kind \in {"offer"} \cup Replies BY DEF Replies
  <2> QED BY <1>0, <1>1, <1>2, <2>1, Received
<1>5. Replied(t) /\ ~Held(t)
  <2>1. Ended(t) /\ Replied(t) BY <1>4 DEF Ended, Replied, Ends, Replies
  <2> QED BY <1>3, <1>4, <2>1 DEF UpStages, Staged
<1>6. AskedFor' = AskedFor BY <1>2 DEF AskedFor
<1>7. PICK d : Seen(d, pool, toRunner) BY <1>2, <1>4, <1>6, SteadyContext
<1>8. d = Ctx' /\ Context(d) /\ Sound(pool, d, {}) /\ Delivering(toRunner, pool, d)
  BY <1>7 DEF Seen
<1>9. /\ PoolOK' /\ DownOK' /\ pool'.requests = pool.requests
      /\ \A b \in Range(pool.accepts) : b.task # t => b \in Range(pool'.accepts)
      /\ Gains(toRunner', toRunner, {"offeraccept"}) /\ strikes' \in [Runner -> 0..MaxStrikes]
  <2>1. CASE UNCHANGED <<pool, strikes, toRunner>>
    <3>1. PoolOK' /\ DownOK' BY <1>8, <2>1, SeenNow
    <3> QED BY <1>3, <2>1, <3>1 DEF Gains, ShapesOK
  <2>2. CASE /\ AcceptsOf(t) # {} /\ forgive(r)
             /\ \/ Settle(n, toRunner, ReachableRunners)
                \/ pool' = n /\ toRunner' = toRunner
    <3>0. PICK a : a = acceptFor(t) OBVIOUS
    <3>1. a \in Range(pool.accepts) /\ a.task = t BY <2>2, <3>0, Accepting
    <3>2. n = release(dropAccept(pool, a.task), a.request) BY <3>0, <3>1
    <3> HIDE DEF n
    <3>3. /\ Sound(n, d, {}) /\ n.offers = pool.offers /\ n.requests = pool.requests
          /\ Range(n.accepts) = Range(pool.accepts) \ {a}
      <4>1. Sound(n, d, {}) BY <1>8, <3>1, <3>2, AcceptFailed
      <4>2. n.offers = pool.offers /\ n.requests = pool.requests BY <1>8, <3>1, <3>2, AcceptFailed
      <4>3. Range(n.accepts) = Range(pool.accepts) \ {a} BY <1>8, <3>1, <3>2, AcceptFailed
      <4> QED BY <4>1, <4>2, <4>3
    <3>4. Delivering(toRunner, n, d)
      <4>1. \A x \in Runner : <<"offeraccept", a.task>> \notin Range(toRunner[x])
        BY <1>4, <1>5, <3>1, AnsweredFor
      <4> QED BY <1>8, <3>3, <4>1, Forgotten
    <3>5. strikes' \in [Runner -> 0..MaxStrikes]
      BY <1>3, <2>2, BrokerAssumption DEF ShapesOK, forgive
    <3>6. CASE Settle(n, toRunner, ReachableRunners)
      <4>1. PICK reachable : Settle(n, toRunner, reachable) BY <3>6
      <4>2. /\ PoolOK' /\ DownOK' /\ pool'.requests = n.requests
            /\ Range(n.accepts) \subseteq Range(pool'.accepts)
            /\ Gains(toRunner', toRunner, {"offeraccept"})
        BY <1>8, <3>3, <3>4, <4>1, SettleNext
      <4> QED BY <3>1, <3>3, <3>5, <4>2
    <3>7. CASE pool' = n /\ toRunner' = toRunner
      <4>1. PoolOK' /\ DownOK' BY <1>8, <3>3, <3>4, <3>7, SeenNow
      <4> QED BY <3>1, <3>3, <3>5, <3>7, <4>1 DEF Gains
    <3> QED BY <2>2, <3>6, <3>7
  <2> QED BY <1>2, <2>1, <2>2
<1>10. ShapesOK'
  <2>1. requester' \in [Request -> [state : States, task : Task \cup {NoTask}]]
    BY <1>2, <1>3 DEF ShapesOK
  <2> QED BY <1>2, <1>3, <1>9, <2>1, SteadyShapes
<1>11. SyncOK' BY <1>2, <1>3, <1>9 DEF SyncOK
<1>12. \A u \in Task : /\ Held(u)
                       /\ u \in DOMAIN tasks \/ \E b \in Range(pool.accepts) : b.task = u
                       => Accounted(u)'
  BY <1>2, <1>5, <1>9 DEF Accounted
<1> QED BY <1>2, <1>4, <1>9, <1>10, <1>11, <1>12, SteadyStep

\* TaskOffered.
LEMMA TaskOfferedStep == ASSUME IInv, NEW r \in Runner, TaskOffered(r) PROVE IInv'
<1>0. PICK t : t = Subject(r) OBVIOUS
<1> DEFINE n == moreOffers(pool, t)
<1>1. /\ Receives(r, "offer") /\ UNCHANGED <<requester, tasks, strikes, known, conn>>
      /\ UNCHANGED <<removals, session, proc, offered>>
      /\ Settle(n, toRunner, ReachableRunners)
  BY <1>0 DEF TaskOffered, links, moreOffers
<1>2. ShapesOK /\ SyncOK /\ UpStages BY DEF IInv, UpOK
<1>3. /\ t \in Issued /\ t \in Task /\ t[1] = r /\ <<"offer", t>> \in Range(toBroker[r])
      /\ <<"offer", t>> \notin Range(toBroker'[r]) /\ Calm
  <2>1. PICK kind \in {"offer"} \cup Replies : kind = "offer" OBVIOUS
  <2> QED BY <1>0, <1>1, <2>1, Received
<1>4. Offering(t) /\ t \notin DOMAIN tasks /\ ~Held(t) /\ ~Replied(t)
  <2>1. Offering(t) BY <1>3 DEF Offering
  <2> QED BY <1>2, <1>3, <2>1 DEF UpStages, Staged
<1>5. t \in Offerable'
  <2>1. UpQueues BY DEF IInv, UpOK
  <2>2. Undisturbed(t) /\ Issued' = Issued BY <1>3, <2>1, CalmTasks
  <2>3. ~Offering(t)' BY <1>3 DEF Offering
  <2> QED BY <1>3, <1>4, <2>2, <2>3 DEF Offerable, Acceptable, Quiet, Undisturbed
<1>6. AskedFor' = AskedFor BY <1>1 DEF AskedFor
<1>7. PICK d : Seen(d, pool, toRunner) BY <1>1, <1>3, <1>6, SteadyContext
<1>8. /\ d = Ctx' /\ Context(d) /\ Sound(pool, d, {}) /\ Delivering(toRunner, pool, d)
      /\ d.offerable = Offerable' /\ d.quiet = Quiet'
  BY <1>7 DEF Seen
<1>9. /\ t \notin Range(pool.offers) /\ \A a \in Range(pool.accepts) : a.task # t
      /\ \A x \in Runner : <<"offeraccept", t>> \notin Range(toRunner[x])
  <2>1. pool \in Pools(Ctx) BY DEF IInv, PoolOK, Sound
  <2>2. t \notin Ctx.offerable /\ t \notin Ctx.acceptable /\ t \notin Ctx.quiet
    BY <1>4, CtxFields DEF Offerable, Acceptable, Quiet
  <2>3. \A x \in Runner : Delivery(toRunner[x], pool, x, Ctx) BY DEF IInv, DownOK, Delivering
  <2>4. t \notin Range(pool.offers) /\ \A a \in Range(pool.accepts) : a.task # t
    BY <2>1, <2>2, PoolFields
  <2> QED BY <1>3, <2>2, <2>3, <2>4 DEF Delivery
<1>10. /\ Sound(n, d, {}) /\ Range(n.offers) = Range(pool.offers) \cup {t}
       /\ n.accepts = pool.accepts /\ n.requests = pool.requests
  <2>1. n = moreOffers(pool, t) OBVIOUS
  <2> HIDE DEF n
  <2> QED BY <1>5, <1>8, <1>9, <2>1, OfferAdded
<1> HIDE DEF n
<1>11. Delivering(toRunner, n, d)
  <2> SUFFICES ASSUME NEW x \in Runner PROVE Delivery(toRunner[x], n, x, d)
    BY <1>8 DEF Delivering
  <2>1. Delivery(toRunner[x], pool, x, d) BY <1>8 DEF Delivering
  <2>2. \A u \in Task : <<"offeraccept", u>> \in Range(toRunner[x]) =>
          u \in d.quiet /\ u \notin Range(n.offers)
    BY <1>9, <1>10, <2>1 DEF Delivery
  <2> QED BY <1>10, <2>1, <2>2, DeliveryKept
<1>12. /\ PoolOK' /\ DownOK' /\ pool'.requests = n.requests
       /\ Range(n.accepts) \subseteq Range(pool'.accepts)
       /\ Gains(toRunner', toRunner, {"offeraccept"})
  <2>1. PICK reachable : Settle(n, toRunner, reachable) BY <1>1
  <2> QED BY <1>8, <1>10, <1>11, <2>1, SettleNext
<1>13. ShapesOK'
  <2>1. /\ requester' \in [Request -> [state : States, task : Task \cup {NoTask}]]
        /\ strikes' \in [Runner -> 0..MaxStrikes]
    BY <1>1, <1>2 DEF ShapesOK
  <2> QED BY <1>1, <1>2, <2>1, SteadyShapes
<1>14. SyncOK' BY <1>1, <1>2, <1>10, <1>12 DEF SyncOK
<1>15. \A u \in Task : u \in DOMAIN tasks \/ (\E b \in Range(pool.accepts) : b.task = u)
                         => Accounted(u)'
  BY <1>1, <1>10, <1>12 DEF Accounted
<1> QED BY <1>1, <1>3, <1>12, <1>13, <1>14, <1>15, SteadyStep

\* StartDraining.
LEMMA StartDrainingStep == ASSUME IInv, StartDraining PROVE IInv'
<1> DEFINE f == <<"drain", NoTask>>
           F == {"offeraccept", "settings", "cancel", "registered", "drain"} \X (Task \cup {NoTask})
<1>1. /\ UNCHANGED <<requester, pool, tasks, strikes, known, conn, removals, session>>
      /\ UNCHANGED <<proc, toBroker, offered>>
      /\ toRunner' = [r \in Runner |-> IF conn[r] = "open" THEN Append(toRunner[r], f)
                                       ELSE toRunner[r]]
  BY DEF StartDraining, signs, links
<1>2. Calm BY <1>1, QuietStep
<1>3. AskedFor' = AskedFor BY <1>1 DEF AskedFor
<1>4. PICK d : Seen(d, pool, toRunner) BY <1>1, <1>2, <1>3, SteadyContext
<1>5. d = Ctx' /\ Sound(pool, d, {}) /\ Delivering(toRunner, pool, d) BY <1>4 DEF Seen
<1>6. toRunner \in [Runner -> Seq(F)] BY <1>5 DEF Delivering, Frames
<1>7. f \in F /\ f[1] = "drain" /\ \A r \in Runner : f \in Down(r, d.issued) BY DEF Down
<1> HIDE DEF f, F
<1>8. ASSUME NEW r \in Runner
      PROVE  /\ toRunner'[r] \in Seq(F) /\ toRunner'[r] \in Seq(Down(r, d.issued))
             /\ Delivery(toRunner'[r], pool, r, d)
             /\ Range(toRunner[r]) \subseteq Range(toRunner'[r])
             /\ \A x \in Range(toRunner'[r]) : x \in Range(toRunner[r]) \/ x[1] \in {"drain"}
  <2> DEFINE D == Down(r, d.issued)
             s == toRunner[r]
             n == Append(s, f)
  <2>1. s \in Seq(D) /\ f \in D /\ Delivery(s, pool, r, d) /\ s \in Seq(F)
    BY <1>5, <1>6, <1>7 DEF Delivering
  <2>2. toRunner'[r] = n \/ toRunner'[r] = s BY <1>1
  <2> HIDE DEF D, s
  <2>3. n \in Seq(D) /\ Range(n) = Range(s) \cup {f} BY <2>1, Enqueued
  <2>4. n \in Seq(F) BY <1>7, <2>1, Enqueued
  <2>5. Delivery(n, pool, r, d) BY <1>7, <2>1, DeliverySent
  <2> HIDE DEF n
  <2>6. CASE toRunner'[r] = n BY <1>7, <2>3, <2>4, <2>5, <2>6 DEF D, s
  <2>7. CASE toRunner'[r] = s BY <2>1, <2>7 DEF D, s
  <2> QED BY <2>2, <2>6, <2>7
<1>9. toRunner' \in Frames
  <2>1. toRunner' = [r \in Runner |-> toRunner'[r]] BY <1>1
  <2>2. toRunner' \in [Runner -> Seq(F)] BY <1>8, <2>1
  <2> QED BY <2>2 DEF Frames, F
<1>10. Delivering(toRunner', pool, d) BY <1>8, <1>9 DEF Delivering
<1>11. PoolOK' /\ DownOK' BY <1>1, <1>5, <1>10, SeenNow
<1>12. Gains(toRunner', toRunner, {"drain"}) BY <1>8 DEF Gains
<1>13. ShapesOK'
  <2>1. ShapesOK BY DEF IInv
  <2> QED BY <1>1, <2>1 DEF ShapesOK, Issued
<1>14. SyncOK'
  <2>1. SyncOK BY DEF IInv
  <2> QED BY <1>1, <2>1 DEF SyncOK
<1>15. \A u \in Task : u \in DOMAIN tasks \/ (\E b \in Range(pool.accepts) : b.task = u)
                         => Accounted(u)'
  BY <1>1 DEF Accounted
<1>16. PICK K : K = {"drain"} OBVIOUS
<1> QED BY <1>1, <1>2, <1>11, <1>12, <1>13, <1>14, <1>15, <1>16, SteadyStep

\* Frames, with the queues of the runners of S cut.
cutFrames(f, S) == cut(f, S, <<>>)

\* The queues that are left.
LEMMA CutFrames ==
  ASSUME IInv, NEW S \in SUBSET Runner, removeConnections(S), NEW f, NEW g, g = cutFrames(f, S)
  PROVE  /\ Reset(g, f) /\ Live' \subseteq Live
         /\ \A r \in S : g[r] = <<>> /\ Range(g[r]) = {}
         /\ \A r \in Runner \ S : g[r] = f[r]
<1>1. Live' = Live \ S BY DEF removeConnections, cut, Live
<1>2. g = [r \in Runner |-> g[r]] BY DEF cutFrames, cut
<1>3. (\A r \in S : g[r] = <<>>) /\ \A r \in Runner \ S : g[r] = f[r] BY DEF cutFrames, cut
<1>4. \A r \in S : Range(g[r]) = {} BY <1>3, NoFrames
<1>5. Reset(g, f) BY <1>1, <1>2, <1>3 DEF Reset
<1> QED BY <1>1, <1>3, <1>4, <1>5

\* What is left to show of a step that removes the connections of S.
LEMMA DisconnectStep ==
  ASSUME IInv, NEW S \in SUBSET Runner, removeConnections(S),
         UNCHANGED <<tasks, known, session, offered>>,
         requester' \in [Request -> [state : States, task : Task \cup {NoTask}]],
         strikes' \in [Runner -> 0..MaxStrikes], SyncOK', PoolOK', DownOK',
         NEW f, f = cutFrames(toRunner, S), NEW K, Gains(toRunner', f, K), "registered" \notin K,
         \A a \in Range(pool.accepts) : \/ \E b \in Range(pool'.accepts) : b.task = a.task
                                        \/ a.task[1] \in S \/ conn[a.task[1]] # "open"
                                        \/ <<"cancel", a.task>> \in Range(toRunner'[a.task[1]])
  PROVE  IInv'
<1>1. ShapesOK /\ UpQueues /\ ProcOK /\ SlotsOK BY DEF IInv, UpOK
<1>2. /\ Calm /\ RemovalsOK' /\ conn' \in [Runner -> {"none", "open", "dead"}]
      /\ \A r \in S : /\ conn'[r] = "none" /\ DOMAIN proc'[r].running = {}
                      /\ proc'[r].openOffers = {} /\ ~proc'[r].offering
      /\ \A r \in Runner \ S : conn'[r] = conn[r] /\ proc'[r] = proc[r]
  BY Disconnected
<1>3. /\ \A r \in S : f[r] = <<>> /\ Range(f[r]) = {}
      /\ \A r \in Runner \ S : f[r] = toRunner[r]
  BY CutFrames
<1>4. ShapesOK'
  <2>1. \A r \in Runner : conn'[r] # "none" => r \in known' BY <1>1, <1>2 DEF ShapesOK
  <2>2. Issued' = Issued BY DEF Issued
  <2> QED BY <1>1, <1>2, <2>1, <2>2 DEF ShapesOK
<1>5. ASSUME NEW r \in Runner, conn'[r] = "none" PROVE Unplugged(r)'
  <2>1. CASE r \in S
    <3>1. \A x \in Range(toRunner'[r]) : x[1] \in K BY <1>3, <2>1 DEF Gains
    <3>2. <<"registered", NoTask>>[1] = "registered" OBVIOUS
    <3>3. <<"registered", NoTask>> \notin Range(toRunner'[r]) BY <3>1, <3>2
    <3> QED BY <1>2, <2>1, <3>3 DEF Unplugged
  <2>2. CASE r \notin S
    <3>1. Unplugged(r) BY <1>1, <1>2, <1>5, <2>2 DEF ProcOK
    <3> QED BY <1>2, <1>3, <2>2, <3>1 DEF Unplugged, Gains
  <2> QED BY <2>1, <2>2
<1>6. SlotsOK'
  <2>1. ASSUME NEW t \in Task, conn'[t[1]] = "open", Held(t)'
        PROVE  conn[t[1]] = "open" /\ (Accounted(t) => Accounted(t)')
    <3>1. t[1] \in Runner /\ t[1] \notin S BY <1>2, <2>1, TaskRunner
    <3>2. conn[t[1]] = "open" /\ proc'[t[1]] = proc[t[1]] BY <1>2, <2>1, <3>1
    <3>3. Range(toRunner[t[1]]) \subseteq Range(toRunner'[t[1]]) BY <1>3, <3>1 DEF Gains
    <3> QED BY <3>1, <3>2, <3>3 DEF Accounted
  <2> QED BY <1>1, <1>2, <2>1, SlotsKept
<1> QED BY <1>2, <1>4, <1>5, <1>6, CalmStep

\* RemoveConnection and StopRunners.
LEMMA RemoveConnectionStep ==
  ASSUME IInv, (\E r \in Runner : RemoveConnection(r)) \/ StopRunners PROVE IInv'
<1>1. PICK S \in SUBSET Runner :
        /\ removeConnections(S) /\ toRunner' = cutFrames(toRunner, S)
        /\ UNCHANGED <<requester, pool, tasks, strikes, known, session, offered>>
  <2>1. CASE \E r \in Runner : RemoveConnection(r)
    <3>1. PICK r \in Runner : RemoveConnection(r) BY <2>1
    <3>2. toRunner \in Frames BY DEF IInv, DownOK, Delivering
    <3>3. toRunner' = cutFrames(toRunner, {r})
      <4>1. toRunner = [x \in Runner |-> toRunner[x]] BY <3>2 DEF Frames
      <4>2. toRunner' = [toRunner EXCEPT ![r] = <<>>] BY <3>1 DEF RemoveConnection
      <4> QED BY <4>1, <4>2 DEF cutFrames, cut
    <3> QED BY <3>1, <3>3 DEF RemoveConnection, signs
  <2>2. CASE StopRunners BY <2>2 DEF StopRunners, signs, cutFrames
  <2> QED BY <2>1, <2>2
<1>2. ShapesOK /\ SyncOK /\ UpQueues /\ Sound(pool, Ctx, {}) /\ Delivering(toRunner, pool, Ctx)
  BY DEF IInv, UpOK, PoolOK, DownOK
<1>3. Calm BY <1>1, Disconnected
<1>4. AskedFor' = AskedFor BY <1>1 DEF AskedFor
<1>5. Reset(toRunner', toRunner) BY <1>1, CutFrames
<1>6. PICK d : Seen(d, pool, toRunner') BY <1>1, <1>2, <1>3, <1>4, <1>5, CalmContext
<1>7. PoolOK' /\ DownOK' BY <1>1, <1>6, SeenNow DEF Seen
<1>8. SyncOK' BY <1>1, <1>2 DEF SyncOK
<1>9. /\ requester' \in [Request -> [state : States, task : Task \cup {NoTask}]]
      /\ strikes' \in [Runner -> 0..MaxStrikes]
  BY <1>1, <1>2 DEF ShapesOK
<1>10. PICK f, K : f = cutFrames(toRunner, S) /\ K = {} OBVIOUS
<1>11. Gains(toRunner', f, K) /\ "registered" \notin K BY <1>1, <1>10 DEF Gains
<1>12. \A a \in Range(pool.accepts) : \E b \in Range(pool'.accepts) : b.task = a.task BY <1>1
<1> QED BY <1>1, <1>7, <1>8, <1>9, <1>10, <1>11, <1>12, DisconnectStep

\* RequestTimeout.
LEMMA RequestTimeoutStep == ASSUME IInv, NEW q \in Request, RequestTimeout(q) PROVE IInv'
<1>1. PICK lapsed, S : /\ S \in SUBSET Runner /\ removeConnections(S)
                       /\ toRunner' = cutFrames(toRunner, S)
                       /\ pool' = removeRequest(lessOffers(pool, lapsed), q)
  <2> DEFINE asked == {r \in ReachableRunners : TypeOf[r] = TypeOf[q]}
             mute(p) == {r \in asked : isSilent(p, r)}
  <2>1. PICK lapsed, apart :
          /\ removeConnections(heard(mute(lessOffers(pool, lapsed)) \cap apart))
          /\ toRunner' = cutFrames(toRunner, heard(mute(lessOffers(pool, lapsed)) \cap apart))
          /\ pool' = removeRequest(lessOffers(pool, lapsed), q)
    BY DEF RequestTimeout, lessOffers, cutFrames
  <2>2. heard(mute(lessOffers(pool, lapsed)) \cap apart) \subseteq Runner
    BY DEF heard, ReachableRunners
  <2> QED BY <2>1, <2>2
<1>2. /\ pending(q) /\ requester' = [requester EXCEPT ![q].state = "expired"]
      /\ UNCHANGED <<tasks, strikes, known, session, offered>>
  BY DEF RequestTimeout
<1>3. ShapesOK /\ SyncOK /\ UpQueues /\ Sound(pool, Ctx, {}) /\ Delivering(toRunner, pool, Ctx)
  BY DEF IInv, UpOK, PoolOK, DownOK
<1>4. requester[q].state = "requested" /\ q \in Range(pool.requests)
  BY <1>2, <1>3 DEF pending, SyncOK, Range
<1>5. /\ requester' \in [Request -> [state : States, task : Task \cup {NoTask}]]
      /\ requester'[q].state = "expired"
      /\ \A x \in Request \ {q} : requester'[x] = requester[x]
  <2>1. requester \in [Request -> [state : States, task : Task \cup {NoTask}]] BY <1>3 DEF ShapesOK
  <2> QED BY <1>2, <2>1 DEF States
<1>6. Calm BY <1>1, <1>2, Disconnected
<1>7. AskedFor \subseteq AskedFor' BY <1>5 DEF AskedFor
<1>8. Reset(toRunner', toRunner) BY <1>1, CutFrames
<1>9. PICK d : Seen(d, pool, toRunner') BY <1>2, <1>3, <1>6, <1>7, <1>8, CalmContext
<1>10. d = Ctx' /\ Sound(pool, d, {}) /\ Delivering(toRunner', pool, d) BY <1>9 DEF Seen
<1>11. PICK p : p = lessOffers(pool, lapsed) OBVIOUS
<1>12. /\ Sound(p, d, {}) /\ p.requests = pool.requests /\ p.accepts = pool.accepts
       /\ Range(p.offers) \subseteq Range(pool.offers)
  <2>1. Sound(p, d, {}) BY <1>10, <1>11, FewerOffers
  <2>2. p.requests = pool.requests /\ p.accepts = pool.accepts BY <1>10, <1>11, FewerOffers
  <2>3. Range(p.offers) = Range(pool.offers) \ lapsed BY <1>10, <1>11, FewerOffers
  <2> QED BY <2>1, <2>2, <2>3
<1>13. /\ Sound(pool', d, {}) /\ pool'.offers = p.offers /\ pool'.accepts = p.accepts
       /\ Range(pool'.requests) = Range(p.requests) \ {q}
  <2>1. p \in Pools(d) /\ OneEach(p) /\ Marked(p, {}) BY <1>12 DEF Sound
  <2>2. /\ p.busy \subseteq Range(p.requests)
        /\ \A x \in Range(p.requests) \ {q} :
             /\ x \in p.busy <=> \E a \in Range(p.accepts) : a.request = x
             /\ \A a, b \in Range(p.accepts) : a.request = x /\ b.request = x => a = b
    BY <2>1 DEF Marked
  <2>3. PICK n : n = removeRequest(p, q) OBVIOUS
  <2>4. pool' = n BY <1>1, <1>11, <2>3
  <2>5. Sound(n, d, {}) BY <2>1, <2>2, <2>3, RequestRemoved
  <2>6. n.offers = p.offers /\ n.accepts = p.accepts BY <2>1, <2>2, <2>3, RequestRemoved
  <2>7. Range(n.requests) = Range(p.requests) \ {q} BY <2>1, <2>2, <2>3, RequestRemoved
  <2> QED BY <2>4, <2>5, <2>6, <2>7
<1>14. PoolOK' /\ DownOK'
  <2>1. PICK n : n = pool' OBVIOUS
  <2>2. Range(n.offers) \subseteq Range(pool.offers) /\ n.accepts = pool.accepts
    BY <1>12, <1>13, <2>1
  <2>3. Delivering(toRunner', n, d) BY <1>10, <2>2, FewerOffersDelivery
  <2> QED BY <1>10, <1>13, <2>1, <2>3, SeenNow
<1>15. SyncOK'
  <2>1. Range(pool'.requests) = {x \in Request : requester'[x].state = "requested"}
    BY <1>3, <1>5, <1>12, <1>13 DEF SyncOK
  <2>2. \A t \in DOMAIN tasks' :
          requester'[tasks'[t]].state = "running" /\ requester'[tasks'[t]].task = t
    BY <1>2, <1>3, <1>4, <1>5 DEF SyncOK, ShapesOK
  <2>3. \A x \in Request : requester'[x].state = "running" =>
          requester'[x].task \in DOMAIN tasks' /\ tasks'[requester'[x].task] = x
    BY <1>2, <1>3, <1>5 DEF SyncOK
  <2> QED BY <2>1, <2>2, <2>3 DEF SyncOK
<1>16. strikes' \in [Runner -> 0..MaxStrikes] BY <1>2, <1>3 DEF ShapesOK
<1>17. PICK f, K : f = cutFrames(toRunner, S) /\ K = {} OBVIOUS
<1>18. Gains(toRunner', f, K) /\ "registered" \notin K BY <1>1, <1>17 DEF Gains
<1>19. \A a \in Range(pool.accepts) : \E b \in Range(pool'.accepts) : b.task = a.task
  BY <1>12, <1>13
<1> QED BY <1>1, <1>2, <1>5, <1>14, <1>15, <1>16, <1>17, <1>18, <1>19, DisconnectStep

\* AcceptTimeout.
LEMMA AcceptTimeoutStep ==
  ASSUME IInv, NEW a \in Range(pool.accepts), AcceptTimeout(a) PROVE IInv'
<1> DEFINE m == release(dropAccept(pool, a.task), a.request)
<1>1. PICK t, r, x, frames, n :
        /\ t = a.task /\ r = runnerOf(t) /\ x = <<"cancel", t>>
        /\ frames = messageRunner(toRunner, r, x) /\ n = discardOffersFrom(m, r)
  OBVIOUS
<1>2. ShapesOK /\ SyncOK /\ UpQueues /\ Sound(pool, Ctx, {}) /\ Delivering(toRunner, pool, Ctx)
  BY DEF IInv, UpOK, PoolOK, DownOK
<1>3. t \in Ctx.issued /\ t \in Task /\ t[1] = r /\ r \in Runner
  <2>1. pool \in Pools(Ctx) BY <1>2 DEF Sound
  <2>2. t \in Ctx.acceptable BY <1>1, <2>1, PoolFields
  <2>3. t \in Issued BY <2>2, CtxFields DEF Acceptable
  <2> QED BY <1>1, <2>3, CtxFields, TaskRunner DEF Issued
<1>4. PICK S : /\ S \in SUBSET Runner /\ removeConnections(S)
               /\ Settle(n, cutFrames(frames, S), ReachableRunners \ S)
               /\ strikes' \in [Runner -> 0..MaxStrikes]
  <2>1. PICK apart \in BOOLEAN :
          LET counts == apart \/ strikes[r] = 0
              failures == IF counts THEN Min({strikes[r] + 1, MaxStrikes}) ELSE strikes[r]
              reported == counts /\ failures = MaxStrikes /\ getInFlightTaskIds(r) = {}
              removed == IF reported /\ conn[r] # "none" THEN heard({r}) ELSE {}
          IN /\ strikes' = [strikes EXCEPT ![r] = IF reported THEN 0 ELSE failures]
             /\ removeConnections(removed)
             /\ Settle(n, cut(frames, removed, <<>>), ReachableRunners \ removed)
    BY <1>1 DEF AcceptTimeout
  <2> DEFINE counts == apart \/ strikes[r] = 0
             failures == IF counts THEN Min({strikes[r] + 1, MaxStrikes}) ELSE strikes[r]
             reported == counts /\ failures = MaxStrikes /\ getInFlightTaskIds(r) = {}
             removed == IF reported /\ conn[r] # "none" THEN heard({r}) ELSE {}
  <2>2. /\ strikes' = [strikes EXCEPT ![r] = IF reported THEN 0 ELSE failures]
        /\ removeConnections(removed)
        /\ Settle(n, cutFrames(frames, removed), ReachableRunners \ removed)
    BY <2>1 DEF cutFrames
  <2>3. failures \in 0..MaxStrikes
    <3>1. strikes[r] \in 0..MaxStrikes /\ MaxStrikes \in Nat BY <1>2, <1>3, BrokerAssumption DEF ShapesOK
    <3>2. Min({strikes[r] + 1, MaxStrikes}) = IF strikes[r] + 1 <= MaxStrikes THEN strikes[r] + 1
                                              ELSE MaxStrikes
      BY <3>1, MinOfTwo
    <3> QED BY <3>1, <3>2
  <2>4. removed \in SUBSET Runner BY <1>3 DEF heard
  <2> HIDE DEF failures, reported, removed
  <2>5. strikes' \in [Runner -> 0..MaxStrikes] BY <1>2, <1>3, <2>2, <2>3, BrokerAssumption DEF ShapesOK
  <2> QED BY <2>2, <2>4, <2>5
<1>5. UNCHANGED <<requester, tasks, known, session, offered>> BY DEF AcceptTimeout
<1>6. x \in Down(r, Ctx.issued) /\ x[1] = "cancel" /\ Ctx.issued \subseteq Task
  <2>1. PICK I : I = Ctx.issued OBVIOUS
  <2>2. <<"cancel", t>> \in Down(t[1], I) /\ <<"cancel", t>>[1] = "cancel"
    BY <1>3, <2>1, TaskFrame
  <2> QED BY <1>1, <1>3, <2>1, <2>2, CtxFields DEF Issued
<1>7. /\ Delivering(frames, pool, Ctx) /\ Gains(frames, toRunner, {"cancel"})
      /\ isRunnerReachable(r) => /\ x \in Range(frames[r])
                                 /\ \A y : x # y => FollowedBy(frames[r], y, x)
  <2>1. PICK c : c = Ctx OBVIOUS
  <2>2. /\ Delivering(toRunner, pool, c) /\ x \in Down(r, c.issued) /\ c.issued \subseteq Task
        /\ x[1] # "offeraccept"
    BY <1>2, <1>6, <2>1
  <2>3. /\ Delivering(frames, pool, c) /\ Gains(frames, toRunner, {x[1]})
        /\ isRunnerReachable(r) => /\ x \in Range(frames[r])
                                   /\ \A y : x # y => FollowedBy(frames[r], y, x)
    BY <1>1, <1>3, <2>2, Told
  <2> QED BY <1>6, <2>1, <2>3
<1>8. /\ Sound(n, Ctx, {}) /\ Range(n.offers) \subseteq Range(pool.offers)
      /\ n.requests = pool.requests /\ Range(n.accepts) = Range(pool.accepts) \ {a}
  <2>1. PICK c, l, gone : c = Ctx /\ l = m /\ gone = {u \in Range(m.offers) : runnerOf(u) = r}
    OBVIOUS
  <2>2. n = lessOffers(l, gone) BY <1>1, <2>1 DEF discardOffersFrom, lessOffers
  <2>3. Sound(pool, c, {}) /\ l = release(dropAccept(pool, a.task), a.request) BY <1>2, <2>1
  <2> HIDE DEF m
  <2>4. Sound(l, c, {}) BY <2>3, AcceptFailed
  <2>5. l.offers = pool.offers /\ l.requests = pool.requests BY <2>3, AcceptFailed
  <2>6. Range(l.accepts) = Range(pool.accepts) \ {a} BY <2>3, AcceptFailed
  <2>7. Sound(n, c, {}) BY <2>2, <2>4, FewerOffers
  <2>8. n.requests = l.requests /\ n.accepts = l.accepts BY <2>2, <2>4, FewerOffers
  <2>9. Range(n.offers) = Range(l.offers) \ gone BY <2>2, <2>4, FewerOffers
  <2> QED BY <2>1, <2>5, <2>6, <2>7, <2>8, <2>9
<1> HIDE DEF m
<1>9. Delivering(frames, n, Ctx)
  <2>1. PICK c : c = Ctx OBVIOUS
  <2>2. ASSUME NEW y \in Runner, y \in c.live, <<"offeraccept", a.task>> \in Range(frames[y])
        PROVE  FollowedBy(frames[y], <<"offeraccept", a.task>>, <<"cancel", a.task>>)
    <3>1. <<"offeraccept", t>> \in Down(y, c.issued)
      <4>1. frames[y] \in Seq(Down(y, c.issued)) BY <1>7, <2>1 DEF Delivering
      <4>2. <<"offeraccept", t>> \in Range(frames[y]) BY <1>1, <2>2
      <4> HIDE DEF Down
      <4> QED BY <4>1, <4>2, RangeInType
    <3>2. y = r BY <1>3, <3>1 DEF Down
    <3>3. isRunnerReachable(r) BY <1>2, <2>1, <2>2, <3>2, CtxFields, Reachable
    <3>4. x # <<"offeraccept", t>> BY <1>6
    <3> QED BY <1>1, <1>7, <3>2, <3>3, <3>4
  <2>3. Delivering(frames, pool, c) BY <1>7, <2>1
  <2>4. Delivering(frames, n, c) BY <1>8, <2>2, <2>3, Forgotten
  <2> QED BY <2>1, <2>4
<1>10. Calm BY <1>4, <1>5, Disconnected
<1>11. AskedFor' = AskedFor BY <1>5 DEF AskedFor
<1>12. PICK g : g = cutFrames(frames, S) OBVIOUS
<1>13. /\ Reset(g, frames) /\ (\A y \in S : Range(g[y]) = {})
       /\ \A y \in Runner \ S : g[y] = frames[y]
  BY <1>4, <1>12, CutFrames
<1>14. PICK d : Seen(d, n, g) BY <1>2, <1>5, <1>8, <1>9, <1>10, <1>11, <1>13, CalmContext
<1>15. d = Ctx' /\ Context(d) /\ Sound(n, d, {}) /\ Delivering(g, n, d) BY <1>14 DEF Seen
<1>16. /\ PoolOK' /\ DownOK' /\ pool'.requests = n.requests
       /\ Range(n.accepts) \subseteq Range(pool'.accepts) /\ Gains(toRunner', g, {"offeraccept"})
  <2>1. PICK reachable : Settle(n, g, reachable) BY <1>4, <1>12
  <2> QED BY <1>15, <2>1, SettleNext
<1>17. SyncOK' BY <1>2, <1>5, <1>8, <1>16 DEF SyncOK
<1>18. requester' \in [Request -> [state : States, task : Task \cup {NoTask}]]
  BY <1>2, <1>5 DEF ShapesOK
<1>19. PICK f, K : f = cutFrames(toRunner, S) /\ K = {"cancel", "offeraccept"} OBVIOUS
<1>20. Gains(toRunner', f, K) /\ "registered" \notin K
  <2>1. (\A y \in S : Range(f[y]) = {}) /\ \A y \in Runner \ S : f[y] = toRunner[y]
    <3>1. PICK h : h = toRunner OBVIOUS
    <3>2. f = cutFrames(h, S) BY <1>19, <3>1
    <3>3. (\A y \in S : Range(f[y]) = {}) /\ \A y \in Runner \ S : f[y] = h[y]
      <4>1. (\A y \in S : f[y] = <<>>) /\ \A y \in Runner \ S : f[y] = h[y]
        BY <1>4, <3>2 DEF cutFrames, cut
      <4> QED BY <4>1, NoFrames
    <3> QED BY <3>1, <3>3
  <2>2. ASSUME NEW y \in Runner
        PROVE  /\ Range(f[y]) \subseteq Range(toRunner'[y])
               /\ \A z \in Range(toRunner'[y]) : z \in Range(f[y]) \/ z[1] \in K
    <3>1. /\ Range(g[y]) \subseteq Range(toRunner'[y])
          /\ \A z \in Range(toRunner'[y]) : z \in Range(g[y]) \/ z[1] = "offeraccept"
      BY <1>16 DEF Gains
    <3>2. /\ Range(toRunner[y]) \subseteq Range(frames[y])
          /\ \A z \in Range(frames[y]) : z \in Range(toRunner[y]) \/ z[1] = "cancel"
      BY <1>7 DEF Gains
    <3>3. CASE y \in S BY <1>13, <1>19, <2>1, <3>1, <3>3
    <3>4. CASE y \notin S BY <1>13, <1>19, <2>1, <3>1, <3>2, <3>4
    <3> QED BY <3>3, <3>4
  <2> QED BY <1>19, <2>2 DEF Gains
<1>21. ASSUME NEW b \in Range(pool.accepts)
       PROVE  \/ \E e \in Range(pool'.accepts) : e.task = b.task
              \/ b.task[1] \in S \/ conn[b.task[1]] # "open"
              \/ <<"cancel", b.task>> \in Range(toRunner'[b.task[1]])
  <2>1. CASE b # a BY <1>8, <1>16, <2>1
  <2>2. CASE b = a
    <3> SUFFICES ASSUME r \notin S, conn[r] = "open" PROVE x \in Range(toRunner'[r])
      BY <1>1, <1>3, <2>2
    <3>1. isRunnerReachable(r) BY <1>2, <1>3, Reachable
    <3>2. x \in Range(g[r]) BY <1>3, <1>7, <1>13, <3>1
    <3> QED BY <1>3, <1>16, <3>2 DEF Gains
  <2> QED BY <2>1, <2>2
<1> QED BY <1>4, <1>5, <1>16, <1>17, <1>18, <1>19, <1>20, <1>21, DisconnectStep

\* Connect.
LEMMA ConnectStep == ASSUME IInv, NEW r \in Runner, Connect(r) PROVE IInv'
<1>1. /\ ~rejoining(r) /\ session[r] < MaxSessions /\ session' = [session EXCEPT ![r] = @ + 1]
      /\ toBroker' = [toBroker EXCEPT ![r] = <<>>]
      /\ UNCHANGED <<requester, pool, tasks, strikes, offered>>
  BY DEF Connect, signs
<1>2. PICK l \in BOOLEAN : proc' = [proc EXCEPT ![r] = NewProc(l)]
  BY BrokerAssumption DEF Connect
<1>3. \/ /\ conn[r] = "none" /\ conn' = [conn EXCEPT ![r] = "open"] /\ known' = known \cup {r}
         /\ toRunner' = [toRunner EXCEPT ![r] = <<<<"registered", NoTask>>>>]
         /\ removals' = removals
      \/ /\ conn[r] # "none" /\ conn' = [conn EXCEPT ![r] = "none"] /\ known' = known
         /\ removals' = removals \cup {[m EXCEPT !.rejoin = TRUE] : m \in removing({r})}
         /\ toRunner' = [toRunner EXCEPT ![r] = <<>>]
  BY DEF Connect, registers
<1>4. /\ ShapesOK /\ SyncOK /\ UpQueues /\ ProcOK /\ RemovalsOK /\ SlotsOK
      /\ Sound(pool, Ctx, {}) /\ Delivering(toRunner, pool, Ctx)
  BY DEF IInv, UpOK, PoolOK, DownOK
<1>5. /\ proc' \in [Runner -> Proc] /\ DOMAIN proc'[r].running = {} /\ proc'[r].openOffers = {}
      /\ ~proc'[r].offering /\ \A x \in Runner \ {r} : proc'[x] = proc[x]
  <2>1. proc \in [Runner -> Proc] BY <1>4 DEF ProcOK
  <2> QED BY <1>2, <2>1, EmptyProcs
<1>6. DOMAIN toBroker' = Runner /\ \A x \in Runner : Drops(x)
  <2>1. DOMAIN toBroker = Runner BY <1>4 DEF UpQueues
  <2> QED BY <1>1, <2>1 DEF Drops
<1>7. Calm BY <1>1, <1>5, <1>6 DEF Calm
<1>8. AskedFor' = AskedFor BY <1>1 DEF AskedFor
<1>9. /\ conn' \in [Runner -> {"none", "open", "dead"}]
      /\ \A x \in Runner \ {r} : conn'[x] = conn[x]
      /\ conn'[r] = "none" \/ (conn'[r] = "open" /\ r \in known')
      /\ known \subseteq known'
  BY <1>3, <1>4 DEF ShapesOK
<1>10. /\ Reset(toRunner', toRunner) /\ \A x \in Runner \ {r} : toRunner'[x] = toRunner[x]
       /\ conn'[r] = "none" => toRunner'[r] = <<>>
  <2>1. DOMAIN toRunner = Runner /\ toRunner = [x \in Runner |-> toRunner[x]]
    BY <1>4 DEF Delivering, Frames
  <2>2. /\ toRunner'[r] = <<>> \/ toRunner'[r] = <<<<"registered", NoTask>>>>
        /\ \A x \in Runner \ {r} : toRunner'[x] = toRunner[x]
        /\ toRunner' = [x \in Runner |-> toRunner'[x]]
    BY <1>3, <2>1
  <2>3. \A x \in Runner \ {r} : x \in Live' => x \in Live BY <1>9 DEF Live
  <2>4. conn'[r] = "none" => toRunner'[r] = <<>>
    <3>1. conn \in [Runner -> {"none", "open", "dead"}] BY <1>4 DEF ShapesOK
    <3> QED BY <1>3, <2>1, <3>1
  <2> QED BY <2>2, <2>3, <2>4 DEF Reset
<1>11. PICK d : Seen(d, pool, toRunner') BY <1>1, <1>4, <1>7, <1>8, <1>10, CalmContext
<1>12. PoolOK' /\ DownOK' BY <1>1, <1>11, SeenNow DEF Seen
<1>13. ShapesOK'
  <2>1. session' \in [Runner -> 0..MaxSessions] BY <1>1, <1>4, BrokerAssumption DEF ShapesOK
  <2>2. Issued' = Issued BY <1>1 DEF Issued
  <2>3. \A x \in Runner : conn'[x] # "none" => x \in known' BY <1>4, <1>9 DEF ShapesOK
  <2> QED BY <1>1, <1>4, <1>9, <2>1, <2>2, <2>3 DEF ShapesOK
<1>14. SyncOK' BY <1>1, <1>4 DEF SyncOK
<1>15. \A m \in removals : Removing(m) /\ (m.rejoin => m.runner # r) /\ m.runner \in Runner
  BY <1>1, <1>4 DEF RemovalsOK, rejoining, Removing, Removal
<1>16. \A m \in removals : Removing(m)'
  <2> SUFFICES ASSUME NEW m \in removals PROVE Removing(m)' OBVIOUS
  <2>1. Removing(m) BY <1>15
  <2>2. m.rejoin => conn'[m.runner] = "none" BY <1>9, <1>15, <2>1 DEF Removing
  <2> QED BY <1>4, <1>7, <2>1, <2>2, RemovingKept
<1>17. RemovalsOK'
  <2>1. CASE removals' = removals BY <1>4, <1>16, <2>1 DEF RemovalsOK
  <2>2. CASE conn'[r] = "none" /\ removals' = removals \cup {[m EXCEPT !.rejoin = TRUE] : m \in removing({r})}
    <3>1. PICK I : I = getInFlightTaskIds(r) OBVIOUS
    <3>2. I \subseteq Issued /\ \A t \in I : t \in Task /\ t[1] = r
      BY <1>4, <3>1, TaskRunner DEF getInFlightTaskIds, Issued, ShapesOK
    <3>3. I \in SUBSET Task BY <3>2
    <3>4. PICK o, n : /\ o = [runner |-> r, session |-> session[r], tasks |-> I, rejoin |-> FALSE]
                      /\ n = [o EXCEPT !.rejoin = TRUE]
      OBVIOUS
    <3>5. n \in Removal /\ n.tasks = I /\ n.rejoin /\ n.runner = r
      <4>1. session[r] \in 0..MaxSessions BY <1>4 DEF ShapesOK
      <4>2. o \in Removal /\ o.tasks = I /\ o.runner = r BY <3>3, <3>4, <4>1 DEF Removal
      <4> QED BY <3>4, <4>2 DEF Removal
    <3>6. removals' = removals \cup {n}
      <4>1. removing({r}) = {o} BY <3>1, <3>4 DEF removing
      <4>2. {[m EXCEPT !.rejoin = TRUE] : m \in removing({r})} = {n} BY <3>4, <4>1
      <4> QED BY <2>2, <4>2
    <3>7. \A t \in I : ~Held(t)' /\ t \notin proc'[t[1]].openOffers BY <1>5, <3>2 DEF Held
    <3>8. Issued' = Issued BY <1>1 DEF Issued
    <3>9. Removing(n)' BY <2>2, <3>2, <3>5, <3>7, <3>8 DEF Removing
    <3>10. \A a, b \in removals' : a.rejoin /\ b.rejoin /\ a.runner = b.runner => a = b
      BY <1>4, <1>15, <3>5, <3>6 DEF RemovalsOK
    <3> QED BY <1>16, <3>6, <3>9, <3>10 DEF RemovalsOK
  <2> QED
    <3>1. conn \in [Runner -> {"none", "open", "dead"}] BY <1>4 DEF ShapesOK
    <3> QED BY <1>3, <2>1, <2>2, <3>1
<1>18. ASSUME NEW x \in Runner, conn'[x] = "none" PROVE Unplugged(x)'
  <2>1. CASE x = r
    <3>1. Range(toRunner'[r]) = {} BY <1>10, <1>18, <2>1, NoFrames
    <3> QED BY <1>5, <2>1, <3>1 DEF Unplugged
  <2>2. CASE x # r
    <3>1. Unplugged(x) BY <1>4, <1>9, <1>18, <2>2 DEF ProcOK
    <3> QED BY <1>5, <1>10, <2>2, <3>1 DEF Unplugged
  <2> QED BY <2>1, <2>2
<1>19. SlotsOK'
  <2>1. ASSUME NEW t \in Task, conn'[t[1]] = "open", Held(t)'
        PROVE  conn[t[1]] = "open" /\ (Accounted(t) => Accounted(t)')
    <3>1. t[1] \in Runner /\ t[1] # r BY <1>5, <2>1, TaskRunner DEF Held
    <3> QED BY <1>1, <1>5, <1>9, <1>10, <2>1, <3>1 DEF Accounted
  <2> QED BY <1>4, <1>7, <2>1, SlotsKept
<1> QED BY <1>7, <1>12, <1>13, <1>14, <1>17, <1>18, <1>19, CalmStep

\* FinishRemoval, of a runner that has reconnected.
LEMMA RemovalOutlivedStep ==
  ASSUME IInv, NEW m \in removals, FinishRemoval(m), conn[m.runner] # "none" PROVE IInv'
<1>1. /\ removals' = removals \ {m} /\ requester' = answer(m.tasks, "error")
      /\ tasks' = untrack(tasks, m.tasks) /\ pool' = pool
      /\ UNCHANGED <<strikes, known, conn, session, proc, toBroker, offered>>
  BY DEF FinishRemoval, signs
<1>2. ShapesOK /\ SyncOK /\ Removing(m) BY DEF IInv, RemovalsOK
<1>3. toRunner' = toRunner
  <2>1. ~m.rejoin BY <1>2 DEF Removing
  <2> QED BY <2>1 DEF FinishRemoval
<1>4. /\ requester' \in [Request -> [state : States, task : Task \cup {NoTask}]]
      /\ SyncOK' /\ AskedFor' = AskedFor
      /\ DOMAIN tasks' = DOMAIN tasks \ m.tasks /\ \A x \in DOMAIN tasks' : tasks'[x] = tasks[x]
  <2>1. PICK S, st : S = m.tasks /\ st = "error" OBVIOUS
  <2>2. /\ requester' = answer(S, st) /\ tasks' = untrack(tasks, S) /\ st \in Final
        /\ pool'.requests = pool.requests
    BY <1>1, <2>1 DEF Final
  <2>3. /\ requester' \in [Request -> [state : States, task : Task \cup {NoTask}]]
        /\ SyncOK' /\ AskedFor' = AskedFor
        /\ DOMAIN tasks' = DOMAIN tasks \ S /\ \A x \in DOMAIN tasks' : tasks'[x] = tasks[x]
    BY <1>2, <2>2, Answered
  <2> QED BY <2>1, <2>3
<1>5. Calm BY <1>1, <1>4, QuietStep
<1>6. PICK d : Seen(d, pool, toRunner) BY <1>1, <1>4, <1>5, SteadyContext
<1>7. PoolOK' /\ DownOK' BY <1>1, <1>3, <1>6, SeenNow DEF Seen
<1>8. ShapesOK'
  <2>1. strikes' \in [Runner -> 0..MaxStrikes] BY <1>1, <1>2 DEF ShapesOK
  <2> QED BY <1>1, <1>2, <1>4, <2>1, SteadyShapes
<1>9. \A u \in Task : /\ Held(u)
                      /\ u \in DOMAIN tasks \/ \E b \in Range(pool.accepts) : b.task = u
                      => Accounted(u)'
  BY <1>1, <1>2, <1>4 DEF Accounted, Removing
<1>10. Gains(toRunner', toRunner, {}) BY <1>3 DEF Gains
<1>11. PICK K : K = {} OBVIOUS
<1> QED BY <1>1, <1>4, <1>5, <1>7, <1>8, <1>9, <1>10, <1>11, SteadyStep

\* FinishRemoval, of a runner that is gone: it is deregistered.
LEMMA RemovalFinalStep ==
  ASSUME IInv, NEW m \in removals, FinishRemoval(m), conn[m.runner] = "none" PROVE IInv'
<1>1. PICK r, failed : r = m.runner /\ failed = getInFlightTaskIds(r) OBVIOUS
<1>2. PICK lapsed, s :
        /\ s = deregister(r, lapsed) /\ pool' = s.pool
        /\ toRunner' = IF m.rejoin THEN registers(r, s.frames) ELSE s.frames
  BY <1>1 DEF FinishRemoval
<1>3. /\ removals' = removals \ {m} /\ requester' = answer(failed, "error")
      /\ tasks' = untrack(tasks, failed)
      /\ known' = IF m.rejoin THEN known \cup {r} ELSE known \ {r}
      /\ strikes' = [strikes EXCEPT ![r] = 0]
      /\ UNCHANGED <<session, proc, toBroker, offered>>
  BY <1>1 DEF FinishRemoval
<1>4. PICK c \in {"none", "open", "dead"} : /\ conn' = [conn EXCEPT ![r] = c]
                                            /\ c = "none" <=> ~m.rejoin
  <2>1. conn' = [conn EXCEPT ![r] = IF ~m.rejoin THEN "none"
                                    ELSE IF proc[r].alive THEN "open" ELSE "dead"]
    BY <1>1 DEF FinishRemoval
  <2> QED BY <2>1
<1>5. /\ ShapesOK /\ SyncOK /\ UpQueues /\ ProcOK /\ RemovalsOK /\ SlotsOK /\ Removing(m)
      /\ Sound(pool, Ctx, {}) /\ Delivering(toRunner, pool, Ctx)
  BY DEF IInv, UpOK, PoolOK, DownOK, RemovalsOK
<1>6. r \in Runner /\ r \notin Live /\ conn[r] = "none" BY <1>1, <1>5 DEF Removing, Removal, Live
<1>7. PICK b : /\ s \in Stage(Ctx, {}, [pool |-> b, frames |-> toRunner])
               /\ b.requests = pool.requests /\ Range(b.accepts) = othersOf(pool, r)
  <2>1. PICK k : k = Ctx OBVIOUS
  <2>2. /\ Context(k) /\ Sound(pool, k, {}) /\ Delivering(toRunner, pool, k) /\ r \notin k.live
    BY <1>5, <1>6, <2>1, CtxFields
  <2>3. \E b : /\ deregister(r, lapsed) \in Stage(k, {}, [pool |-> b, frames |-> toRunner])
               /\ b.requests = pool.requests /\ Range(b.accepts) = othersOf(pool, r)
    BY <1>6, <2>2, Deregister
  <2> QED BY <1>2, <2>1, <2>3
<1>8. /\ Sound(s.pool, Ctx, {}) /\ Delivering(s.frames, s.pool, Ctx)
      /\ s.pool.requests = pool.requests /\ othersOf(pool, r) \subseteq Range(s.pool.accepts)
      /\ Gains(s.frames, toRunner, {"offeraccept"})
  <2>1. PICK e : e = [pool |-> b, frames |-> toRunner] OBVIOUS
  <2>2. e.pool = b /\ e.frames = toRunner BY <2>1
  <2>3. Sound(s.pool, Ctx, {}) /\ Delivering(s.frames, s.pool, Ctx) /\ Grows(s, e)
    BY <1>7, <2>1 DEF Stage
  <2> QED BY <1>7, <2>2, <2>3 DEF Grows, Gains
<1>9. /\ requester' \in [Request -> [state : States, task : Task \cup {NoTask}]]
      /\ SyncOK' /\ AskedFor' = AskedFor
      /\ DOMAIN tasks' = DOMAIN tasks \ failed /\ \A x \in DOMAIN tasks' : tasks'[x] = tasks[x]
  <2>1. PICK st : st = "error" OBVIOUS
  <2>2. /\ requester' = answer(failed, st) /\ tasks' = untrack(tasks, failed) /\ st \in Final
        /\ pool'.requests = pool.requests
    BY <1>2, <1>3, <1>8, <2>1 DEF Final
  <2> QED BY <1>5, <2>2, Answered
<1>10. Calm BY <1>3, <1>9, QuietStep
<1>11. \A x \in Runner \ {r} : conn'[x] = conn[x] BY <1>4, <1>5, <1>6 DEF ShapesOK
<1>12. conn'[r] = c /\ conn' \in [Runner -> {"none", "open", "dead"}]
  BY <1>4, <1>5, <1>6 DEF ShapesOK
<1>13. /\ Reset(toRunner', s.frames) /\ \A x \in Runner \ {r} : toRunner'[x] = s.frames[x]
       /\ ~m.rejoin => toRunner'[r] = s.frames[r]
  <2>1. s.frames = [x \in Runner |-> s.frames[x]] BY <1>8 DEF Delivering, Frames
  <2>2. \A x \in Runner \ {r} : x \in Live' => x \in Live BY <1>11 DEF Live
  <2>3. CASE m.rejoin
    <3>1. toRunner' = [s.frames EXCEPT ![r] = <<<<"registered", NoTask>>>>]
      BY <1>2, <2>3 DEF registers
    <3>2. /\ toRunner'[r] = <<<<"registered", NoTask>>>>
          /\ \A x \in Runner \ {r} : toRunner'[x] = s.frames[x]
          /\ toRunner' = [x \in Runner |-> toRunner'[x]]
      BY <1>6, <2>1, <3>1
    <3> QED BY <2>2, <2>3, <3>2 DEF Reset
  <2>4. CASE ~m.rejoin
    <3>1. toRunner' = s.frames BY <1>2, <2>4
    <3>2. r \notin Live' BY <1>4, <1>12, <2>4 DEF Live
    <3> QED BY <2>1, <2>2, <3>1, <3>2 DEF Reset
  <2> QED BY <2>3, <2>4
<1>14. PoolOK' /\ DownOK'
  <2>1. PICK p, f, g : p = s.pool /\ f = s.frames /\ g = toRunner' OBVIOUS
  <2>2. Sound(p, Ctx, {}) /\ Delivering(f, p, Ctx) /\ Reset(g, f) BY <1>8, <1>13, <2>1
  <2>3. PICK d : Seen(d, p, g) BY <1>5, <1>9, <1>10, <2>2, CalmContext
  <2> QED BY <1>2, <2>1, <2>3, SeenNow DEF Seen
<1>15. ShapesOK'
  <2>1. strikes' \in [Runner -> 0..MaxStrikes]
    <3>1. strikes \in [Runner -> 0..MaxStrikes] BY <1>5 DEF ShapesOK
    <3>2. 0 \in 0..MaxStrikes BY BrokerAssumption
    <3>3. strikes' = [strikes EXCEPT ![r] = 0] BY <1>3
    <3> QED BY <3>1, <3>2, <3>3
  <2>2. Issued' = Issued BY <1>3 DEF Issued
  <2>3. \A x \in Runner : conn'[x] # "none" => x \in known'
    BY <1>3, <1>4, <1>5, <1>11, <1>12 DEF ShapesOK
  <2>4. DOMAIN tasks' \subseteq Issued' /\ \A t \in DOMAIN tasks' : tasks'[t] \in Request
    BY <1>5, <1>9, <2>2 DEF ShapesOK
  <2> QED BY <1>3, <1>5, <1>9, <1>12, <2>1, <2>3, <2>4 DEF ShapesOK
<1>16. RemovalsOK'
  <2>1. ASSUME NEW n \in removals' PROVE Removing(n)'
    <3>1. n \in removals /\ n # m /\ Removing(n) BY <1>3, <1>5, <2>1 DEF RemovalsOK
    <3>2. n.rejoin => conn'[n.runner] = "none"
      <4>1. n.runner \in Runner /\ (n.rejoin => conn[n.runner] = "none")
        BY <3>1 DEF Removing, Removal
      <4>2. n.rejoin /\ n.runner = r => ~m.rejoin BY <1>1, <1>5, <3>1 DEF RemovalsOK
      <4> QED BY <1>4, <1>11, <1>12, <4>1, <4>2
    <3> QED BY <1>5, <1>10, <3>1, <3>2, RemovingKept
  <2>2. \A n, o \in removals' : n.rejoin /\ o.rejoin /\ n.runner = o.runner => n = o
    BY <1>3, <1>5 DEF RemovalsOK
  <2> QED BY <2>1, <2>2 DEF RemovalsOK
<1>17. ASSUME NEW x \in Runner, conn'[x] = "none" PROVE Unplugged(x)'
  <2>1. toRunner'[x] = s.frames[x] /\ conn[x] = "none"
    BY <1>4, <1>6, <1>11, <1>12, <1>13, <1>17
  <2>2. Unplugged(x) BY <1>5, <2>1 DEF ProcOK
  <2> QED BY <1>3, <1>8, <2>1, <2>2 DEF Unplugged, Gains
<1>18. SlotsOK'
  <2>1. ASSUME NEW t \in Task, conn'[t[1]] = "open", Held(t)'
        PROVE  conn[t[1]] = "open" /\ (Accounted(t) => Accounted(t)')
    <3>1. t[1] \in Runner /\ runnerOf(t) = t[1] BY TaskRunner
    <3>2. t[1] # r
      <4>1. Unplugged(r) BY <1>5, <1>6 DEF ProcOK
      <4> QED BY <1>3, <2>1, <4>1 DEF Unplugged, Held
    <3>3. conn[t[1]] = "open" BY <1>11, <2>1, <3>1, <3>2
    <3>4. t \in DOMAIN tasks => t \in DOMAIN tasks'
      BY <1>1, <1>9, <3>1, <3>2 DEF getInFlightTaskIds
    <3>5. (\E a \in Range(pool.accepts) : a.task = t) => \E a \in Range(pool'.accepts) : a.task = t
      BY <1>2, <1>8, <3>1, <3>2 DEF othersOf
    <3>6. Range(toRunner[t[1]]) \subseteq Range(toRunner'[t[1]]) BY <1>8, <1>13, <3>1, <3>2 DEF Gains
    <3> QED BY <1>3, <3>3, <3>4, <3>5, <3>6 DEF Accounted
  <2> QED BY <1>5, <1>10, <2>1, SlotsKept
<1> QED BY <1>10, <1>9, <1>14, <1>15, <1>16, <1>17, <1>18, CalmStep

\* RunnerAccepts.
LEMMA RunnerAcceptsStep == ASSUME IInv, NEW r \in Runner, RunnerAccepts(r) PROVE IInv'
<1>1. PICK t : t = Subject(r) OBVIOUS
<1>2. Receives(r, "accepted") /\ UNCHANGED <<known, conn, removals, session, proc, offered>>
  BY DEF RunnerAccepts, links
<1>3. /\ ShapesOK /\ SyncOK /\ UpQueues /\ UpStages
      /\ Sound(pool, Ctx, {}) /\ Delivering(toRunner, pool, Ctx)
  BY DEF IInv, UpOK, PoolOK, DownOK
<1>4. /\ t \in Issued /\ t \in Task /\ t[1] = r /\ <<"accepted", t>> \in Range(toBroker[r])
      /\ (\A u \in DOMAIN tasks' : Offering(u) => u \in DOMAIN tasks) => Calm
  <2>1. PICK kind \in {"offer"} \cup Replies : kind = "accepted" BY DEF Replies
  <2> QED BY <1>1, <1>2, <2>1, Received
<1>5. Replied(t) /\ ~Offering(t)
  <2>1. Replied(t) BY <1>4 DEF Replied, Replies
  <2> QED BY <1>3, <1>4, <2>1 DEF UpStages, Staged
<1>6. CASE AcceptsOf(t) = {}
  <2>1. UNCHANGED <<requester, pool, tasks, strikes, toRunner>> BY <1>1, <1>6 DEF RunnerAccepts
  <2>2. Calm BY <1>4, <2>1
  <2>3. AskedFor' = AskedFor BY <2>1 DEF AskedFor
  <2>4. PICK d : Seen(d, pool, toRunner) BY <1>2, <2>1, <2>2, <2>3, SteadyContext
  <2>5. PoolOK' /\ DownOK' BY <2>1, <2>4, SeenNow DEF Seen
  <2>6. ShapesOK'
    <3>1. /\ requester' \in [Request -> [state : States, task : Task \cup {NoTask}]]
          /\ strikes' \in [Runner -> 0..MaxStrikes]
      BY <1>3, <2>1 DEF ShapesOK
    <3> QED BY <1>2, <1>3, <2>1, <3>1, SteadyShapes
  <2>7. SyncOK' BY <1>3, <2>1 DEF SyncOK
  <2>8. PICK K : K = {} OBVIOUS
  <2>9. Gains(toRunner', toRunner, K) BY <2>1 DEF Gains
  <2>10. \A u \in Task : u \in DOMAIN tasks \/ (\E b \in Range(pool.accepts) : b.task = u)
                           => Accounted(u)'
    BY <2>1 DEF Accounted
  <2> QED BY <1>2, <2>2, <2>5, <2>6, <2>7, <2>8, <2>9, <2>10, SteadyStep
<1>7. CASE AcceptsOf(t) # {}
  <2>1. PICK a, q, c : a = acceptFor(t) /\ q = a.request /\ c = Ctx OBVIOUS
  <2>2. a \in Range(pool.accepts) /\ a.task = t BY <1>7, <2>1, Accepting
  <2>3. PICK starts \in BOOLEAN, k \in {"settings", "cancel"}, st \in {"running", "error"} :
          /\ starts => pending(q) /\ st = "running"
          /\ ~starts => (pending(q) => ~isRunnerReachable(r) /\ st = "error")
          /\ ~pending(q) => k = "cancel"
          /\ forgive(r) /\ pool' = removeRequest(dropAccept(pool, t), q)
          /\ tasks' = IF starts THEN put(tasks, t, q) ELSE tasks
          /\ requester' = IF ~pending(q) THEN requester
                          ELSE [requester EXCEPT ![q] = [state |-> st, task |-> t]]
          /\ toRunner' = messageRunner(toRunner, r, <<k, t>>)
    <3> DEFINE go == pending(q) /\ isRunnerReachable(r)
    <3>1. /\ forgive(r) /\ pool' = removeRequest(dropAccept(pool, t), q)
          /\ tasks' = IF go THEN put(tasks, t, q) ELSE tasks
          /\ requester' = IF ~pending(q) THEN requester
                          ELSE [requester EXCEPT ![q] =
                                  [state |-> IF go THEN "running" ELSE "error", task |-> t]]
          /\ toRunner' = messageRunner(toRunner, r,
                           <<IF pending(q) THEN "settings" ELSE "cancel", t>>)
      BY <1>1, <1>7, <2>1 DEF RunnerAccepts
    <3>2. CASE go BY <3>1, <3>2
    <3>3. CASE ~go /\ pending(q) BY <3>1, <3>3
    <3>4. CASE ~go /\ ~pending(q) BY <3>1, <3>4
    <3> QED BY <3>2, <3>3, <3>4
  <2>4. /\ pool \in Pools(c) /\ Sound(pool, c, {}) /\ Delivering(toRunner, pool, c) /\ Context(c)
        /\ c.acceptable = Acceptable /\ c.asked = AskedFor /\ c.issued = Issued
    BY <1>3, <2>1, CtxFields DEF Sound
  <2>5. t \in c.acceptable /\ q \in c.asked BY <2>1, <2>2, <2>4, PoolFields
  <2>6. t \notin DOMAIN tasks /\ q \in Request BY <2>4, <2>5 DEF Acceptable, AskedFor
  <2>7. pending(q) <=> requester[q].state = "requested"
    BY <1>3, <2>6 DEF pending, SyncOK, Range
  <2>8. /\ DOMAIN tasks' = IF starts THEN DOMAIN tasks \cup {t} ELSE DOMAIN tasks
        /\ \A u \in DOMAIN tasks : tasks'[u] = tasks[u] /\ u # t
        /\ starts => tasks'[t] = q
    BY <2>3, <2>6 DEF put
  <2>9. Calm BY <1>4, <1>5, <2>8
  <2>10. /\ requester' \in [Request -> [state : States, task : Task \cup {NoTask}]]
         /\ pending(q) => requester'[q].state = st /\ requester'[q].task = t
         /\ ~pending(q) => requester'[q] = requester[q]
         /\ \A x \in Request \ {q} : requester'[x] = requester[x]
    <3>1. requester \in [Request -> [state : States, task : Task \cup {NoTask}]]
      BY <1>3 DEF ShapesOK
    <3>2. PICK R : R = [state : States, task : Task \cup {NoTask}] OBVIOUS
    <3>3. PICK e : e = [state |-> st, task |-> t] OBVIOUS
    <3>4. e \in R /\ e.state = st /\ e.task = t BY <1>4, <3>2, <3>3 DEF States
    <3>5. requester \in [Request -> R] BY <3>1, <3>2
    <3>6. requester' = IF ~pending(q) THEN requester ELSE [requester EXCEPT ![q] = e] BY <2>3, <3>3
    <3>7. /\ requester' \in [Request -> R]
          /\ pending(q) => requester'[q] = e
          /\ ~pending(q) => requester'[q] = requester[q]
          /\ \A x \in Request \ {q} : requester'[x] = requester[x]
      BY <2>6, <3>4, <3>5, <3>6
    <3> QED BY <3>2, <3>4, <3>7
  <2>11. AskedFor \subseteq AskedFor' BY <2>6, <2>10 DEF AskedFor
  <2>12. PICK p, n : p = dropAccept(pool, t) /\ n = pool' OBVIOUS
  <2>13. /\ p \in Pools(c) /\ OneEach(p) /\ p.offers = pool.offers /\ p.requests = pool.requests
         /\ p.busy = pool.busy /\ Range(p.accepts) = Range(pool.accepts) \ {a}
    <3>1. p = dropAccept(pool, a.task) BY <2>2, <2>12
    <3>2. p \in Pools(c) /\ OneEach(p) BY <2>2, <2>4, <3>1, AcceptDropped
    <3>3. p.offers = pool.offers /\ p.requests = pool.requests /\ p.busy = pool.busy
      BY <2>2, <2>4, <3>1, AcceptDropped
    <3>4. Range(p.accepts) = Range(pool.accepts) \ {a} BY <2>2, <2>4, <3>1, AcceptDropped
    <3> QED BY <3>2, <3>3, <3>4
  <2>14. /\ Sound(n, c, {}) /\ n.offers = p.offers /\ n.accepts = p.accepts
         /\ Range(n.requests) = Range(p.requests) \ {q}
    <3>1. OneEach(pool) /\ Marked(pool, {}) BY <2>4 DEF Sound
    <3>2. p.busy \subseteq Range(p.requests) BY <2>13, <3>1 DEF Marked
    <3>3. \A x \in Range(p.requests) \ {q} :
            /\ x \in p.busy <=> \E b \in Range(p.accepts) : b.request = x
            /\ \A b, e \in Range(p.accepts) : b.request = x /\ e.request = x => b = e
      BY <2>1, <2>13, <3>1 DEF Marked
    <3>4. n = removeRequest(p, q) BY <2>3, <2>12
    <3>5. Sound(n, c, {}) BY <2>13, <3>2, <3>3, <3>4, RequestRemoved
    <3>6. n.offers = p.offers /\ n.accepts = p.accepts
      BY <2>13, <3>2, <3>3, <3>4, RequestRemoved
    <3>7. Range(n.requests) = Range(p.requests) \ {q}
      BY <2>13, <3>2, <3>3, <3>4, RequestRemoved
    <3> QED BY <3>5, <3>6, <3>7
  <2>15. t \notin Range(n.offers) /\ \A b \in Range(n.accepts) : b.task # t
    <3>1. OneEach(pool) BY <2>4 DEF Sound
    <3> QED BY <2>2, <2>13, <2>14, <3>1 DEF OneEach
  <2>16. /\ Delivering(toRunner', pool, c) /\ Gains(toRunner', toRunner, {k})
         /\ isRunnerReachable(r) => <<k, t>> \in Range(toRunner'[r])
    <3>1. PICK f, g : f = <<k, t>> /\ g = toRunner' OBVIOUS
    <3>2. f \in Down(r, c.issued) /\ f[1] = k BY <1>4, <2>4, <3>1, TaskFrame
    <3>3. g = messageRunner(toRunner, r, f) /\ f[1] # "offeraccept" /\ c.issued \subseteq Task
      BY <2>3, <2>4, <3>1, <3>2 DEF Context
    <3>4. /\ Delivering(g, pool, c) /\ Gains(g, toRunner, {f[1]})
          /\ isRunnerReachable(r) => f \in Range(g[r])
      BY <2>4, <3>2, <3>3, Told
    <3> QED BY <3>1, <3>2, <3>4
  <2>17. Delivering(toRunner', n, c)
    <3>1. \A x \in Runner : <<"offeraccept", a.task>> \notin Range(toRunner'[x])
      <4> SUFFICES ASSUME NEW x \in Runner, <<"offeraccept", t>> \in Range(toRunner'[x]) PROVE FALSE
        BY <2>2
      <4>1. <<"offeraccept", t>>[1] # k OBVIOUS
      <4>2. <<"offeraccept", t>> \in Range(toRunner[x]) BY <2>16, <4>1 DEF Gains
      <4> QED BY <1>4, <1>5, <4>2, AnsweredFor
    <3>2. PICK g : g = toRunner' OBVIOUS
    <3>3. /\ Delivering(g, pool, c) /\ Range(n.offers) \subseteq Range(pool.offers)
          /\ Range(pool.accepts) \ {a} \subseteq Range(n.accepts)
          /\ \A x \in Runner : <<"offeraccept", a.task>> \notin Range(g[x])
      BY <2>13, <2>14, <2>16, <3>1, <3>2
    <3>4. Delivering(g, n, c) BY <3>3, Forgotten
    <3> QED BY <3>2, <3>4
  <2>18. PoolOK' /\ DownOK'
    <3>1. PICK g, N, T : g = toRunner' /\ N = {t} /\ T = {} OBVIOUS
    <3>2. Sound(n, Ctx, {}) /\ Delivering(g, n, Ctx) BY <2>1, <2>14, <2>17, <3>1
    <3>3. /\ Quiet \ T \subseteq Quiet' /\ Acceptable \ N \subseteq Acceptable' /\ Issued' = Issued
      BY <1>3, <2>8, <2>9, <3>1, CalmTasks DEF Acceptable
    <3>4. Range(n.offers) \cap (T \cup N) = {} /\ \A b \in Range(n.accepts) : b.task \notin N
      BY <2>15, <3>1
    <3>5. g \in Frames /\ \A x \in Runner : g[x] \in Seq(Down(x, Issued'))
      BY <3>2, <3>3, CtxFields DEF Delivering
    <3>6. Live' = Live BY <1>2 DEF Live
    <3>7. Passed(g, g, T) BY <3>1, <3>5, <3>6 DEF Passed
    <3>8. PICK d : Seen(d, n, g)
      BY <2>11, <3>2, <3>3, <3>4, <3>5, <3>7, Transfer
    <3> QED BY <2>12, <3>1, <3>8, SeenNow DEF Seen
  <2>19. strikes' \in [Runner -> 0..MaxStrikes]
    BY <1>3, <2>3, BrokerAssumption DEF ShapesOK, forgive
  <2>20. ShapesOK'
    <3>1. Issued' = Issued BY <1>2 DEF Issued
    <3>2. DOMAIN tasks' \subseteq Issued' /\ \A u \in DOMAIN tasks' : tasks'[u] \in Request
      BY <1>3, <1>4, <2>6, <2>8, <3>1 DEF ShapesOK
    <3> QED BY <1>2, <1>3, <2>10, <2>19, <3>2 DEF ShapesOK
  <2>21. SyncOK'
    <3>1. Range(pool'.requests) = {x \in Request : requester'[x].state = "requested"}
      BY <1>3, <2>6, <2>7, <2>10, <2>12, <2>13, <2>14 DEF SyncOK
    <3>2. ASSUME NEW u \in DOMAIN tasks'
          PROVE  requester'[tasks'[u]].state = "running" /\ requester'[tasks'[u]].task = u
      <4>1. CASE u \in DOMAIN tasks
        <5>1. /\ tasks'[u] = tasks[u] /\ tasks[u] \in Request
              /\ requester[tasks[u]].state = "running" /\ requester[tasks[u]].task = u
          BY <1>3, <2>8, <4>1 DEF SyncOK, ShapesOK
        <5> QED BY <2>7, <2>10, <5>1
      <4>2. CASE u \notin DOMAIN tasks BY <2>3, <2>8, <2>10, <3>2, <4>2
      <4> QED BY <4>1, <4>2
    <3>3. ASSUME NEW x \in Request, requester'[x].state = "running"
          PROVE  requester'[x].task \in DOMAIN tasks' /\ tasks'[requester'[x].task] = x
      <4>1. CASE x = q /\ pending(q) BY <2>3, <2>8, <2>10, <3>3, <4>1
      <4>2. CASE ~(x = q /\ pending(q)) BY <1>3, <2>8, <2>10, <3>3, <4>2 DEF SyncOK
      <4> QED BY <4>1, <4>2
    <3> QED BY <3>1, <3>2, <3>3 DEF SyncOK
  <2>22. ASSUME NEW u \in Task, conn[u[1]] = "open",
                u \in DOMAIN tasks \/ \E b \in Range(pool.accepts) : b.task = u
         PROVE  Accounted(u)'
    <3>1. CASE u # t BY <2>2, <2>8, <2>12, <2>13, <2>14, <2>22, <3>1 DEF Accounted
    <3>2. CASE u = t
      <4>1. isRunnerReachable(r) BY <1>3, <1>4, <2>22, <3>2, Reachable
      <4> QED BY <1>4, <2>3, <2>8, <2>16, <3>2, <4>1 DEF Accounted
    <3> QED BY <3>1, <3>2
  <2>23. PICK K : K = {k} OBVIOUS
  <2> QED BY <1>2, <2>9, <2>16, <2>18, <2>20, <2>21, <2>22, <2>23, SteadyStep
<1> QED BY <1>6, <1>7

-----------------------------------------------------------------------------
\* The runners' steps keep the invariant.

\* Fewer frames at the head leave the rest in order.
LEMMA DeliveryBehind ==
  ASSUME NEW S, NEW s \in Seq(S), s # <<>>, NEW p, NEW r, NEW c, Delivery(s, p, r, c)
  PROVE  /\ Delivery(Tail(s), p, r, c)
         /\ \A t \in Task : Head(s) = <<"offeraccept", t>> =>
              /\ t \in c.quiet /\ t \notin Range(p.offers) /\ Head(s) \notin Range(Tail(s))
              /\ r \in c.live => \/ \E a \in Range(p.accepts) : a.task = t
                                 \/ <<"cancel", t>> \in Range(Tail(s))
<1> DEFINE K == {"offeraccept"} \X Task
           n == Tail(s)
<1>1. OnceIn(s, K) BY DEF Delivery
<1> HIDE DEF K, n
<1>2. /\ Head(s) \in Range(s) /\ Range(n) \subseteq Range(s)
      /\ OnceIn(n, K) /\ (Head(s) \in K => Head(s) \notin Range(n))
      /\ \A x, y : FollowedBy(s, x, y) =>
           FollowedBy(n, x, y) /\ (Head(s) = x => y \in Range(n))
  BY <1>1, Dequeued DEF n
<1>3. \A t \in Task : Sequel(t, s, p) => Sequel(t, n, p) BY <1>2 DEF Sequel
<1>4. Delivery(n, p, r, c) BY <1>2, <1>3 DEF Delivery, K
<1>5. ASSUME NEW t \in Task, Head(s) = <<"offeraccept", t>>
      PROVE  /\ t \in c.quiet /\ t \notin Range(p.offers) /\ Head(s) \notin Range(n)
             /\ r \in c.live => \/ \E a \in Range(p.accepts) : a.task = t
                                \/ <<"cancel", t>> \in Range(n)
  <2>1. Head(s) \in K BY <1>5 DEF K
  <2>2. r \in c.live => Sequel(t, s, p) BY <1>2, <1>5 DEF Delivery
  <2> QED BY <1>2, <1>5, <2>1, <2>2 DEF Delivery, Sequel
<1> QED BY <1>4, <1>5 DEF n

\* Runner r takes a frame: what was in order stays so, and the task of an acceptance has not
\* come further.
LEMMA Gotten ==
  ASSUME IInv, NEW r \in Runner, NEW kind, Gets(r, kind), NEW t, t = Named(r)
  PROVE  /\ Delivering(toRunner', pool, Ctx)
         /\ \A x \in Runner \ {r} : toRunner'[x] = toRunner[x]
         /\ Range(toRunner[r]) = {<<kind, t>>} \cup Range(toRunner'[r])
         /\ kind # "registered" /\ kind # "drain" => t \in Issued /\ t \in Task /\ t[1] = r
         /\ <<kind, t>> \in Down(r, Issued)
         /\ kind = "offeraccept" =>
              /\ t \in Quiet /\ t \notin Range(pool.offers)
              /\ <<"offeraccept", t>> \notin Range(toRunner'[r])
              /\ r \in Live => \/ \E a \in Range(pool.accepts) : a.task = t
                               \/ <<"cancel", t>> \in Range(toRunner'[r])
<1> DEFINE F == {"offeraccept", "settings", "cancel", "registered", "drain"} \X (Task \cup {NoTask})
           D == Down(r, Issued)
           s == toRunner[r]
           f == Head(s)
<1>1. s # <<>> /\ f[1] = kind /\ toRunner' = [toRunner EXCEPT ![r] = Tail(s)] /\ t = f[2]
  BY DEF Gets, Named
<1>2. PICK c : c = Ctx OBVIOUS
<1>3. Delivering(toRunner, pool, c) /\ c.issued = Issued /\ c.quiet = Quiet /\ c.live = Live
  BY <1>2, CtxFields DEF IInv, DownOK
<1>4. toRunner \in [Runner -> Seq(F)] /\ s \in Seq(D) /\ Delivery(s, pool, r, c)
  BY <1>3 DEF Delivering, Frames
<1> HIDE DEF F, D
<1>5. Tail(s) \in Seq(F) /\ Tail(s) \in Seq(D)
  <2>1. s \in Seq(F) BY <1>4
  <2> HIDE DEF s
  <2> QED BY <1>1, <1>4, <2>1, Dequeued
<1>6. /\ toRunner' \in [Runner -> Seq(F)] /\ toRunner'[r] = Tail(s)
      /\ \A x \in Runner \ {r} : toRunner'[x] = toRunner[x]
  BY <1>1, <1>4, <1>5
<1> HIDE DEF s
<1>7. f \in D /\ Range(s) = {f} \cup Range(Tail(s)) BY <1>1, <1>4, Dequeued
<1>8. /\ f = <<kind, t>> /\ <<kind, t>> \in Down(r, Issued)
      /\ kind # "registered" /\ kind # "drain" => t \in Issued /\ t[1] = r
  BY <1>1, <1>7 DEF D, Down
<1>9. /\ Delivery(Tail(s), pool, r, c)
      /\ \A u \in Task : f = <<"offeraccept", u>> =>
           /\ u \in c.quiet /\ u \notin Range(pool.offers) /\ f \notin Range(Tail(s))
           /\ r \in c.live => \/ \E a \in Range(pool.accepts) : a.task = u
                              \/ <<"cancel", u>> \in Range(Tail(s))
  BY <1>1, <1>4, DeliveryBehind
<1>10. Delivering(toRunner', pool, Ctx)
  <2>1. PICK g : g = toRunner' OBVIOUS
  <2>2. g \in Frames BY <1>6, <2>1 DEF Frames, F
  <2>3. ASSUME NEW x \in Runner PROVE g[x] \in Seq(Down(x, c.issued)) /\ Delivery(g[x], pool, x, c)
    <3>1. CASE x = r BY <1>3, <1>5, <1>6, <1>9, <2>1, <3>1 DEF D
    <3>2. CASE x # r BY <1>3, <1>6, <2>1, <3>2 DEF Delivering
    <3> QED BY <3>1, <3>2
  <2>4. Delivering(g, pool, c) BY <2>2, <2>3 DEF Delivering
  <2> QED BY <1>2, <2>1, <2>4
<1>11. t \in Issued => t \in Task BY DEF Issued
<1>12. kind = "offeraccept" =>
         /\ t \in Quiet /\ t \notin Range(pool.offers)
         /\ <<"offeraccept", t>> \notin Range(toRunner'[r])
         /\ r \in Live => \/ \E a \in Range(pool.accepts) : a.task = t
                          \/ <<"cancel", t>> \in Range(toRunner'[r])
  <2> SUFFICES ASSUME kind = "offeraccept" PROVE
         /\ t \in Quiet /\ t \notin Range(pool.offers)
         /\ <<"offeraccept", t>> \notin Range(toRunner'[r])
         /\ r \in Live => \/ \E a \in Range(pool.accepts) : a.task = t
                          \/ <<"cancel", t>> \in Range(toRunner'[r])
    OBVIOUS
  <2>1. t \in Task /\ f = <<"offeraccept", t>> BY <1>8, <1>11
  <2> HIDE DEF f
  <2> QED BY <1>3, <1>6, <1>9, <2>1
<1> QED BY <1>6, <1>7, <1>8, <1>10, <1>11, <1>12 DEF s

\* What is left to show of a runner's step that takes and offers nothing.
LEMMA IdleRunnerStep ==
  ASSUME IInv, NEW r \in Runner,
         UNCHANGED <<requester, pool, tasks, strikes, known, conn, removals, session, toBroker>>,
         offered' = offered, NEW n \in Proc, proc' = [proc EXCEPT ![r] = n],
         DOMAIN n.running \subseteq DOMAIN proc[r].running,
         n.openOffers \subseteq proc[r].openOffers,
         proc[r].draining => n.draining \/ n.openOffers = {}, n.offering => conn[r] # "none",
         Delivering(toRunner', pool, Ctx),
         \A x \in Runner : Range(toRunner'[x]) \subseteq Range(toRunner[x]),
         \A t \in Task : Held(t)' /\ Accounted(t) => Accounted(t)'
  PROVE  IInv'
<1>1. /\ ShapesOK /\ SyncOK /\ UpQueues /\ ProcOK /\ RemovalsOK /\ SlotsOK
      /\ Sound(pool, Ctx, {})
  BY DEF IInv, UpOK, PoolOK
<1>2. /\ proc' \in [Runner -> Proc] /\ proc'[r] = n /\ \A x \in Runner \ {r} : proc'[x] = proc[x]
  BY <1>1 DEF ProcOK
<1>3. Calm
  <2>1. DOMAIN toBroker' = Runner BY <1>1 DEF UpQueues
  <2>2. \A x \in Runner : Drops(x) BY DEF Drops
  <2> QED BY <1>2, <2>1, <2>2 DEF Calm
<1>4. ShapesOK' BY <1>1 DEF ShapesOK, Issued
<1>5. SyncOK' BY <1>1 DEF SyncOK
<1>6. PoolOK' /\ DownOK'
  <2>1. PICK g : g = toRunner' OBVIOUS
  <2>2. g = [x \in Runner |-> g[x]] BY <2>1 DEF Delivering, Frames
  <2>3. Live' = Live BY DEF Live
  <2>4. Reset(g, g) BY <2>2, <2>3 DEF Reset
  <2>5. AskedFor \subseteq AskedFor' BY DEF AskedFor
  <2>6. PICK d : Seen(d, pool, g) BY <1>1, <1>3, <2>1, <2>4, <2>5, CalmContext
  <2> QED BY <2>1, <2>6, SeenNow DEF Seen
<1>7. RemovalsOK' BY <1>1, <1>3, RemovalsKept
<1>8. SlotsOK' BY <1>1, <1>3, SlotsKept
<1>9. ASSUME NEW x \in Runner, conn'[x] = "none" PROVE Unplugged(x)'
  <2>1. Unplugged(x) BY <1>1, <1>9 DEF ProcOK
  <2>2. <<"registered", NoTask>> \notin Range(toRunner'[x]) BY <2>1 DEF Unplugged
  <2>3. CASE x = r BY <1>2, <1>9, <2>1, <2>2, <2>3 DEF Unplugged
  <2>4. CASE x # r BY <1>2, <2>1, <2>2, <2>4 DEF Unplugged
  <2> QED BY <2>3, <2>4
<1> QED BY <1>3, <1>4, <1>5, <1>6, <1>7, <1>8, <1>9, CalmStep

\* A process, and one of its tasks.
LEMMA ProcFields ==
  ASSUME NEW p \in Proc
  PROVE  /\ p.openOffers \subseteq Task /\ DOMAIN p.running \subseteq Task
         /\ p.running \in [DOMAIN p.running -> Status]
         /\ p.alive \in BOOLEAN /\ p.launcher \in BOOLEAN
         /\ p.offering \in BOOLEAN /\ p.draining \in BOOLEAN
<1>1. PICK D \in SUBSET Task : p.running \in [D -> Status] BY DEF Proc, Runs
<1>2. DOMAIN p.running = D BY <1>1
<1> QED BY <1>1, <1>2 DEF Proc

\* A process with other tasks.
LEMMA ProcWith ==
  ASSUME NEW p \in Proc, NEW f, DOMAIN f \subseteq Task, f \in [DOMAIN f -> Status],
         NEW n, n = [p EXCEPT !.running = f]
  PROVE  /\ n \in Proc /\ n.running = f /\ n.openOffers = p.openOffers
         /\ n.offering = p.offering /\ n.draining = p.draining
<1>1. f \in Runs BY DEF Runs
<1> QED BY <1>1 DEF Proc

\* The status of a task it has changes.
LEMMA StatusStep ==
  ASSUME IInv, NEW r \in Runner, NEW t \in Task, t \in DOMAIN proc[r].running,
         NEW st \in Status, setStatus(r, t, st),
         UNCHANGED <<requester, pool, tasks, strikes, known, conn, removals, session, toBroker>>,
         offered' = offered, Delivering(toRunner', pool, Ctx),
         \A x \in Runner : Range(toRunner'[x]) \subseteq Range(toRunner[x]),
         \A u \in Task : /\ <<"cancel", u>> \in Range(toRunner[u[1]]) /\ u # t
                         => <<"cancel", u>> \in Range(toRunner'[u[1]]),
         \/ st \in {"aborting:cancelled", "aborting:timeout"}
         \/ /\ proc[r].running[t] = "waitingForSettings"
            /\ <<"cancel", t>> \in Range(toRunner[r]) => <<"cancel", t>> \in Range(toRunner'[r])
  PROVE  IInv'
<1>1. PICK p, f, n : p = proc[r] /\ f = put(p.running, t, st) /\ n = [p EXCEPT !.running = f]
  OBVIOUS
<1>2. ProcOK /\ p \in Proc BY <1>1 DEF IInv, ProcOK
<1>3. /\ DOMAIN p.running \subseteq Task /\ p.running \in [DOMAIN p.running -> Status]
  BY <1>2, ProcFields
<1>4. /\ DOMAIN f = DOMAIN p.running /\ f \in [DOMAIN f -> Status] /\ f[t] = st
      /\ \A u \in DOMAIN f : u # t => f[u] = p.running[u]
  BY <1>1, <1>3 DEF put
<1>5. /\ n \in Proc /\ n.running = f /\ n.openOffers = p.openOffers
      /\ n.offering = p.offering /\ n.draining = p.draining
  BY <1>1, <1>2, <1>3, <1>4, ProcWith
<1>6. proc' = [proc EXCEPT ![r] = n] BY <1>1 DEF setStatus
<1>7. /\ proc \in [Runner -> Proc] /\ proc'[r] = n /\ \A x \in Runner \ {r} : proc'[x] = proc[x]
  BY <1>2, <1>5, <1>6 DEF ProcOK
<1>8. t[1] = r /\ \A u \in DOMAIN p.running : u[1] = r
  <2>1. Slots(r) BY <1>2 DEF ProcOK
  <2> QED BY <1>1, <2>1 DEF Slots
<1>9. n.offering => conn[r] # "none" BY <1>1, <1>2, <1>5 DEF ProcOK, Unplugged
<1>10. ASSUME NEW u \in Task, Held(u)', Accounted(u) PROVE Accounted(u)'
  <2>1. u[1] \in Runner BY TaskRunner
  <2>2. CASE u = t
    <3>1. CASE st \in {"aborting:cancelled", "aborting:timeout"}
      BY <1>4, <1>5, <1>7, <1>8, <2>2, <3>1 DEF Accounted
    <3>2. CASE /\ proc[r].running[t] = "waitingForSettings"
               /\ <<"cancel", t>> \in Range(toRunner[r]) => <<"cancel", t>> \in Range(toRunner'[r])
      BY <1>8, <1>10, <2>2, <3>2 DEF Accounted
    <3> QED BY <3>1, <3>2
  <2>3. CASE u # t
    <3>1. CASE u[1] = r
      <4>1. proc'[u[1]].running = f BY <1>5, <1>7, <3>1
      <4>2. u \in DOMAIN f BY <1>10, <4>1 DEF Held
      <4>3. proc'[u[1]].running[u] = proc[u[1]].running[u] BY <1>1, <1>4, <2>3, <3>1, <4>1, <4>2
      <4> QED BY <1>10, <2>3, <4>3 DEF Accounted
    <3>2. CASE u[1] # r
      <4>1. proc'[u[1]] = proc[u[1]] BY <1>7, <2>1, <3>2
      <4> QED BY <1>10, <2>3, <4>1 DEF Accounted
    <3> QED BY <3>1, <3>2
  <2> QED BY <2>2, <2>3
<1>11. /\ DOMAIN n.running \subseteq DOMAIN proc[r].running /\ n.openOffers \subseteq proc[r].openOffers
       /\ proc[r].draining => n.draining \/ n.openOffers = {}
  BY <1>1, <1>4, <1>5
<1> QED BY <1>5, <1>6, <1>9, <1>10, <1>11, IdleRunnerStep

\* ReceivedSettings.
LEMMA ReceivedSettingsStep == ASSUME IInv, NEW r \in Runner, ReceivedSettings(r) PROVE IInv'
<1>1. PICK t, kind : t = Named(r) /\ kind = "settings" OBVIOUS
<1>2. /\ Gets(r, kind) /\ offered' = offered
      /\ UNCHANGED <<requester, pool, tasks, strikes, known, conn, removals, session, toBroker>>
      /\ IF statusOf(r, t) = "waitingForSettings" THEN setStatus(r, t, "running") ELSE UNCHANGED proc
  BY <1>1 DEF ReceivedSettings, signs, links
<1>3. /\ Delivering(toRunner', pool, Ctx) /\ t \in Task /\ t[1] = r
      /\ \A x \in Runner \ {r} : toRunner'[x] = toRunner[x]
      /\ Range(toRunner[r]) = {<<kind, t>>} \cup Range(toRunner'[r])
  <2>1. Gets(r, kind) /\ t = Named(r) BY <1>1, <1>2
  <2>2. kind # "registered" /\ kind # "drain" BY <1>1
  <2> QED BY <2>1, <2>2, Gotten
<1>4. /\ \A x \in Runner : Range(toRunner'[x]) \subseteq Range(toRunner[x])
      /\ \A u \in Task : <<"cancel", u>> \in Range(toRunner[u[1]])
                         => <<"cancel", u>> \in Range(toRunner'[u[1]])
  <2>1. \A x \in Runner : Range(toRunner'[x]) \subseteq Range(toRunner[x])
    BY <1>3
  <2>2. ASSUME NEW u \in Task, <<"cancel", u>> \in Range(toRunner[u[1]])
        PROVE  <<"cancel", u>> \in Range(toRunner'[u[1]])
    <3>1. u[1] \in Runner /\ <<"cancel", u>> # <<kind, t>> BY <1>1, TaskRunner
    <3> QED BY <1>3, <2>2, <3>1
  <2> QED BY <2>1, <2>2
<1>5. CASE statusOf(r, t) = "waitingForSettings"
  <2>1. PICK st : st = "running" OBVIOUS
  <2>2. /\ t \in DOMAIN proc[r].running /\ proc[r].running[t] = "waitingForSettings"
        /\ st \in Status /\ setStatus(r, t, st)
    BY <1>2, <1>5, <2>1 DEF statusOf, Status
  <2> QED BY <1>2, <1>3, <1>4, <2>2, StatusStep
<1>6. CASE UNCHANGED proc
  <2>1. PICK n : n = proc[r] OBVIOUS
  <2>2. ProcOK BY DEF IInv
  <2>3. n \in Proc /\ proc' = [proc EXCEPT ![r] = n] /\ (n.offering => conn[r] # "none")
    BY <1>6, <2>1, <2>2 DEF ProcOK, Unplugged
  <2>4. \A u \in Task : Accounted(u) => Accounted(u)' BY <1>2, <1>4, <1>6 DEF Accounted
  <2> QED BY <1>2, <1>3, <1>4, <2>1, <2>3, <2>4, IdleRunnerStep
<1> QED BY <1>2, <1>5, <1>6

\* A frame that is no cancellation is taken: the cancellations stay on their way.
LEMMA OthersKept ==
  ASSUME IInv, NEW r \in Runner, NEW kind, Gets(r, kind), kind # "cancel"
  PROVE  /\ Delivering(toRunner', pool, Ctx)
         /\ \A x \in Runner : Range(toRunner'[x]) \subseteq Range(toRunner[x])
         /\ \A u \in Task : <<"cancel", u>> \in Range(toRunner[u[1]])
                            => <<"cancel", u>> \in Range(toRunner'[u[1]])
<1>1. PICK t : t = Named(r) OBVIOUS
<1>2. /\ Delivering(toRunner', pool, Ctx)
      /\ \A x \in Runner \ {r} : toRunner'[x] = toRunner[x]
      /\ Range(toRunner[r]) = {<<kind, t>>} \cup Range(toRunner'[r])
  BY <1>1, Gotten
<1>3. \A x \in Runner : Range(toRunner'[x]) \subseteq Range(toRunner[x]) BY <1>2
<1>4. ASSUME NEW u \in Task, <<"cancel", u>> \in Range(toRunner[u[1]])
      PROVE  <<"cancel", u>> \in Range(toRunner'[u[1]])
  <2>1. u[1] \in Runner /\ <<"cancel", u>> # <<kind, t>> BY TaskRunner
  <2> QED BY <1>2, <1>4, <2>1
<1> QED BY <1>2, <1>3, <1>4

\* A process with the same tasks.
LEMMA SameTasksStep ==
  ASSUME IInv, NEW r \in Runner,
         UNCHANGED <<requester, pool, tasks, strikes, known, conn, removals, session, toBroker>>,
         offered' = offered, NEW n \in Proc, proc' = [proc EXCEPT ![r] = n],
         n.running = proc[r].running, n.openOffers \subseteq proc[r].openOffers,
         proc[r].draining => n.draining, n.offering => conn[r] # "none",
         Delivering(toRunner', pool, Ctx),
         \A x \in Runner : Range(toRunner'[x]) \subseteq Range(toRunner[x]),
         \A u \in Task : <<"cancel", u>> \in Range(toRunner[u[1]])
                         => <<"cancel", u>> \in Range(toRunner'[u[1]])
  PROVE  IInv'
<1>1. ProcOK BY DEF IInv
<1>2. proc'[r] = n /\ \A x \in Runner \ {r} : proc'[x] = proc[x] BY <1>1 DEF ProcOK
<1>3. ASSUME NEW u \in Task, Accounted(u) PROVE Accounted(u)'
  <2>1. proc'[u[1]].running = proc[u[1]].running
    <3>1. u[1] \in Runner BY TaskRunner
    <3>2. CASE u[1] = r BY <1>2, <3>2
    <3>3. CASE u[1] # r BY <1>2, <3>1, <3>3
    <3> QED BY <3>2, <3>3
  <2> QED BY <1>3, <2>1 DEF Accounted
<1> QED BY <1>3, IdleRunnerStep

\* OnRegistered: the runner of a connection starts to offer.
LEMMA OnRegisteredStep == ASSUME IInv, NEW r \in Runner, OnRegistered(r) PROVE IInv'
<1>1. PICK t, kind, n : /\ t = Named(r) /\ kind = "registered"
                        /\ n = [proc[r] EXCEPT !.offering = TRUE]
  OBVIOUS
<1>2. /\ Gets(r, kind) /\ offered' = offered /\ proc' = [proc EXCEPT ![r] = n]
      /\ UNCHANGED <<requester, pool, tasks, strikes, known, conn, removals, session, toBroker>>
  BY <1>1 DEF OnRegistered, signs, links
<1>3. ProcOK /\ proc[r] \in Proc BY DEF IInv, ProcOK
<1>4. /\ n \in Proc /\ n.running = proc[r].running /\ n.openOffers = proc[r].openOffers
      /\ n.draining = proc[r].draining
  BY <1>1, <1>3 DEF Proc
<1>5. conn[r] # "none"
  <2>1. Gets(r, kind) /\ t = Named(r) BY <1>1, <1>2
  <2>2. Range(toRunner[r]) = {<<kind, t>>} \cup Range(toRunner'[r]) BY <2>1, Gotten
  <2>3. t = NoTask
    <3>1. <<kind, t>> \in Down(r, Issued) BY <2>1, Gotten
    <3> QED BY <1>1, <3>1 DEF Down
  <2>4. <<"registered", NoTask>> \in Range(toRunner[r]) BY <1>1, <2>2, <2>3
  <2> QED BY <1>3, <2>4 DEF ProcOK, Unplugged
<1>6. kind # "cancel" BY <1>1
<1>7. /\ Delivering(toRunner', pool, Ctx)
      /\ \A x \in Runner : Range(toRunner'[x]) \subseteq Range(toRunner[x])
      /\ \A u \in Task : <<"cancel", u>> \in Range(toRunner[u[1]])
                         => <<"cancel", u>> \in Range(toRunner'[u[1]])
  BY <1>2, <1>6, OthersKept
<1> QED BY <1>2, <1>4, <1>5, <1>7, SameTasksStep

\* OnDrain: the runner offers no more.
LEMMA OnDrainStep == ASSUME IInv, NEW r \in Runner, OnDrain(r) PROVE IInv'
<1>1. PICK kind, n : /\ kind = "drain"
                     /\ n = [proc[r] EXCEPT !.draining = TRUE, !.offering = FALSE]
  OBVIOUS
<1>2. /\ Gets(r, kind) /\ offered' = offered /\ proc' = [proc EXCEPT ![r] = n]
      /\ UNCHANGED <<requester, pool, tasks, strikes, known, conn, removals, session, toBroker>>
  BY <1>1 DEF OnDrain, signs, links
<1>3. proc[r] \in Proc BY DEF IInv, ProcOK
<1>4. /\ n \in Proc /\ n.running = proc[r].running /\ n.openOffers = proc[r].openOffers
      /\ n.draining /\ ~n.offering
  BY <1>1, <1>3 DEF Proc
<1>5. kind # "cancel" BY <1>1
<1>6. /\ Delivering(toRunner', pool, Ctx)
      /\ \A x \in Runner : Range(toRunner'[x]) \subseteq Range(toRunner[x])
      /\ \A u \in Task : <<"cancel", u>> \in Range(toRunner[u[1]])
                         => <<"cancel", u>> \in Range(toRunner'[u[1]])
  BY <1>2, <1>5, OthersKept
<1> QED BY <1>2, <1>4, <1>6, SameTasksStep

\* RunnerDrains.
LEMMA RunnerDrainsStep == ASSUME IInv, NEW r \in Runner, RunnerDrains(r) PROVE IInv'
<1>1. PICK n : n = [proc[r] EXCEPT !.draining = TRUE, !.offering = FALSE, !.openOffers = {}]
  OBVIOUS
<1>2. /\ offered' = offered /\ proc' = [proc EXCEPT ![r] = n] /\ toRunner' = toRunner
      /\ UNCHANGED <<requester, pool, tasks, strikes, known, conn, removals, session, toBroker>>
  BY <1>1 DEF RunnerDrains, signs, links
<1>3. proc[r] \in Proc BY DEF IInv, ProcOK
<1>4. /\ n \in Proc /\ n.running = proc[r].running /\ n.openOffers = {}
      /\ n.draining /\ ~n.offering
  BY <1>1, <1>3 DEF Proc
<1>5. Delivering(toRunner', pool, Ctx) BY <1>2 DEF IInv, DownOK
<1> QED BY <1>2, <1>4, <1>5, SameTasksStep

\* ProcessDies.
LEMMA ProcessDiesStep == ASSUME IInv, NEW r \in Runner, ProcessDies(r) PROVE IInv'
<1>1. /\ proc' = [proc EXCEPT ![r] = NoProc] /\ toRunner' = [toRunner EXCEPT ![r] = <<>>]
      /\ UNCHANGED <<requester, pool, tasks, strikes, known, removals, session, toBroker>>
      /\ offered' = offered
  BY DEF ProcessDies, signs
<1>2. PICK c : /\ conn' = [conn EXCEPT ![r] = c]
               /\ IF conn[r] = "open" THEN c \in {"open", "dead"} ELSE c = conn[r]
  BY DEF ProcessDies
<1>3. /\ ShapesOK /\ SyncOK /\ UpQueues /\ ProcOK /\ RemovalsOK /\ SlotsOK
      /\ Sound(pool, Ctx, {}) /\ Delivering(toRunner, pool, Ctx)
  BY DEF IInv, UpOK, PoolOK, DownOK
<1>4. /\ conn' \in [Runner -> {"none", "open", "dead"}]
      /\ \A x \in Runner : /\ conn'[x] = "none" <=> conn[x] = "none"
                           /\ conn'[x] = "open" => conn[x] = "open"
  <2>1. conn \in [Runner -> {"none", "open", "dead"}] BY <1>3 DEF ShapesOK
  <2>2. c \in {"none", "open", "dead"} BY <1>2, <2>1
  <2> QED BY <1>2, <2>1, <2>2
<1>5. PICK g : g = toRunner' OBVIOUS
<1>6. /\ g = [x \in Runner |-> g[x]] /\ g[r] = <<>>
      /\ \A x \in Runner \ {r} : g[x] = toRunner[x]
  <2>1. toRunner = [x \in Runner |-> toRunner[x]] BY <1>3 DEF Delivering, Frames
  <2> QED BY <1>1, <1>5, <2>1
<1>7. /\ proc' \in [Runner -> Proc] /\ proc'[r] = NoProc
      /\ \A x \in Runner \ {r} : proc'[x] = proc[x]
      /\ DOMAIN NoProc.running = {} /\ NoProc.openOffers = {} /\ ~NoProc.offering
  BY <1>1, <1>3, EmptyProcs DEF ProcOK
<1>8. Calm
  <2>1. DOMAIN toBroker' = Runner BY <1>1, <1>3 DEF UpQueues
  <2>2. \A x \in Runner : Drops(x) BY <1>1 DEF Drops
  <2>3. ASSUME NEW x \in Runner
        PROVE  /\ DOMAIN proc'[x].running \subseteq DOMAIN proc[x].running
               /\ proc'[x].openOffers \subseteq proc[x].openOffers
               /\ proc[x].draining => proc'[x].draining \/ proc'[x].openOffers = {}
    <3>1. CASE x = r BY <1>7, <3>1
    <3>2. CASE x # r BY <1>7, <3>2
    <3> QED BY <3>1, <3>2
  <2> QED BY <1>1, <1>7, <2>1, <2>2, <2>3 DEF Calm
<1>9. ShapesOK' BY <1>1, <1>3, <1>4 DEF ShapesOK, Issued
<1>10. SyncOK' BY <1>1, <1>3 DEF SyncOK
<1>11. PoolOK' /\ DownOK'
  <2>1. Live' \subseteq Live BY <1>4 DEF Live
  <2>2. PICK f : f = toRunner OBVIOUS
  <2>3. Reset(g, f) BY <1>6, <2>1, <2>2 DEF Reset
  <2>4. AskedFor \subseteq AskedFor' BY <1>1 DEF AskedFor
  <2>5. DOMAIN tasks' \subseteq DOMAIN tasks BY <1>1
  <2>6. PICK d : Seen(d, pool, g) BY <1>3, <1>8, <2>2, <2>3, <2>4, <2>5, CalmContext
  <2> QED BY <1>1, <1>5, <2>6, SeenNow DEF Seen
<1>12. RemovalsOK'
  <2>1. ASSUME NEW m \in removals' PROVE Removing(m)'
    <3>1. Removing(m) BY <1>1, <1>3, <2>1 DEF RemovalsOK
    <3>2. m.rejoin => conn'[m.runner] = "none" BY <1>4, <3>1 DEF Removing, Removal
    <3> QED BY <1>3, <1>8, <3>1, <3>2, RemovingKept
  <2> QED BY <1>1, <1>3, <2>1 DEF RemovalsOK
<1>13. SlotsOK'
  <2>1. ASSUME NEW t \in Task, Mode = "external", conn'[t[1]] = "open", Held(t)'
        PROVE  conn[t[1]] = "open" /\ (Accounted(t) => Accounted(t)')
    <3>1. t[1] \in Runner BY TaskRunner
    <3>2. t[1] # r BY <1>7, <2>1 DEF Held
    <3>3. proc'[t[1]] = proc[t[1]] /\ toRunner'[t[1]] = toRunner[t[1]]
      BY <1>5, <1>6, <1>7, <3>1, <3>2
    <3> QED BY <1>1, <1>4, <2>1, <3>1, <3>3 DEF Accounted
  <2> QED BY <1>3, <1>8, <2>1, SlotsKept
<1>14. ASSUME NEW x \in Runner, conn'[x] = "none" PROVE Unplugged(x)'
  <2>1. Unplugged(x) BY <1>3, <1>4, <1>14 DEF ProcOK
  <2>2. CASE x = r
    <3>1. toRunner'[x] = <<>> /\ proc'[x] = NoProc BY <1>5, <1>6, <1>7, <2>2
    <3>2. <<"registered", NoTask>> \notin Range(toRunner'[x]) BY <3>1, NoFrames
    <3> QED BY <1>7, <3>1, <3>2 DEF Unplugged
  <2>3. CASE x # r
    <3>1. toRunner'[x] = toRunner[x] /\ proc'[x] = proc[x] BY <1>5, <1>6, <1>7, <2>3
    <3> QED BY <2>1, <3>1 DEF Unplugged
  <2> QED BY <2>2, <2>3
<1> QED BY <1>8, <1>9, <1>10, <1>11, <1>12, <1>13, <1>14, CalmStep

\* What a runner's step may do with a task of its own.
Advances(t) ==
  /\ Staged(t)'
  /\ Offering(t)' => Offering(t) \/ t \notin Issued
  /\ Held(t)' \/ t \in proc'[t[1]].openOffers =>
       Held(t) \/ t \in proc[t[1]].openOffers \/ t \notin Issued
  /\ t \in Quiet \ Quiet' =>
       t \notin Range(pool.offers) /\ <<"offeraccept", t>> \notin Range(toRunner'[t[1]])
  /\ Mode = "external" /\ conn[t[1]] = "open" /\ Held(t)' => Accounted(t)'

\* What is left to show of a runner's step that takes or offers tasks.
LEMMA BusyRunnerStep ==
  ASSUME IInv, NEW r \in Runner,
         UNCHANGED <<requester, pool, tasks, strikes, known, conn, removals, session>>,
         NEW n \in Proc, proc' = [proc EXCEPT ![r] = n],
         NEW v, DOMAIN toBroker' = Runner, toBroker'[r] = v,
         \A x \in Runner \ {r} : toBroker'[x] = toBroker[x],
         NEW k \in 0..MaxOffers, k >= offered[r], offered' = [offered EXCEPT ![r] = k],
         v \in Seq(Up(r, Issued')), OnceIn(v, {"offer"} \X Task),
         Delivering(toRunner', pool, Ctx), Range(toRunner'[r]) \subseteq Range(toRunner[r]),
         \A x \in Runner \ {r} : toRunner'[x] = toRunner[x],
         Slots(r)', conn[r] = "none" => Unplugged(r)',
         \A t \in Task : t[1] = r => Advances(t)
  PROVE  IInv'
<1>1. /\ ShapesOK /\ SyncOK /\ UpQueues /\ UpStages /\ ProcOK /\ RemovalsOK /\ SlotsOK
      /\ Sound(pool, Ctx, {})
  BY DEF IInv, UpOK, PoolOK
<1>2. /\ proc' \in [Runner -> Proc] /\ proc'[r] = n /\ \A x \in Runner \ {r} : proc'[x] = proc[x]
  BY <1>1 DEF ProcOK
<1>3. /\ DOMAIN toBroker' = Runner /\ toBroker'[r] = v
      /\ \A x \in Runner \ {r} : toBroker'[x] = toBroker[x]
  OBVIOUS
<1>4. /\ offered \in [Runner -> 0..MaxOffers] /\ offered' \in [Runner -> 0..MaxOffers]
      /\ \A x \in Runner : offered'[x] >= offered[x]
      /\ \A x \in Runner \ {r} : offered'[x] = offered[x]
  <2>1. MaxOffers \in Nat BY BrokerAssumption
  <2>2. offered \in [Runner -> 0..MaxOffers] BY <1>1 DEF ShapesOK
  <2> QED BY <2>1, <2>2
<1>5. /\ Issued \subseteq Issued' /\ Issued' \subseteq Task
      /\ \A t \in Task : t[1] # r => (t \in Issued' <=> t \in Issued)
  <2>1. ASSUME NEW t \in Issued PROVE t \in Issued'
    <3>1. t \in Task /\ t[1] \in Runner /\ t[2] \in 1..MaxOffers /\ t[2] <= offered[t[1]]
      BY TaskRunner DEF Issued
    <3>2. offered[t[1]] \in Int /\ offered'[t[1]] \in Int /\ offered'[t[1]] >= offered[t[1]]
      BY <1>4, <3>1
    <3>3. t[2] <= offered'[t[1]] BY <3>1, <3>2
    <3> QED BY <3>1, <3>3 DEF Issued
  <2>2. \A t \in Task : t[1] # r => (t \in Issued' <=> t \in Issued)
    BY <1>4, TaskRunner DEF Issued
  <2> QED BY <2>1, <2>2 DEF Issued
<1>6. ASSUME NEW t \in Task PROVE Advances(t)
  <2>1. CASE t[1] = r BY <2>1
  <2>2. CASE t[1] # r
    <3>1. /\ t[1] \in Runner /\ toBroker'[t[1]] = toBroker[t[1]] /\ proc'[t[1]] = proc[t[1]]
          /\ toRunner'[t[1]] = toRunner[t[1]]
      BY <1>2, <1>3, <2>2, TaskRunner
    <3>2. /\ Offering(t)' <=> Offering(t)
          /\ Held(t)' <=> Held(t)
          /\ Replied(t)' <=> Replied(t)
          /\ Ended(t)' <=> Ended(t)
      BY <3>1 DEF Offering, Held, Replied, Ended
    <3>3. Staged(t)'
      <4>1. Undisturbed(t) BY <3>1, <3>2 DEF Undisturbed
      <4> QED BY <1>1, <4>1, StageKept DEF UpStages
    <3>4. t \in Quiet <=> t \in Quiet' BY <3>2 DEF Quiet
    <3>5. Accounted(t) => Accounted(t)' BY <3>1 DEF Accounted
    <3>6. Mode = "external" /\ conn[t[1]] = "open" /\ Held(t)' => Accounted(t)'
      BY <1>1, <3>2, <3>5 DEF SlotsOK
    <3> QED BY <3>1, <3>2, <3>3, <3>4, <3>6 DEF Advances
  <2> QED BY <2>1, <2>2
<1>7. ShapesOK'
  <2>1. DOMAIN tasks' \subseteq Issued' /\ \A t \in DOMAIN tasks' : tasks'[t] \in Request
    BY <1>1, <1>5 DEF ShapesOK
  <2> QED BY <1>1, <1>4, <2>1 DEF ShapesOK
<1>8. SyncOK' BY <1>1 DEF SyncOK
<1>9. PoolOK' /\ DownOK'
  <2>1. PICK g, T, N : g = toRunner' /\ T = Quiet \ Quiet' /\ N = {} OBVIOUS
  <2>2. /\ g \in Frames /\ Delivering(g, pool, Ctx)
        /\ \A x \in Runner : g[x] \in Seq(Down(x, Issued))
    BY <2>1, CtxFields DEF Delivering
  <2>3. Quiet \ T \subseteq Quiet' BY <2>1
  <2>4. Acceptable \ N \subseteq Acceptable'
    <3> SUFFICES ASSUME NEW t \in Acceptable PROVE t \in Acceptable' OBVIOUS
    <3>1. t \in Task /\ t \in Issued /\ ~Offering(t) /\ t \notin DOMAIN tasks
      BY DEF Acceptable, Issued
    <3>2. ~Offering(t)' BY <1>6, <3>1 DEF Advances
    <3> QED BY <1>5, <3>1, <3>2 DEF Acceptable
  <2>5. AskedFor \subseteq AskedFor' BY DEF AskedFor
  <2>6. Range(pool.offers) \cap (T \cup N) = {} /\ \A a \in Range(pool.accepts) : a.task \notin N
    <3>1. T \subseteq Task BY <2>1 DEF Quiet
    <3> QED BY <1>6, <2>1, <3>1 DEF Advances
  <2>7. Passed(g, g, T)
    <3> SUFFICES ASSUME NEW x \in Runner
                 PROVE  /\ g[x] \in Seq(Down(x, Issued'))
                        /\ \A t \in T : <<"offeraccept", t>> \notin Range(g[x])
      BY DEF Passed, Live
    <3>1. g[x] \in Seq(Down(x, Issued)) /\ Range(g[x]) \subseteq Down(x, Issued)
      BY <2>2, RangeInType
    <3>2. g[x] \in Seq(Down(x, Issued'))
      <4>1. Down(x, Issued) \subseteq Down(x, Issued') BY <1>5 DEF Down
      <4>2. PICK D, E : D = Down(x, Issued) /\ E = Down(x, Issued') OBVIOUS
      <4>3. g[x] \in Seq(D) /\ \A y \in Range(g[x]) : y \in E BY <3>1, <4>1, <4>2
      <4>4. g[x] \in Seq(E) BY <4>3, QueueRetyped
      <4> QED BY <4>2, <4>4
    <3>3. ASSUME NEW t \in T, <<"offeraccept", t>> \in Range(g[x]) PROVE FALSE
      <4>1. t[1] = x /\ t \in Task BY <3>1, <3>3, <2>1 DEF Down, Quiet
      <4> QED BY <1>6, <2>1, <3>3, <4>1 DEF Advances
    <3> QED BY <3>2, <3>3
  <2>8. PICK d : Seen(d, pool, g)
    BY <1>1, <1>5, <2>2, <2>3, <2>4, <2>5, <2>6, <2>7, Transfer
  <2> QED BY <2>1, <2>8, SeenNow DEF Seen
<1>10. UpOK'
  <2>1. ASSUME NEW x \in Runner
        PROVE  toBroker'[x] \in Seq(Up(x, Issued')) /\ OnceIn(toBroker'[x], {"offer"} \X Task)
    <3>1. CASE x = r BY <1>3, <3>1
    <3>2. CASE x # r
      <4>1. {t \in Issued' : t[1] = x} = {t \in Issued : t[1] = x}
        BY <1>5, <3>2
      <4>2. Up(x, Issued') = Up(x, Issued) BY <4>1 DEF Up
      <4> QED BY <1>1, <1>3, <3>2, <4>2 DEF UpQueues
    <3> QED BY <3>1, <3>2
  <2>2. UpQueues' BY <1>3, <2>1 DEF UpQueues
  <2>3. UpStages' BY <1>6 DEF UpStages, Advances
  <2> QED BY <2>2, <2>3 DEF UpOK
<1>11. ProcOK'
  <2>1. ASSUME NEW x \in Runner PROVE Slots(x)' /\ (conn'[x] = "none" => Unplugged(x)')
    <3>1. CASE x = r BY <3>1
    <3>2. CASE x # r
      <4>1. proc'[x] = proc[x] /\ toRunner'[x] = toRunner[x] BY <1>2, <3>2
      <4>2. Slots(x) /\ (conn[x] = "none" => Unplugged(x)) BY <1>1 DEF ProcOK
      <4>3. Slots(x)' BY <1>5, <4>1, <4>2 DEF Slots
      <4>4. conn'[x] = "none" => Unplugged(x)' BY <4>1, <4>2 DEF Unplugged
      <4> QED BY <4>3, <4>4
    <3> QED BY <3>1, <3>2
  <2> QED BY <1>2, <2>1 DEF ProcOK
<1>12. RemovalsOK'
  <2>1. ASSUME NEW m \in removals' PROVE Removing(m)'
    <3>1. Removing(m) BY <1>1, <2>1 DEF RemovalsOK
    <3>2. ASSUME NEW t \in m.tasks PROVE ~Held(t)' /\ t \notin proc'[t[1]].openOffers
      <4>1. t \in Issued /\ t \in Task BY <3>1, <1>5 DEF Removing
      <4>2. ~Held(t) /\ t \notin proc[t[1]].openOffers BY <3>1 DEF Removing
      <4> QED BY <1>6, <4>1, <4>2 DEF Advances
    <3> QED BY <1>5, <3>1, <3>2 DEF Removing
  <2> QED BY <1>1, <2>1 DEF RemovalsOK
<1>13. SlotsOK' BY <1>6 DEF SlotsOK, Advances
<1> QED BY <1>7, <1>8, <1>9, <1>10, <1>11, <1>12, <1>13 DEF IInv

\* One more task in a slot.
LEMMA SlotTaken ==
  ASSUME NEW r \in Runner, NEW S, S \subseteq {t \in Task : t[1] = r}, NEW t, t \notin S,
         ~(Cardinality(S) >= MaxConcurrency)
  PROVE  Cardinality(S \cup {t}) <= MaxConcurrency
<1>1. IsFiniteSet(S) /\ Cardinality(S) \in Nat BY FiniteSlots
<1>2. Cardinality(S \cup {t}) = Cardinality(S) + 1 BY <1>1, FS_AddElement
<1> QED BY <1>1, <1>2, BrokerAssumption

\* The runner's answer to an acceptance, and what becomes of its slots.
Reply(p, n, t, k) ==
  /\ n.draining = p.draining /\ n.offering = p.offering
  /\ \/ /\ k \in {"deferred", "rejected"} /\ n.running = p.running
        /\ n.openOffers \subseteq p.openOffers /\ (t \in n.openOffers => n.draining)
     \/ /\ k = "accepted" /\ t \in p.openOffers
        /\ ~(Cardinality(DOMAIN p.running) >= MaxConcurrency)
        /\ n.openOffers = p.openOffers \ {t}
        /\ DOMAIN n.running = DOMAIN p.running \cup {t}
        /\ \A u \in DOMAIN p.running : u # t => n.running[u] = p.running[u]

\* It is one of three.
LEMMA AcceptedReply ==
  ASSUME IInv, NEW r \in Runner, OfferAccepted(r), NEW t \in Task, t = Named(r)
  PROVE  \E n \in Proc, k \in {"deferred", "rejected", "accepted"} :
           /\ proc' = [proc EXCEPT ![r] = n] /\ Reply(proc[r], n, t, k)
           /\ sendFrames(r, <<<<k, t>>>>)
<1>1. PICK p, R, g : /\ p = proc[r] /\ R = p.running /\ g = put(R, t, "waitingForSettings")
  OBVIOUS
<1>2. p \in Proc BY <1>1 DEF IInv, ProcOK
<1>3. /\ p.openOffers \subseteq Task /\ DOMAIN R \subseteq Task /\ R \in [DOMAIN R -> Status]
  BY <1>1, <1>2, ProcFields
<1>4. CASE p.launcher
  <2>1. PICK n, k : n = [p EXCEPT !.openOffers = @ \ {t}] /\ k = "deferred" OBVIOUS
  <2>2. /\ n \in Proc /\ n.running = p.running /\ n.openOffers = p.openOffers \ {t}
        /\ n.draining = p.draining /\ n.offering = p.offering
    BY <1>2, <2>1 DEF Proc
  <2>3. Reply(p, n, t, k) BY <2>1, <2>2 DEF Reply
  <2>4. proc' = [proc EXCEPT ![r] = n] /\ sendFrames(r, <<<<k, t>>>>)
    BY <1>1, <1>4, <2>1 DEF OfferAccepted
  <2> QED BY <1>1, <2>1, <2>2, <2>3, <2>4
<1>5. CASE ~p.launcher /\ (p.draining \/ Cardinality(DOMAIN R) >= MaxConcurrency
                                      \/ t \notin p.openOffers)
  <2>1. PICK n, k : /\ n = [p EXCEPT !.openOffers = IF p.draining THEN @ ELSE @ \ {t}]
                    /\ k = "rejected"
    OBVIOUS
  <2>2. /\ n \in Proc /\ n.running = p.running
        /\ n.openOffers \subseteq p.openOffers /\ (t \in n.openOffers => p.draining)
        /\ n.draining = p.draining /\ n.offering = p.offering
    BY <1>2, <2>1 DEF Proc
  <2>3. Reply(p, n, t, k) BY <2>1, <2>2 DEF Reply
  <2>4. proc' = [proc EXCEPT ![r] = n] /\ sendFrames(r, <<<<k, t>>>>)
    BY <1>1, <1>5, <2>1 DEF OfferAccepted
  <2> QED BY <1>1, <2>1, <2>2, <2>3, <2>4
<1>6. CASE /\ ~p.launcher /\ ~p.draining /\ ~(Cardinality(DOMAIN R) >= MaxConcurrency)
           /\ t \in p.openOffers
  <2>1. PICK n, k : n = [p EXCEPT !.openOffers = @ \ {t}, !.running = g] /\ k = "accepted" OBVIOUS
  <2>2. /\ DOMAIN g = DOMAIN R \cup {t} /\ \A u \in DOMAIN R : u # t => g[u] = R[u]
        /\ g \in [DOMAIN g -> Status]
    BY <1>1, <1>3 DEF put, Status
  <2>3. g \in Runs BY <1>3, <2>2 DEF Runs
  <2>4. /\ n \in Proc /\ n.running = g /\ n.openOffers = p.openOffers \ {t}
        /\ n.draining = p.draining /\ n.offering = p.offering
    BY <1>2, <2>1, <2>3 DEF Proc
  <2>5. Reply(p, n, t, k) BY <1>1, <1>6, <2>1, <2>2, <2>4 DEF Reply
  <2>6. proc' = [proc EXCEPT ![r] = n] /\ sendFrames(r, <<<<k, t>>>>)
    <3>1. /\ proc' = [proc EXCEPT ![r].openOffers = @ \ {t},
                                  ![r].running = put(@, t, "waitingForSettings")]
          /\ sendFrames(r, <<<<k, t>>>>)
      BY <1>1, <1>6, <2>1 DEF OfferAccepted
    <3> QED BY <1>1, <2>1, <3>1
  <2> QED BY <1>1, <2>1, <2>4, <2>5, <2>6
<1> QED BY <1>4, <1>5, <1>6

\* The runner sends frames about its tasks.
LEMMA SentUp ==
  ASSUME UpQueues, NEW r \in Runner, NEW I, Issued \subseteq I, NEW m \in Seq(Up(r, I)),
         sendFrames(r, m), NEW K, K = {"offer"} \X Task, OnceIn(m, K),
         Range(toBroker[r]) \cap Range(m) \cap K = {}
  PROVE  /\ DOMAIN toBroker' = Runner /\ \A x \in Runner \ {r} : toBroker'[x] = toBroker[x]
         /\ toBroker'[r] \in Seq(Up(r, I)) /\ OnceIn(toBroker'[r], K)
         /\ Range(toBroker'[r]) \subseteq Range(toBroker[r]) \cup Range(m)
<1>1. PICK u, S : u = toBroker[r] /\ S = Up(r, I) OBVIOUS
<1>2. u \in Seq(S) /\ OnceIn(u, K) /\ DOMAIN toBroker = Runner
  <2>1. u \in Seq(Up(r, Issued)) /\ OnceIn(u, K) /\ DOMAIN toBroker = Runner
    BY <1>1 DEF UpQueues
  <2>2. Up(r, Issued) \subseteq S BY <1>1 DEF Up
  <2>3. PICK U : U = Up(r, Issued) OBVIOUS
  <2>4. u \in Seq(U) /\ \A x \in Range(u) : x \in S BY <2>1, <2>2, <2>3, RangeInType
  <2>5. u \in Seq(S) BY <2>4, QueueRetyped
  <2> QED BY <2>1, <2>5
<1>3. m \in Seq(S) /\ Range(u) \cap Range(m) \cap K = {} BY <1>1
<1>4. u \o m \in Seq(S) /\ Range(u \o m) = Range(u) \cup Range(m) /\ OnceIn(u \o m, K)
  BY <1>2, <1>3, RangeOfConcat, OnceInConcat
<1>5. CASE conn[r] = "open"
  <2>1. /\ DOMAIN toBroker' = Runner /\ toBroker'[r] = u \o m
        /\ \A x \in Runner \ {r} : toBroker'[x] = toBroker[x]
    BY <1>1, <1>2, <1>5 DEF sendFrames
  <2> QED BY <1>1, <1>4, <2>1
<1>6. CASE conn[r] # "open"
  <2>1. toBroker' = toBroker BY <1>6 DEF sendFrames
  <2> QED BY <1>1, <1>2, <2>1
<1> QED BY <1>5, <1>6

\* OfferAccepted.
LEMMA OfferAcceptedStep == ASSUME IInv, NEW r \in Runner, OfferAccepted(r) PROVE IInv'
<1>1. PICK t, kind : t = Named(r) /\ kind = "offeraccept" OBVIOUS
<1>2. /\ Gets(r, kind) /\ offered' = offered
      /\ UNCHANGED <<requester, pool, tasks, strikes, known, conn, removals, session>>
  BY <1>1 DEF OfferAccepted, signs, links
<1>3. /\ ShapesOK /\ UpQueues /\ UpStages /\ ProcOK /\ Slots(r)
      /\ conn[r] = "none" => Unplugged(r)
  BY DEF IInv, UpOK, ProcOK
<1>4. Gets(r, kind) /\ t = Named(r) /\ kind # "registered" /\ kind # "drain" BY <1>1, <1>2
<1>5. /\ Delivering(toRunner', pool, Ctx) /\ t \in Issued /\ t \in Task /\ t[1] = r
      /\ \A x \in Runner \ {r} : toRunner'[x] = toRunner[x]
      /\ Range(toRunner[r]) = {<<kind, t>>} \cup Range(toRunner'[r])
  BY <1>4, Gotten
<1>6. /\ t \in Quiet /\ t \notin Range(pool.offers)
      /\ <<"offeraccept", t>> \notin Range(toRunner'[r])
      /\ r \in Live => \/ \E a \in Range(pool.accepts) : a.task = t
                       \/ <<"cancel", t>> \in Range(toRunner'[r])
  BY <1>1, <1>4, Gotten
<1>7. ~Offering(t) /\ ~Held(t) /\ ~Replied(t) BY <1>6 DEF Quiet
<1>8. PICK n \in Proc, k \in {"deferred", "rejected", "accepted"} :
        /\ proc' = [proc EXCEPT ![r] = n] /\ Reply(proc[r], n, t, k)
        /\ sendFrames(r, <<<<k, t>>>>)
  BY <1>1, <1>5, AcceptedReply
<1>9. /\ proc'[r] = n /\ \A x \in Runner \ {r} : proc'[x] = proc[x]
      /\ Reply(proc[r], proc'[r], t, k)
  BY <1>3, <1>8 DEF ProcOK
<1>10. Issued' = Issued BY <1>2 DEF Issued
<1>11. PICK v, K, I : v = toBroker'[r] /\ K = {"offer"} \X Task /\ I = Issued' OBVIOUS
<1>12. /\ DOMAIN toBroker' = Runner /\ \A x \in Runner \ {r} : toBroker'[x] = toBroker[x]
       /\ v \in Seq(Up(r, I)) /\ OnceIn(v, K)
       /\ Range(v) \subseteq Range(toBroker[r]) \cup {<<k, t>>}
  <2>1. PICK f, m : f = <<k, t>> /\ m = <<f>> OBVIOUS
  <2>2. f \in Up(r, I) /\ f \notin K BY <1>5, <1>10, <1>11, <2>1 DEF Up, Replies
  <2>3. m \in Seq(Up(r, I)) /\ Range(m) = {f} /\ OnceIn(m, K)
    <3>1. PICK S : S = Up(r, I) OBVIOUS
    <3>2. f \in S BY <2>2, <3>1
    <3> QED BY <2>1, <3>1, <3>2, OneFrame
  <2>4. Issued \subseteq I /\ Range(toBroker[r]) \cap Range(m) \cap K = {}
    BY <1>10, <1>11, <2>2, <2>3
  <2>5. sendFrames(r, m) BY <1>8, <2>1
  <2>6. /\ DOMAIN toBroker' = Runner /\ \A x \in Runner \ {r} : toBroker'[x] = toBroker[x]
        /\ toBroker'[r] \in Seq(Up(r, I)) /\ OnceIn(toBroker'[r], K)
        /\ Range(toBroker'[r]) \subseteq Range(toBroker[r]) \cup Range(m)
    BY <1>3, <1>11, <2>3, <2>4, <2>5, SentUp
  <2> QED BY <1>11, <2>1, <2>3, <2>6
<1>13. Slots(r)'
  <2>1. DOMAIN proc[r].running \subseteq {x \in Task : x[1] = r} BY <1>3 DEF Slots, Issued
  <2>2. CASE k = "accepted"
    <3>1. /\ t \in proc[r].openOffers /\ ~(Cardinality(DOMAIN proc[r].running) >= MaxConcurrency)
          /\ proc'[r].openOffers = proc[r].openOffers \ {t}
          /\ DOMAIN proc'[r].running = DOMAIN proc[r].running \cup {t}
      BY <1>9, <2>2 DEF Reply
    <3>2. Cardinality(DOMAIN proc'[r].running) <= MaxConcurrency
      <4>1. PICK S : S = DOMAIN proc[r].running OBVIOUS
      <4>2. t \notin S BY <1>5, <1>7, <4>1 DEF Held
      <4>3. Cardinality(S \cup {t}) <= MaxConcurrency BY <2>1, <3>1, <4>1, <4>2, SlotTaken
      <4> QED BY <3>1, <4>1, <4>3
    <3> QED BY <1>3, <1>5, <1>10, <3>1, <3>2 DEF Slots
  <2>3. CASE k # "accepted"
    <3>1. proc'[r].running = proc[r].running /\ proc'[r].openOffers \subseteq proc[r].openOffers
      BY <1>9, <2>3 DEF Reply
    <3> QED BY <1>3, <1>10, <3>1 DEF Slots
  <2> QED BY <2>2, <2>3
<1>14. conn[r] = "none" => Unplugged(r)'
  <2> SUFFICES ASSUME conn[r] = "none" PROVE Unplugged(r)' OBVIOUS
  <2>1. /\ DOMAIN proc[r].running = {} /\ proc[r].openOffers = {} /\ ~proc[r].offering
        /\ <<"registered", NoTask>> \notin Range(toRunner[r])
    BY <1>3 DEF Unplugged
  <2>2. /\ proc'[r].running = proc[r].running /\ proc'[r].openOffers = {} /\ ~proc'[r].offering
    BY <1>9, <2>1 DEF Reply
  <2> QED BY <1>5, <2>1, <2>2 DEF Unplugged
<1>15. ASSUME NEW u \in Task, u[1] = r PROVE Advances(u)
  <2>1. CASE u # t
    <3>1. \A h : <<h, u>> \in Range(v) => <<h, u>> \in Range(toBroker[r]) BY <1>12, <2>1
    <3>2. Offering(u)' => Offering(u) BY <1>11, <1>15, <3>1 DEF Offering
    <3>3. Replied(u)' => Replied(u) BY <1>11, <1>15, <3>1 DEF Replied
    <3>4. Ended(u)' => Ended(u) BY <1>11, <1>15, <3>1 DEF Ended
    <3>5. /\ Held(u)' => Held(u) /\ proc'[r].running[u] = proc[r].running[u]
          /\ u \in proc'[r].openOffers => u \in proc[r].openOffers
      BY <1>9, <1>15, <2>1 DEF Held, Reply
    <3>6. proc'[r].draining = proc[r].draining BY <1>9 DEF Reply
    <3>7. Staged(u)'
      <4>1. Undisturbed(u) BY <1>2, <1>15, <3>2, <3>3, <3>4, <3>5, <3>6 DEF Undisturbed
      <4> QED BY <1>3, <4>1, StageKept DEF UpStages
    <3>8. u \notin Quiet \ Quiet' BY <3>2, <3>3, <3>5 DEF Quiet
    <3>9. Held(u)' /\ Accounted(u) => Accounted(u)'
      <4>1. <<"cancel", u>> # <<kind, t>> BY <2>1
      <4> QED BY <1>2, <1>5, <1>15, <3>5, <4>1 DEF Accounted
    <3>10. Mode = "external" /\ conn[r] = "open" /\ Held(u)' => Accounted(u)'
      BY <1>15, <3>5, <3>9 DEF IInv, SlotsOK
    <3> QED BY <1>15, <3>2, <3>5, <3>7, <3>8, <3>10 DEF Advances
  <2>2. CASE u = t
    <3>1. ~Offering(t)'
      <4>1. <<"offer", t>> # <<k, t>> OBVIOUS
      <4> QED BY <1>5, <1>7, <1>11, <1>12, <4>1 DEF Offering
    <3>2. Ended(t)' => k # "accepted"
      <4> SUFFICES ASSUME Ended(t)', k = "accepted" PROVE FALSE OBVIOUS
      <4>1. PICK h \in Ends : <<h, t>> \in Range(v) BY <1>5, <1>11 DEF Ended
      <4>2. <<h, t>> # <<k, t>> /\ h \in Replies BY <4>1 DEF Ends
      <4> QED BY <1>5, <1>7, <1>12, <4>1, <4>2 DEF Replied
    <3>3. /\ Held(t)' => k = "accepted" /\ t \in proc[r].openOffers
          /\ t \in proc'[r].openOffers => t \in proc[r].openOffers /\ proc'[r].draining
      BY <1>5, <1>7, <1>9 DEF Held, Reply
    <3>4. Staged(t)' BY <1>5, <3>1, <3>2, <3>3 DEF Staged
    <3>5. conn[r] = "open" => Accounted(t)'
      <4> SUFFICES ASSUME conn[r] = "open" PROVE Accounted(t)' OBVIOUS
      <4>1. r \in Live BY DEF Live
      <4> QED BY <1>2, <1>5, <1>6, <4>1 DEF Accounted
    <3> QED BY <1>5, <1>6, <2>2, <3>1, <3>3, <3>4, <3>5 DEF Advances
  <2> QED BY <2>1, <2>2
<1>16. PICK o : o = offered[r] OBVIOUS
<1>17. o \in 0..MaxOffers /\ o >= offered[r] /\ offered' = [offered EXCEPT ![r] = o]
  <2>1. offered \in [Runner -> 0..MaxOffers] /\ MaxOffers \in Nat
    BY <1>3, BrokerAssumption DEF ShapesOK
  <2> QED BY <1>2, <1>16, <2>1
<1>18. Range(toRunner'[r]) \subseteq Range(toRunner[r]) BY <1>5
<1>19. v \in Seq(Up(r, Issued')) /\ OnceIn(v, {"offer"} \X Task) /\ toBroker'[r] = v
  BY <1>11, <1>12
<1> QED BY <1>2, <1>5, <1>8, <1>12, <1>13, <1>14, <1>15, <1>17, <1>18, <1>19, BusyRunnerStep

\* A round of n offers, after o earlier ones, with the offers of open still open.
OfferRound(r, p, frames, o) ==
  \E open \in SUBSET p.openOffers, n \in Nat :
    /\ o \in Nat /\ o + n <= MaxOffers /\ (n # 0 => p.offering)
    /\ proc' = [proc EXCEPT ![r] =
         [p EXCEPT !.openOffers = open \cup {<<r, o + i>> : i \in 1..n}]]
    /\ offered' = [offered EXCEPT ![r] = o + n]
    /\ sendFrames(r, frames \o [i \in 1..n |-> <<"offer", <<r, o + i>>>>])

\* As many offers are made as there are free slots, and none beyond the bound.
LEMMA OffersCounted ==
  ASSUME IInv, NEW r \in Runner, NEW p \in Proc,
         p.openOffers \subseteq proc[r].openOffers, DOMAIN p.running \subseteq DOMAIN proc[r].running,
         NEW frames, sendOffers(r, p, frames), NEW o, o = offered[r]
  PROVE  OfferRound(r, p, frames, o)
<1>1. MaxOffers \in Nat /\ o \in Nat /\ o <= MaxOffers
  <2>1. offered \in [Runner -> 0..MaxOffers] /\ MaxOffers \in Nat
    BY BrokerAssumption DEF IInv, ShapesOK
  <2> QED BY <2>1
<1>2. PICK stale \in SUBSET p.openOffers :
        LET open == p.openOffers \ stale
            slots == MaxConcurrency - Cardinality(open) - Cardinality(DOMAIN p.running)
            n == IF p.offering THEN Min({Max({slots, 0}), MaxOffers - o}) ELSE 0
            new == [i \in 1..n |-> <<r, o + i>>]
        IN /\ proc' = [proc EXCEPT ![r] = [p EXCEPT !.openOffers = open \cup Range(new)]]
           /\ offered' = [offered EXCEPT ![r] = o + n]
           /\ sendFrames(r, frames \o [i \in 1..n |-> <<"offer", new[i]>>])
  BY DEF sendOffers
<1>3. PICK open, slots : /\ open = p.openOffers \ stale
                         /\ slots = MaxConcurrency - Cardinality(open)
                                       - Cardinality(DOMAIN p.running)
  OBVIOUS
<1>4. PICK n : n = IF p.offering THEN Min({Max({slots, 0}), MaxOffers - o}) ELSE 0 OBVIOUS
<1>5. PICK new : new = [i \in 1..n |-> <<r, o + i>>] OBVIOUS
<1>6. /\ proc' = [proc EXCEPT ![r] = [p EXCEPT !.openOffers = open \cup Range(new)]]
      /\ offered' = [offered EXCEPT ![r] = o + n]
      /\ sendFrames(r, frames \o [i \in 1..n |-> <<"offer", new[i]>>])
  BY <1>2, <1>3, <1>4, <1>5
<1>7. Cardinality(open) \in Nat /\ Cardinality(DOMAIN p.running) \in Nat
  <2>1. Slots(r) BY DEF IInv, ProcOK
  <2>2. PICK R : R = DOMAIN p.running OBVIOUS
  <2>3. open \subseteq {t \in Task : t[1] = r} /\ R \subseteq {t \in Task : t[1] = r}
    BY <1>3, <2>1, <2>2 DEF Slots, Issued
  <2> QED BY <2>2, <2>3, FiniteSlots
<1>8. n \in Nat /\ n <= MaxOffers - o
  <2>1. slots \in Int BY <1>3, <1>7, BrokerAssumption
  <2>2. PICK m : m = Max({slots, 0}) OBVIOUS
  <2>3. m \in Nat BY <2>1, <2>2, MaxOfTwo
  <2>4. MaxOffers - o \in Nat BY <1>1
  <2>5. Min({m, MaxOffers - o}) \in Nat /\ Min({m, MaxOffers - o}) <= MaxOffers - o
    BY <2>3, <2>4, MinOfTwo
  <2>6. n = IF p.offering THEN Min({m, MaxOffers - o}) ELSE 0 BY <1>4, <2>2
  <2> QED BY <2>4, <2>5, <2>6
<1>9. o + n <= MaxOffers /\ (n # 0 => p.offering) BY <1>1, <1>4, <1>8
<1>10. DOMAIN new = 1..n /\ \A i \in 1..n : new[i] = <<r, o + i>> BY <1>5
<1>11. Range(new) = {<<r, o + i>> : i \in 1..n} BY <1>10 DEF Range
<1>12. [i \in 1..n |-> <<"offer", new[i]>>] = [i \in 1..n |-> <<"offer", <<r, o + i>>>>] BY <1>10
<1>13. /\ open \in SUBSET p.openOffers /\ n \in Nat
       /\ o \in Nat /\ o + n <= MaxOffers /\ (n # 0 => p.offering)
       /\ proc' = [proc EXCEPT ![r] =
            [p EXCEPT !.openOffers = open \cup {<<r, o + i>> : i \in 1..n}]]
       /\ offered' = [offered EXCEPT ![r] = o + n]
       /\ sendFrames(r, frames \o [i \in 1..n |-> <<"offer", <<r, o + i>>>>])
  BY <1>1, <1>3, <1>6, <1>8, <1>9, <1>11, <1>12
<1> QED BY <1>13 DEF OfferRound

\* n tasks on offer after o earlier ones, and their frames.
NewTasks(r, o, n) == {<<r, o + i>> : i \in 1..n}
NewFrames(r, o, n) == [i \in 1..n |-> <<"offer", <<r, o + i>>>>]

\* They are tasks of their own.
LEMMA OfferFrames ==
  ASSUME NEW r \in Runner, NEW o \in Nat, NEW n \in Nat, o + n <= MaxOffers,
         NEW m, m = NewFrames(r, o, n), NEW N, N = NewTasks(r, o, n)
  PROVE  /\ m \in Seq({"offer"} \X N) /\ \A K : OnceIn(m, K)
         /\ N \subseteq Task /\ \A t \in N : t[1] = r /\ t[2] > o /\ t[2] <= o + n
<1>1. MaxOffers \in Nat BY BrokerAssumption
<1>2. \A i \in 1..n : o + i \in 1..MaxOffers /\ o + i > o /\ o + i <= o + n BY <1>1
<1>3. ASSUME NEW t \in N PROVE t \in Task /\ t[1] = r /\ t[2] > o /\ t[2] <= o + n
  <2>1. PICK i \in 1..n : t = <<r, o + i>> BY DEF NewTasks
  <2> QED BY <1>2, <2>1 DEF Task
<1>4. m \in [1..n -> {"offer"} \X N] BY DEF NewFrames, NewTasks
<1>5. m \in Seq({"offer"} \X N)
  <2>1. PICK S : S = {"offer"} \X N OBVIOUS
  <2>2. m \in [1..n -> S] BY <1>4, <2>1
  <2>3. m \in Seq(S) BY <2>2, SeqDef
  <2> QED BY <2>1, <2>3
<1>6. ASSUME NEW K PROVE OnceIn(m, K)
  <2> SUFFICES ASSUME NEW i \in 1..n, NEW j \in 1..n, m[i] = m[j] PROVE i = j
    BY <1>4 DEF OnceIn
  <2>1. <<r, o + i>> = <<r, o + j>>
    <3>1. m[i] = <<"offer", <<r, o + i>>>> /\ m[j] = <<"offer", <<r, o + j>>>> BY DEF NewFrames
    <3>2. PICK x, y : x = <<r, o + i>> /\ y = <<r, o + j>> OBVIOUS
    <3>3. <<"offer", x>> = <<"offer", y>> BY <3>1, <3>2
    <3> QED BY <3>2, <3>3
  <2>2. o + i = o + j BY <2>1
  <2> QED BY <2>2
<1> QED BY <1>3, <1>5, <1>6

\* The runner's slots are offered again, after the ends of tasks it had are reported.
LEMMA SendOffersStep ==
  ASSUME IInv, NEW r \in Runner,
         UNCHANGED <<requester, pool, tasks, strikes, known, conn, removals, session>>,
         NEW p \in Proc, p.openOffers = proc[r].openOffers, p.offering = proc[r].offering,
         p.draining = proc[r].draining, DOMAIN p.running \subseteq DOMAIN proc[r].running,
         \A u \in DOMAIN p.running : p.running[u] = proc[r].running[u],
         NEW E, E \subseteq DOMAIN proc[r].running \ DOMAIN p.running,
         NEW frames \in Seq(Ends \X E), sendOffers(r, p, frames),
         Delivering(toRunner', pool, Ctx), Range(toRunner'[r]) \subseteq Range(toRunner[r]),
         \A x \in Runner \ {r} : toRunner'[x] = toRunner[x],
         \A u \in DOMAIN p.running : <<"cancel", u>> \in Range(toRunner[r])
                                     => <<"cancel", u>> \in Range(toRunner'[r])
  PROVE  IInv'
<1>1. PICK o, K, I : o = offered[r] /\ K = {"offer"} \X Task /\ I = Issued' OBVIOUS
<1>2. PICK open \in SUBSET p.openOffers, n \in Nat :
        /\ o \in Nat /\ o + n <= MaxOffers /\ (n # 0 => p.offering)
        /\ proc' = [proc EXCEPT ![r] =
             [p EXCEPT !.openOffers = open \cup {<<r, o + i>> : i \in 1..n}]]
        /\ offered' = [offered EXCEPT ![r] = o + n]
        /\ sendFrames(r, frames \o [i \in 1..n |-> <<"offer", <<r, o + i>>>>])
  <2>1. OfferRound(r, p, frames, o) BY <1>1, OffersCounted
  <2> QED BY <2>1 DEF OfferRound
<1>3. PICK N, m, e : /\ N = {<<r, o + i>> : i \in 1..n}
                     /\ m = [i \in 1..n |-> <<"offer", <<r, o + i>>>>]
                     /\ e = [p EXCEPT !.openOffers = open \cup N]
  OBVIOUS
<1>4. /\ m \in Seq({"offer"} \X N) /\ \A J : OnceIn(m, J)
      /\ N \subseteq Task /\ \A t \in N : t[1] = r /\ t[2] > o /\ t[2] <= o + n
  <2>1. m = NewFrames(r, o, n) /\ N = NewTasks(r, o, n) BY <1>3 DEF NewFrames, NewTasks
  <2>2. o \in Nat /\ n \in Nat /\ o + n <= MaxOffers BY <1>2
  <2> QED BY <2>1, <2>2, OfferFrames
<1>5. /\ ShapesOK /\ UpQueues /\ UpStages /\ ProcOK /\ Slots(r) /\ SlotsOK
      /\ conn[r] = "none" => Unplugged(r)
      /\ Sound(pool, Ctx, {}) /\ Delivering(toRunner, pool, Ctx)
  BY DEF IInv, UpOK, ProcOK, PoolOK, DownOK
<1>6. /\ e \in Proc /\ e.openOffers = open \cup N /\ e.running = p.running
      /\ e.offering = p.offering /\ e.draining = p.draining
  <2>1. open \cup N \subseteq Task BY <1>2, <1>4, ProcFields
  <2> QED BY <1>3, <2>1 DEF Proc
<1>7. /\ proc' = [proc EXCEPT ![r] = e] /\ proc'[r] = e
      /\ \A x \in Runner \ {r} : proc'[x] = proc[x]
  BY <1>2, <1>3, <1>5 DEF ProcOK
<1>8. /\ Issued \subseteq I /\ N \subseteq I /\ N \cap Issued = {} /\ I \subseteq Task
      /\ offered'[r] = o + n /\ o + n \in 0..MaxOffers /\ o + n >= offered[r]
  <2>1. offered \in [Runner -> 0..MaxOffers] /\ MaxOffers \in Nat
    BY <1>5, BrokerAssumption DEF ShapesOK
  <2>2. offered'[r] = o + n /\ \A x \in Runner \ {r} : offered'[x] = offered[x] BY <1>2, <2>1
  <2>3. ASSUME NEW t \in Issued PROVE t \in I
    <3>1. t \in Task /\ t[1] \in Runner /\ t[2] \in 1..MaxOffers /\ t[2] <= offered[t[1]]
      BY TaskRunner DEF Issued
    <3>2. CASE t[1] = r
      <4>1. t[2] <= o + n BY <1>1, <1>2, <2>1, <3>1, <3>2
      <4> QED BY <1>1, <2>2, <3>1, <3>2, <4>1 DEF Issued
    <3>3. CASE t[1] # r BY <1>1, <2>2, <3>1, <3>3 DEF Issued
    <3> QED BY <3>2, <3>3
  <2>4. N \subseteq I BY <1>1, <1>4, <2>2 DEF Issued
  <2>5. ASSUME NEW t \in N, t \in Issued PROVE FALSE
    <3>1. t[2] > o /\ t[2] <= o /\ t[2] \in 1..MaxOffers
      BY <1>1, <1>4, <2>5, TaskRunner DEF Issued
    <3> QED BY <1>2, <2>1, <3>1
  <2> QED BY <1>1, <1>2, <2>1, <2>2, <2>3, <2>4, <2>5 DEF Issued
<1>9. /\ DOMAIN p.running \subseteq Issued /\ p.openOffers \subseteq Issued
      /\ \A u \in DOMAIN proc[r].running \cup p.openOffers : u \in Issued /\ u \in Task /\ u[1] = r
      /\ DOMAIN p.running \cap p.openOffers = {} /\ DOMAIN proc[r].running \cap p.openOffers = {}
  BY <1>5 DEF Slots, Issued
<1>10. PICK v, f : v = toBroker'[r] /\ f = frames \o m OBVIOUS
<1>11. /\ f \in Seq(Up(r, I)) /\ OnceIn(f, K)
       /\ \A x \in Range(f) : x \in Ends \X E \/ x \in {"offer"} \X N
  <2>1. PICK S : S = Up(r, I) OBVIOUS
  <2>2. Ends \X E \subseteq S /\ {"offer"} \X N \subseteq S
    <3>1. \A u \in E : u \in I /\ u[1] = r BY <1>8, <1>9
    <3>2. \A u \in N : u \in I /\ u[1] = r BY <1>4, <1>8
    <3> QED BY <2>1, <3>1, <3>2 DEF Up, Ends
  <2>3. PICK A, B : A = Ends \X E /\ B = {"offer"} \X N OBVIOUS
  <2>4. /\ frames \in Seq(A) /\ m \in Seq(B)
        /\ Range(frames) \subseteq A /\ Range(m) \subseteq B
    BY <1>4, <2>3, RangeInType
  <2>5. (\A x \in Range(frames) : x \in S) /\ \A x \in Range(m) : x \in S BY <2>2, <2>3, <2>4
  <2>6. frames \in Seq(S) BY <2>4, <2>5, QueueRetyped
  <2>7. m \in Seq(S) BY <2>4, <2>5, QueueRetyped
  <2>8. A \cap K = {}
    <3>1. "offer" \notin Ends BY DEF Ends, Replies
    <3> QED BY <1>1, <2>3, <3>1
  <2>9. OnceIn(frames, K) BY <2>4, <2>8 DEF OnceIn, Range
  <2>10. Range(frames) \cap Range(m) \cap K = {} BY <2>4, <2>8
  <2>11. f \in Seq(S) /\ Range(f) = Range(frames) \cup Range(m)
    BY <1>10, <2>6, <2>7, RangeOfConcat
  <2>12. OnceIn(f, K) BY <1>4, <1>10, <2>6, <2>7, <2>9, <2>10, OnceInConcat
  <2> QED BY <2>1, <2>3, <2>4, <2>11, <2>12
<1>12. Range(toBroker[r]) \subseteq Up(r, Issued)
  BY <1>5, RangeInType DEF UpQueues
<1>13. /\ DOMAIN toBroker' = Runner /\ \A x \in Runner \ {r} : toBroker'[x] = toBroker[x]
       /\ v \in Seq(Up(r, I)) /\ OnceIn(v, K)
       /\ Range(v) \subseteq Range(toBroker[r]) \cup Range(f)
  <2>1. sendFrames(r, f) BY <1>2, <1>3, <1>10
  <2>2. Range(toBroker[r]) \cap Range(f) \cap K = {}
    <3> SUFFICES ASSUME NEW x \in Range(toBroker[r]), x \in Range(f), x \in K PROVE FALSE
      OBVIOUS
    <3>1. x[1] = "offer" /\ "offer" \notin Ends BY <1>1 DEF Ends, Replies
    <3>2. x[2] \in N BY <1>11, <3>1
    <3>3. x[2] \in Issued BY <1>12 DEF Up
    <3> QED BY <1>8, <3>2, <3>3
  <2>3. /\ DOMAIN toBroker' = Runner /\ \A x \in Runner \ {r} : toBroker'[x] = toBroker[x]
        /\ toBroker'[r] \in Seq(Up(r, I)) /\ OnceIn(toBroker'[r], K)
        /\ Range(toBroker'[r]) \subseteq Range(toBroker[r]) \cup Range(f)
    BY <1>1, <1>5, <1>8, <1>11, <2>1, <2>2, SentUp
  <2> QED BY <1>10, <2>3
<1>14. Slots(r)'
  <2>1. PICK P, R : P = DOMAIN p.running /\ R = DOMAIN proc[r].running OBVIOUS
  <2>2. Cardinality(P) <= MaxConcurrency
    <3>1. R \subseteq {t \in Task : t[1] = r} /\ P \subseteq R /\ Cardinality(R) <= MaxConcurrency
      BY <1>5, <1>9, <2>1 DEF Slots
    <3>2. IsFiniteSet(R) /\ Cardinality(R) \in Nat BY <3>1, FiniteSlots
    <3>3. Cardinality(P) \in Nat /\ Cardinality(P) <= Cardinality(R)
      BY <3>1, <3>2, FS_Subset, FS_CardinalityType
    <3> QED BY <3>1, <3>2, <3>3, BrokerAssumption
  <2>3. P \subseteq {t \in I : t[1] = r} BY <1>8, <1>9, <2>1
  <2>4. open \cup N \subseteq {t \in I : t[1] = r} BY <1>2, <1>4, <1>8, <1>9
  <2>5. P \cap (open \cup N) = {} BY <1>2, <1>8, <1>9, <2>1
  <2> QED BY <1>1, <1>6, <1>7, <2>1, <2>2, <2>3, <2>4, <2>5 DEF Slots
<1>15. conn[r] = "none" => Unplugged(r)'
  <2> SUFFICES ASSUME conn[r] = "none" PROVE Unplugged(r)' OBVIOUS
  <2>1. /\ DOMAIN proc[r].running = {} /\ proc[r].openOffers = {} /\ ~proc[r].offering
        /\ <<"registered", NoTask>> \notin Range(toRunner[r])
    BY <1>5 DEF Unplugged
  <2>2. n = 0 BY <1>2, <2>1
  <2>3. N = {} BY <1>3, <2>2
  <2> QED BY <1>2, <1>6, <1>7, <2>1, <2>3 DEF Unplugged
<1>16. ASSUME NEW u \in Task, u[1] = r PROVE Advances(u)
  <2>1. /\ \A h : <<h, u>> \in Range(v) => \/ <<h, u>> \in Range(toBroker[r])
                                           \/ h \in Ends /\ u \in E
                                           \/ h = "offer" /\ u \in N
    BY <1>11, <1>13
  <2>2. Offering(u)' => Offering(u) \/ u \in N
    <3>1. "offer" \notin Ends BY DEF Ends, Replies
    <3> QED BY <1>10, <1>16, <2>1, <3>1 DEF Offering
  <2>3. /\ Replied(u)' => Replied(u) \/ u \in E
        /\ Ended(u)' => Ended(u) \/ u \in E
    <3>1. "offer" \notin Replies /\ "offer" \notin Ends BY DEF Ends, Replies
    <3> QED BY <1>10, <1>16, <2>1, <3>1 DEF Replied, Ended
  <2>4. /\ Held(u)' <=> u \in DOMAIN p.running
        /\ u \in DOMAIN p.running => Held(u) /\ proc'[r].running[u] = proc[r].running[u]
        /\ u \in proc'[r].openOffers => u \in proc[r].openOffers \/ u \in N
        /\ proc'[r].draining = proc[r].draining
    BY <1>2, <1>6, <1>7, <1>16 DEF Held
  <2>5. u \notin Issued => /\ ~Replied(u) /\ ~Ended(u) /\ u \notin E /\ ~Held(u)' /\ u \notin DOMAIN tasks
                           /\ u \notin Range(pool.offers)
                           /\ <<"offeraccept", u>> \notin Range(toRunner'[r])
    <3> SUFFICES ASSUME u \notin Issued
                 PROVE  /\ ~Replied(u) /\ ~Ended(u) /\ u \notin E /\ ~Held(u)' /\ u \notin DOMAIN tasks
                        /\ u \notin Range(pool.offers)
                        /\ <<"offeraccept", u>> \notin Range(toRunner'[r])
      OBVIOUS
    <3>1. ~Replied(u) /\ ~Ended(u) BY <1>12, <1>16 DEF Replied, Ended, Up
    <3>2. u \notin E /\ ~Held(u)' BY <1>9, <2>4
    <3>3. u \notin DOMAIN tasks BY <1>5 DEF ShapesOK
    <3>4. u \notin Range(pool.offers)
      <4>1. PICK c : c = Ctx OBVIOUS
      <4>2. pool \in Pools(c) /\ c.offerable = Offerable BY <1>5, <4>1, CtxFields DEF Sound
      <4>3. Range(pool.offers) \subseteq Offerable BY <4>2, PoolFields
      <4> QED BY <4>3 DEF Offerable, Acceptable
    <3>5. <<"offeraccept", u>> \notin Range(toRunner'[r])
      <4>1. toRunner'[r] \in Seq(Down(r, Issued)) BY CtxFields DEF Delivering
      <4>2. Range(toRunner'[r]) \subseteq Down(r, Issued) BY <4>1, RangeInType
      <4> QED BY <4>2 DEF Down
    <3> QED BY <3>1, <3>2, <3>3, <3>4, <3>5
  <2>6. CASE u \notin Issued
    <3>1. Staged(u)' BY <2>3, <2>5, <2>6 DEF Staged
    <3> QED BY <1>16, <2>4, <2>5, <2>6, <3>1 DEF Advances
  <2>7. CASE u \in Issued
    <3>1. u \notin N BY <1>8, <2>7
    <3>2. u \in E => Held(u) /\ ~Held(u)' /\ u \notin proc[r].openOffers
      BY <1>9, <1>16, <2>4 DEF Held
    <3>3. Staged(u) BY <1>5 DEF UpStages
    <3>4. Staged(u)'
      <4>1. CASE u \in E
        <5>1. ~Offering(u)' BY <2>2, <3>1, <3>2, <3>3, <4>1 DEF Staged
        <5>2. ~Held(u)' /\ u \notin proc'[u[1]].openOffers BY <1>16, <2>4, <3>1, <3>2, <4>1
        <5> QED BY <5>1, <5>2 DEF Staged
      <4>2. CASE u \notin E
        <5>1. Undisturbed(u) BY <1>16, <2>2, <2>3, <2>4, <3>1, <4>2 DEF Undisturbed
        <5> QED BY <3>3, <5>1, StageKept
      <4> QED BY <4>1, <4>2
    <3>5. u \notin Quiet \ Quiet'
      <4> SUFFICES ASSUME u \in Quiet PROVE u \in Quiet' OBVIOUS
      <4>1. ~Offering(u) /\ ~Held(u) /\ ~Replied(u) BY DEF Quiet
      <4> QED BY <2>2, <2>3, <2>4, <3>1, <3>2, <4>1 DEF Quiet
    <3>6. Mode = "external" /\ conn[r] = "open" /\ Held(u)' => Accounted(u)'
      <4> SUFFICES ASSUME Mode = "external", conn[r] = "open", Held(u)' PROVE Accounted(u)' OBVIOUS
      <4>1. Accounted(u) BY <1>5, <1>16, <2>4 DEF SlotsOK
      <4> QED BY <1>16, <2>4, <4>1 DEF Accounted
    <3> QED BY <1>16, <2>2, <2>4, <3>1, <3>4, <3>5, <3>6 DEF Advances
  <2> QED BY <2>6, <2>7
<1>17. PICK k : k = o + n OBVIOUS
<1>18. k \in 0..MaxOffers /\ k >= offered[r] /\ offered' = [offered EXCEPT ![r] = k]
  BY <1>2, <1>8, <1>17
<1>19. v \in Seq(Up(r, Issued')) /\ OnceIn(v, {"offer"} \X Task) /\ toBroker'[r] = v
  BY <1>1, <1>10, <1>13
<1> QED BY <1>6, <1>7, <1>13, <1>14, <1>15, <1>16, <1>18, <1>19, BusyRunnerStep

\* OfferTick.
LEMMA OfferTickStep == ASSUME IInv, NEW r \in Runner, OfferTick(r) PROVE IInv'
<1>1. PICK p, E, frames : p = proc[r] /\ E = {} /\ frames = <<>> OBVIOUS
<1>2. /\ sendOffers(r, p, frames) /\ toRunner' = toRunner
      /\ UNCHANGED <<requester, pool, tasks, strikes, known, conn, removals, session>>
  BY <1>1 DEF OfferTick, signs, links
<1>3. p \in Proc /\ Delivering(toRunner', pool, Ctx)
  BY <1>1, <1>2 DEF IInv, ProcOK, DownOK
<1>4. frames \in Seq(Ends \X E) BY <1>1, NoFrames
<1> QED BY <1>1, <1>2, <1>3, <1>4, SendOffersStep

\* The frames that report the end of a task, if any.
Reports(t, frames) ==
  frames = <<>> \/ \E k \in {"done", "error"} : frames = <<<<k, t>>>>

\* A task is finished: its slot is offered again.
LEMMA FinishTaskStep ==
  ASSUME IInv, NEW r \in Runner, NEW t \in Task, t \in DOMAIN proc[r].running,
         UNCHANGED <<requester, pool, tasks, strikes, known, conn, removals, session>>,
         NEW frames, Reports(t, frames), finishTask(r, t, frames),
         Delivering(toRunner', pool, Ctx), Range(toRunner'[r]) \subseteq Range(toRunner[r]),
         \A x \in Runner \ {r} : toRunner'[x] = toRunner[x],
         \A u \in Task : u # t /\ <<"cancel", u>> \in Range(toRunner[r])
                         => <<"cancel", u>> \in Range(toRunner'[r])
  PROVE  IInv'
<1>1. PICK p, f, n, E : /\ p = proc[r] /\ f = untrack(p.running, {t})
                        /\ n = [p EXCEPT !.running = f] /\ E = {t}
  OBVIOUS
<1>2. p \in Proc BY <1>1 DEF IInv, ProcOK
<1>3. DOMAIN p.running \subseteq Task /\ p.running \in [DOMAIN p.running -> Status]
  BY <1>2, ProcFields
<1>4. /\ DOMAIN f = DOMAIN p.running \ {t} /\ f \in [DOMAIN f -> Status]
      /\ \A u \in DOMAIN f : f[u] = p.running[u]
  BY <1>1, <1>3 DEF untrack
<1>5. /\ n \in Proc /\ n.running = f /\ n.openOffers = p.openOffers
      /\ n.offering = p.offering /\ n.draining = p.draining
  <2>1. DOMAIN f \subseteq Task /\ f \in [DOMAIN f -> Status] BY <1>3, <1>4
  <2>2. n = [p EXCEPT !.running = f] BY <1>1
  <2> QED BY <1>2, <2>1, <2>2, ProcWith
<1>6. sendOffers(r, n, frames) BY <1>1 DEF finishTask
<1>7. frames \in Seq(Ends \X E)
  <2>1. PICK S : S = Ends \X E OBVIOUS
  <2>2. CASE frames = <<>> BY <2>1, <2>2, NoFrames
  <2>3. CASE frames # <<>>
    <3>1. PICK k \in {"done", "error"} : frames = <<<<k, t>>>> BY <2>3 DEF Reports
    <3>2. PICK x : x = <<k, t>> OBVIOUS
    <3>3. x \in S BY <1>1, <2>1, <3>2 DEF Ends, Replies
    <3>4. <<x>> \in Seq(S) BY <3>3, OneFrame
    <3> QED BY <2>1, <3>1, <3>2, <3>4
  <2> QED BY <2>2, <2>3
<1>8. \A u \in DOMAIN n.running : <<"cancel", u>> \in Range(toRunner[r])
                                  => <<"cancel", u>> \in Range(toRunner'[r])
  BY <1>3, <1>4, <1>5
<1>9. /\ n.openOffers = proc[r].openOffers /\ n.offering = proc[r].offering
      /\ n.draining = proc[r].draining /\ DOMAIN n.running \subseteq DOMAIN proc[r].running
      /\ \A u \in DOMAIN n.running : n.running[u] = proc[r].running[u]
      /\ E \subseteq DOMAIN proc[r].running \ DOMAIN n.running
  BY <1>1, <1>4, <1>5
<1> QED BY <1>5, <1>6, <1>7, <1>8, <1>9, SendOffersStep

\* TaskCancelled.
LEMMA TaskCancelledStep == ASSUME IInv, NEW r \in Runner, TaskCancelled(r) PROVE IInv'
<1>1. PICK t, kind, frames : t = Named(r) /\ kind = "cancel" /\ frames = <<>> OBVIOUS
<1>2. /\ Gets(r, kind)
      /\ UNCHANGED <<requester, pool, tasks, strikes, known, conn, removals, session>>
  BY <1>1 DEF TaskCancelled, signs, links
<1>3. /\ Delivering(toRunner', pool, Ctx) /\ t \in Task /\ t[1] = r
      /\ \A x \in Runner \ {r} : toRunner'[x] = toRunner[x]
      /\ Range(toRunner[r]) = {<<kind, t>>} \cup Range(toRunner'[r])
  <2>1. Gets(r, kind) /\ t = Named(r) BY <1>1, <1>2
  <2>2. kind # "registered" /\ kind # "drain" BY <1>1
  <2> QED BY <2>1, <2>2, Gotten
<1>4. /\ \A x \in Runner : Range(toRunner'[x]) \subseteq Range(toRunner[x])
      /\ \A u \in Task : u # t /\ <<"cancel", u>> \in Range(toRunner[u[1]])
                         => <<"cancel", u>> \in Range(toRunner'[u[1]])
      /\ \A u \in Task : u # t /\ <<"cancel", u>> \in Range(toRunner[r])
                         => <<"cancel", u>> \in Range(toRunner'[r])
  <2>1. \A x \in Runner : Range(toRunner'[x]) \subseteq Range(toRunner[x])
    BY <1>3
  <2>2. ASSUME NEW u \in Task, u # t, NEW x \in Runner, <<"cancel", u>> \in Range(toRunner[x])
        PROVE  <<"cancel", u>> \in Range(toRunner'[x])
    <3>1. <<"cancel", u>> # <<kind, t>> BY <2>2
    <3> QED BY <1>3, <2>2, <3>1
  <2> QED BY <2>1, <2>2, TaskRunner
<1>5. CASE statusOf(r, t) = "waitingForSettings"
  <2>1. finishTask(r, t, frames) BY <1>1, <1>5 DEF TaskCancelled
  <2>2. t \in DOMAIN proc[r].running BY <1>5 DEF statusOf
  <2>3. Reports(t, frames) BY <1>1 DEF Reports
  <2> QED BY <1>2, <1>3, <1>4, <2>1, <2>2, <2>3, FinishTaskStep
<1>6. CASE statusOf(r, t) = "running"
  <2>1. PICK st : st = "aborting:cancelled" OBVIOUS
  <2>2. setStatus(r, t, st) /\ UNCHANGED <<toBroker, offered>>
    BY <1>1, <1>6, <2>1 DEF TaskCancelled
  <2>3. t \in DOMAIN proc[r].running BY <1>6 DEF statusOf
  <2>4. st \in Status /\ st \in {"aborting:cancelled", "aborting:timeout"} BY <2>1 DEF Status
  <2> QED BY <1>2, <1>3, <1>4, <2>2, <2>3, <2>4, StatusStep
<1>7. CASE statusOf(r, t) # "waitingForSettings" /\ statusOf(r, t) # "running"
  <2>1. UNCHANGED <<proc, toBroker, offered>> BY <1>1, <1>7 DEF TaskCancelled
  <2>2. PICK n : n = proc[r] OBVIOUS
  <2>3. ProcOK BY DEF IInv
  <2>4. n \in Proc /\ proc' = [proc EXCEPT ![r] = n] /\ (n.offering => conn[r] # "none")
    BY <2>1, <2>2, <2>3 DEF ProcOK, Unplugged
  <2>5. ASSUME NEW u \in Task, Held(u)', Accounted(u) PROVE Accounted(u)'
    <3>1. CASE u # t BY <1>2, <1>4, <2>1, <2>5, <3>1 DEF Accounted
    <3>2. CASE u = t
      <4>1. t \in DOMAIN proc[r].running BY <1>3, <2>1, <2>5, <3>2 DEF Held
      <4>2. proc[r].running[t] \in Status BY <2>2, <2>4, <4>1, ProcFields
      <4>3. statusOf(r, t) = proc[r].running[t] BY <4>1 DEF statusOf
      <4>4. proc'[t[1]].running[t] \in {"aborting:cancelled", "aborting:timeout"}
        BY <1>3, <1>7, <2>1, <4>2, <4>3 DEF Status
      <4> QED BY <3>2, <4>4 DEF Accounted
    <3> QED BY <3>1, <3>2
  <2> QED BY <1>2, <1>3, <1>4, <2>1, <2>2, <2>4, <2>5, IdleRunnerStep
<1> QED BY <1>5, <1>6, <1>7

\* TaskTimedOut.
LEMMA TaskTimedOutStep ==
  ASSUME IInv, NEW r \in Runner, NEW t \in Task, TaskTimedOut(r, t) PROVE IInv'
<1>1. /\ UNCHANGED <<requester, pool, tasks, strikes, known, conn, removals, session>>
      /\ toRunner' = toRunner /\ Delivering(toRunner', pool, Ctx)
      /\ t \in DOMAIN proc[r].running
  BY DEF TaskTimedOut, signs, links, IInv, DownOK, statusOf
<1>2. CASE statusOf(r, t) = "running"
  <2>1. PICK st : st = "aborting:timeout" OBVIOUS
  <2>2. setStatus(r, t, st) /\ UNCHANGED <<toBroker, offered>> BY <1>2, <2>1 DEF TaskTimedOut
  <2>3. st \in Status /\ st \in {"aborting:cancelled", "aborting:timeout"} BY <2>1 DEF Status
  <2> QED BY <1>1, <2>2, <2>3, StatusStep
<1>3. CASE statusOf(r, t) # "running"
  <2>1. PICK frames : frames = <<<<"error", t>>>> OBVIOUS
  <2>2. finishTask(r, t, frames) /\ Reports(t, frames)
    BY <1>3, <2>1 DEF TaskTimedOut, Reports
  <2> QED BY <1>1, <2>2, FinishTaskStep
<1> QED BY <1>2, <1>3

\* ExecutionEnds.
LEMMA ExecutionEndsStep ==
  ASSUME IInv, NEW r \in Runner, NEW t \in Task, ExecutionEnds(r, t) PROVE IInv'
<1>1. /\ UNCHANGED <<requester, pool, tasks, strikes, known, conn, removals, session>>
      /\ toRunner' = toRunner /\ Delivering(toRunner', pool, Ctx)
      /\ t \in DOMAIN proc[r].running
  BY DEF ExecutionEnds, signs, links, IInv, DownOK, statusOf
<1>2. PICK frames : finishTask(r, t, frames) /\ Reports(t, frames)
  BY DEF ExecutionEnds, Reports
<1> QED BY <1>1, <1>2, FinishTaskStep

-----------------------------------------------------------------------------
\* The theorems.

\* Nothing has happened yet.
LEMMA InitInv == Init => IInv
<1> SUFFICES ASSUME Init PROVE IInv OBVIOUS
<1>1. /\ MaxOffers \in Nat /\ MaxStrikes \in Nat \ {0} /\ MaxConcurrency \in Nat \ {0}
      /\ MaxSessions \in Nat
  BY BrokerAssumption
<1>2. /\ requester = [q \in Request |-> [state |-> "none", task |-> NoTask]]
      /\ pool.offers = <<>> /\ pool.requests = <<>> /\ pool.busy = {} /\ pool.accepts = <<>>
      /\ pool = [offers |-> <<>>, requests |-> <<>>, busy |-> {}, accepts |-> <<>>]
      /\ DOMAIN tasks = {} /\ strikes = [r \in Runner |-> 0] /\ known = {}
      /\ conn = [r \in Runner |-> "none"] /\ removals = {} /\ proc = [r \in Runner |-> NoProc]
      /\ toRunner = [r \in Runner |-> <<>>] /\ toBroker = [r \in Runner |-> <<>>]
      /\ session = [r \in Runner |-> 0] /\ offered = [r \in Runner |-> 0]
  BY DEF Init
<1>3. Range(<<>>) = {} /\ DOMAIN <<>> = {} /\ \A S : <<>> \in Seq(S) BY NoFrames
<1>4. /\ NoProc \in Proc /\ DOMAIN NoProc.running = {} /\ NoProc.openOffers = {}
      /\ ~NoProc.offering
  BY EmptyProcs
<1>5. ShapesOK
  <2>1. requester \in [Request -> [state : States, task : Task \cup {NoTask}]]
    BY <1>2 DEF States
  <2>2. /\ strikes \in [Runner -> 0..MaxStrikes] /\ offered \in [Runner -> 0..MaxOffers]
        /\ session \in [Runner -> 0..MaxSessions]
    BY <1>1, <1>2
  <2> QED BY <1>2, <2>1, <2>2 DEF ShapesOK
<1>6. SyncOK BY <1>2, <1>3 DEF SyncOK
<1>7. PoolOK
  <2>1. PICK c : c = Ctx OBVIOUS
  <2>2. pool \in Pools(c) BY <1>2, <1>3 DEF Pools
  <2>3. OneEach(pool) BY <1>2, <1>3 DEF OneEach, IsInjective
  <2>4. Marked(pool, {}) BY <1>2, <1>3 DEF Marked
  <2> QED BY <2>1, <2>2, <2>3, <2>4 DEF PoolOK, Sound
<1>8. DownOK
  <2>1. toRunner \in Frames BY <1>2, <1>3 DEF Frames
  <2>2. \A r \in Runner : toRunner[r] \in Seq(Down(r, Ctx.issued)) BY <1>2, <1>3
  <2>3. \A r \in Runner : Delivery(toRunner[r], pool, r, Ctx)
    BY <1>2, <1>3 DEF Delivery, OnceIn
  <2> QED BY <2>1, <2>2, <2>3 DEF DownOK, Delivering
<1>9. UpOK
  <2>1. UpQueues BY <1>2, <1>3 DEF UpQueues, OnceIn
  <2>2. \A t \in Task : ~Offering(t) /\ ~Ended(t)
    BY <1>2, <1>3, TaskRunner DEF Offering, Ended
  <2>3. UpStages BY <2>2 DEF UpStages, Staged
  <2> QED BY <2>1, <2>3 DEF UpOK
<1>10. ProcOK
  <2>1. proc \in [Runner -> Proc] BY <1>2, <1>4
  <2>2. Cardinality({}) = 0 BY FS_EmptySet
  <2>3. ASSUME NEW r \in Runner PROVE Slots(r)
    <3>1. proc[r] = NoProc BY <1>2
    <3>2. DOMAIN proc[r].running = {} /\ proc[r].openOffers = {} BY <3>1, <1>4
    <3>3. Cardinality(DOMAIN proc[r].running) = 0 BY <3>2, <2>2
    <3>4. 0 <= MaxConcurrency BY <1>1
    <3>5. Cardinality(DOMAIN proc[r].running) <= MaxConcurrency BY <3>3, <3>4
    <3> QED BY <3>2, <3>5 DEF Slots
  <2>4. \A r \in Runner : Unplugged(r) BY <1>2, <1>3, <1>4 DEF Unplugged
  <2> QED BY <2>1, <2>3, <2>4 DEF ProcOK
<1>11. RemovalsOK BY <1>2 DEF RemovalsOK
<1>12. SlotsOK BY <1>2, TaskRunner DEF SlotsOK
<1> QED BY <1>5, <1>6, <1>7, <1>8, <1>9, <1>10, <1>11, <1>12 DEF IInv

\* Nothing happens.
LEMMA StutterStep == ASSUME IInv, UNCHANGED vars PROVE IInv'
<1>1. UNCHANGED <<requester, pool, tasks, strikes, silent, known, conn, removals, proc,
                  toRunner, toBroker, session, offered>>
  BY DEF vars
<1>2. ShapesOK' BY <1>1 DEF IInv, ShapesOK, Issued
<1>3. SyncOK' BY <1>1 DEF IInv, SyncOK
<1>4. Ctx' = Ctx
  BY <1>1 DEF Ctx, Offerable, Acceptable, Quiet, AskedFor, Live, Issued, Offering, Held, Replied
<1>5. PoolOK' BY <1>1, <1>4 DEF IInv, PoolOK
<1>6. DownOK' BY <1>1, <1>4 DEF IInv, DownOK
<1>7. UpOK'
  BY <1>1 DEF IInv, UpOK, UpQueues, UpStages, Staged, Issued, Offering, Held, Replied, Ended
<1>8. ProcOK' BY <1>1 DEF IInv, ProcOK, Slots, Unplugged, Issued
<1>9. RemovalsOK' BY <1>1 DEF IInv, RemovalsOK, Removing, Issued, Held
<1>10. SlotsOK' BY <1>1 DEF IInv, SlotsOK, Accounted, Held
<1> QED BY <1>2, <1>3, <1>5, <1>6, <1>7, <1>8, <1>9, <1>10 DEF IInv

\* A step of a runner, or of the broker on a runner's frame or connection.
RunnerStep(r) ==
  \/ TaskOffered(r) \/ RunnerAccepts(r) \/ RunnerRejects(r) \/ RunnerDefers(r)
  \/ TaskEnds(r, "done") \/ TaskEnds(r, "error")
  \/ Connect(r) \/ RemoveConnection(r)
  \/ OfferTick(r) \/ OnRegistered(r) \/ OfferAccepted(r) \/ TaskCancelled(r)
  \/ ReceivedSettings(r) \/ OnDrain(r) \/ RunnerDrains(r) \/ ProcessDies(r)
  \/ \E t \in Task : TaskTimedOut(r, t) \/ ExecutionEnds(r, t)

\* It keeps the invariant.
LEMMA RunnerInv == ASSUME IInv, NEW r \in Runner, RunnerStep(r) PROVE IInv'
<1>1. CASE TaskOffered(r) BY <1>1, TaskOfferedStep
<1>2. CASE RunnerAccepts(r) BY <1>2, RunnerAcceptsStep
<1>3. CASE RunnerRejects(r) \/ RunnerDefers(r) BY <1>3, RefusedStep
<1>4. CASE TaskEnds(r, "done") \/ TaskEnds(r, "error")
  <2>1. PICK kind \in {"done", "error"} : TaskEnds(r, kind) BY <1>4
  <2> QED BY <2>1, TaskEndsStep
<1>5. CASE Connect(r) BY <1>5, ConnectStep
<1>6. CASE RemoveConnection(r) BY <1>6, RemoveConnectionStep
<1>7. CASE OfferTick(r) BY <1>7, OfferTickStep
<1>8. CASE OnRegistered(r) BY <1>8, OnRegisteredStep
<1>9. CASE OfferAccepted(r) BY <1>9, OfferAcceptedStep
<1>10. CASE TaskCancelled(r) BY <1>10, TaskCancelledStep
<1>11. CASE ReceivedSettings(r) BY <1>11, ReceivedSettingsStep
<1>12. CASE OnDrain(r) BY <1>12, OnDrainStep
<1>13. CASE RunnerDrains(r) BY <1>13, RunnerDrainsStep
<1>14. CASE ProcessDies(r) BY <1>14, ProcessDiesStep
<1>15. CASE \E t \in Task : TaskTimedOut(r, t) \/ ExecutionEnds(r, t)
  <2>1. PICK t \in Task : TaskTimedOut(r, t) \/ ExecutionEnds(r, t) BY <1>15
  <2>2. CASE TaskTimedOut(r, t) BY <2>2, TaskTimedOutStep
  <2>3. CASE ExecutionEnds(r, t) BY <2>3, ExecutionEndsStep
  <2> QED BY <2>1, <2>2, <2>3
<1> QED
  BY <1>1, <1>2, <1>3, <1>4, <1>5, <1>6, <1>7, <1>8, <1>9, <1>10, <1>11, <1>12, <1>13, <1>14,
     <1>15 DEF RunnerStep

\* Every step keeps the invariant.
LEMMA StepInv == IInv /\ [Next]_vars => IInv'
<1> SUFFICES ASSUME IInv, [Next]_vars PROVE IInv' OBVIOUS
<1>1. CASE \E q \in Request : TaskRequested(q) \/ CancelTask(q) \/ RequestTimeout(q)
  <2>1. PICK q \in Request : TaskRequested(q) \/ CancelTask(q) \/ RequestTimeout(q) BY <1>1
  <2>2. CASE TaskRequested(q) BY <2>2, TaskRequestedStep
  <2>3. CASE CancelTask(q) BY <2>3, CancelTaskStep
  <2>4. CASE RequestTimeout(q) BY <2>4, RequestTimeoutStep
  <2> QED BY <2>1, <2>2, <2>3, <2>4
<1>2. CASE \E t \in Task : RespondToRunner(t) \/ TaskTimeout(t)
  <2>1. PICK t \in Task : RespondToRunner(t) \/ TaskTimeout(t) BY <1>2
  <2>2. CASE RespondToRunner(t) BY <2>2, RespondToRunnerStep
  <2>3. CASE TaskTimeout(t) BY <2>3, TaskTimeoutStep
  <2> QED BY <2>1, <2>2, <2>3
<1>3. CASE \E a \in Range(pool.accepts) : AcceptTimeout(a) BY <1>3, AcceptTimeoutStep
<1>4. CASE \E r \in Runner : RunnerStep(r) BY <1>4, RunnerInv
<1>5. CASE \E m \in removals : FinishRemoval(m)
  <2>1. PICK m \in removals : FinishRemoval(m) BY <1>5
  <2>2. CASE conn[m.runner] # "none" BY <2>1, <2>2, RemovalOutlivedStep
  <2>3. CASE conn[m.runner] = "none" BY <2>1, <2>3, RemovalFinalStep
  <2> QED BY <2>2, <2>3
<1>6. CASE StartDraining BY <1>6, StartDrainingStep
<1>7. CASE StopRunners BY <1>7, RemoveConnectionStep
<1>8. CASE UNCHANGED vars BY <1>8, StutterStep
<1> QED
  BY <1>1, <1>2, <1>3, <1>4, <1>5, <1>6, <1>7, <1>8 DEF Next, RunnerStep

\* The task broker (TaskBroker, TaskRunner): pool, tracked tasks, frames and processes stay
\* in step, whatever the order of frames, timers, disconnects and analyses.
THEOREM BrokerInvariant == Spec => []IInv
<1> QED BY InitInv, StepInv, PTL DEF Spec

\* The registry, the drain and the map of frames, which the invariant above does not need.
RegistryOK == /\ known \subseteq Runner /\ silent \subseteq Runner
              /\ drain \in {"no", "draining", "stopped"}
              /\ toBroker = [r \in Runner |-> toBroker[r]]

\* Only runners are known or silent, whatever is removed while it is analysed.
LEMMA RegistryStep == ASSUME IInv, RegistryOK, [Next]_vars PROVE RegistryOK'
<1>1. CASE \E q \in Request : TaskRequested(q) \/ CancelTask(q) \/ RequestTimeout(q)
  <2>1. CASE \E q \in Request : TaskRequested(q) \/ CancelTask(q)
    BY <2>1 DEF RegistryOK, TaskRequested, CancelTask, signs, links
  <2>2. CASE \E q \in Request : RequestTimeout(q)
    BY <2>2 DEF RegistryOK, RequestTimeout, ReachableRunners, removeConnections, cut
  <2> QED BY <1>1, <2>1, <2>2
<1>2. CASE \E t \in Task : RespondToRunner(t) \/ TaskTimeout(t)
  BY <1>2 DEF RegistryOK, RespondToRunner, TaskTimeout, signs, links
<1>3. CASE \E a \in Range(pool.accepts) : AcceptTimeout(a)
  BY <1>3 DEF RegistryOK, AcceptTimeout, removeConnections, cut
<1>4. ASSUME NEW r \in Runner, RunnerStep(r) PROVE RegistryOK'
  <2>1. drain' = drain
    BY <1>4 DEF RunnerStep, TaskOffered, RunnerAccepts, RunnerRejects, RunnerDefers, TaskEnds,
       Connect, RemoveConnection, OfferTick, OnRegistered, OfferAccepted, TaskCancelled,
       ReceivedSettings, OnDrain, RunnerDrains, ProcessDies, TaskTimedOut, ExecutionEnds
  <2>2. silent' \subseteq silent
    BY <1>4 DEF RunnerStep, TaskOffered, RunnerAccepts, RunnerRejects, RunnerDefers, TaskEnds,
       Connect, RemoveConnection, OfferTick, OnRegistered, OfferAccepted, TaskCancelled,
       ReceivedSettings, OnDrain, RunnerDrains, ProcessDies, TaskTimedOut, ExecutionEnds,
       Receives, signs
  <2>3. known' \subseteq known \cup {r}
    BY <1>4 DEF RunnerStep, TaskOffered, RunnerAccepts, RunnerRejects, RunnerDefers, TaskEnds,
       Connect, RemoveConnection, OfferTick, OnRegistered, OfferAccepted, TaskCancelled,
       ReceivedSettings, OnDrain, RunnerDrains, ProcessDies, TaskTimedOut, ExecutionEnds, links
  <2>4. toBroker' = [q \in Runner |-> toBroker'[q]]
    BY <1>4 DEF RegistryOK, RunnerStep, TaskOffered, RunnerAccepts, RunnerRejects, RunnerDefers,
       TaskEnds, Connect, RemoveConnection, removeConnections, cut, OfferTick, OnRegistered,
       OfferAccepted, TaskCancelled, ReceivedSettings, OnDrain, RunnerDrains, ProcessDies,
       TaskTimedOut, ExecutionEnds, finishTask, sendOffers, sendFrames, Receives
  <2> QED BY <2>1, <2>2, <2>3, <2>4 DEF RegistryOK
<1>5. ASSUME NEW m \in removals, FinishRemoval(m) PROVE RegistryOK'
  <2>1. m.runner \in Runner BY DEF IInv, RemovalsOK, Removing, Removal
  <2> QED BY <1>5, <2>1 DEF RegistryOK, FinishRemoval, signs
<1>6. CASE StartDraining \/ StopRunners
  BY <1>6 DEF RegistryOK, StartDraining, StopRunners, signs, links, removeConnections, cut
<1>7. CASE UNCHANGED vars BY <1>7 DEF RegistryOK, vars
<1> QED BY <1>1, <1>2, <1>3, <1>4, <1>5, <1>6, <1>7 DEF Next, RunnerStep

\* The two invariants say that every variable has its type.
LEMMA InvTypes == IInv /\ RegistryOK => TypeOK
<1> SUFFICES ASSUME IInv, RegistryOK PROVE TypeOK OBVIOUS
<1>1. /\ ShapesOK /\ SyncOK /\ ProcOK /\ Sound(pool, Ctx, {})
  BY DEF IInv, PoolOK
<1>2. PICK c : c = Ctx OBVIOUS
<1>3. /\ pool \in Pools(c) /\ pool.busy \subseteq Range(pool.requests)
      /\ c.offerable \subseteq Task /\ c.acceptable \subseteq Task /\ c.asked \subseteq Request
  BY <1>1, <1>2, CtxFields DEF Sound, Marked, Context, AskedFor
<1>4. pool \in [offers : Seq(Task), requests : Seq(Request), busy : SUBSET Request,
                accepts : Seq([task : Task, request : Request])]
  <2>1. pool.offers \in Seq(Task) BY <1>3, PoolFields, SeqMonotonic
  <2>2. pool.requests \in Seq(Request) /\ pool.busy \subseteq Request
    BY <1>3, PoolFields, SeqMonotonic
  <2>3. pool.accepts \in Seq([task : Task, request : Request])
    <3>1. PICK A, B : A = [task : c.acceptable, request : c.asked] /\ B = [task : Task, request : Request]
      OBVIOUS
    <3>2. A \subseteq B BY <1>3, <3>1
    <3>3. pool.accepts \in Seq(A) BY <1>3, <3>1, PoolFields
    <3>4. pool.accepts \in Seq(B) BY <3>2, <3>3, SeqMonotonic
    <3> QED BY <3>1, <3>4
  <2>4. pool = [offers |-> pool.offers, requests |-> pool.requests, busy |-> pool.busy,
                accepts |-> pool.accepts]
    BY <1>3 DEF Pools
  <2> QED BY <2>1, <2>2, <2>3, <2>4
<1>5. DOMAIN tasks \subseteq Task /\ \A t \in DOMAIN tasks : tasks[t] \in Request
  BY <1>1 DEF ShapesOK, Issued
<1>6. proc \in [Runner -> Proc] /\ \A r \in Runner : Cardinality(DOMAIN proc[r].running) <= MaxConcurrency
  BY <1>1 DEF ProcOK, Slots
<1>7. toRunner \in [Runner -> Seq(ToRunner)]
  <2>1. ASSUME NEW r \in Runner PROVE toRunner[r] \in Seq(ToRunner)
    <3>1. toRunner[r] \in Seq(Down(r, c.issued)) /\ c.issued \subseteq Task
      BY <1>2, CtxFields DEF IInv, DownOK, Delivering, Context
    <3>2. Down(r, c.issued) \subseteq ToRunner BY <3>1 DEF Down, ToRunner
    <3> QED BY <3>1, <3>2, SeqMonotonic
  <2>2. toRunner \in Frames BY DEF IInv, DownOK, Delivering
  <2> QED BY <2>1, <2>2 DEF Frames
<1>8. toBroker \in [Runner -> Seq(ToBroker)]
  <2>1. ASSUME NEW r \in Runner PROVE toBroker[r] \in Seq(ToBroker)
    <3>1. toBroker[r] \in Seq(Up(r, Issued)) BY DEF IInv, UpOK, UpQueues
    <3>2. Up(r, Issued) \subseteq ToBroker BY DEF Up, ToBroker, Issued
    <3> QED BY <3>1, <3>2, SeqMonotonic
  <2>2. toBroker = [r \in Runner |-> toBroker[r]] BY DEF RegistryOK
  <2> QED BY <2>1, <2>2
<1>9. removals \subseteq Removal BY DEF IInv, RemovalsOK, Removing
<1> QED BY <1>1, <1>3, <1>4, <1>5, <1>6, <1>7, <1>8, <1>9 DEF TypeOK, ShapesOK, RegistryOK

\* Offers, requests, acceptances, tracked tasks, removals, processes and the frames in both
\* directions are of the tasks, requests and runners there are; a connected runner is
\* registered (knownRunners), and a runner never holds more tasks than maxConcurrency.
THEOREM TypeCorrect == Spec => []TypeOK
<1>1. Init => RegistryOK BY DEF Init, RegistryOK
<1>2. IInv /\ RegistryOK /\ [Next]_vars => RegistryOK' BY RegistryStep
<1> QED BY <1>1, <1>2, InvTypes, BrokerInvariant, PTL DEF Spec

\* Broker and requester agree on who waits for what: the pending requests are the ones not
\* yet answered, the tracked tasks those whose result is awaited (pendingTaskRequests, tasks).
THEOREM InSync == Spec => []RequesterInSync
<1>1. IInv => RequesterInSync
  <2> SUFFICES ASSUME IInv PROVE RequesterInSync OBVIOUS
  <2>1. SyncOK /\ ShapesOK /\ IsInjective(pool.requests)
    BY DEF IInv, PoolOK, Sound, OneEach
  <2> QED BY <2>1 DEF RequesterInSync, SyncOK, ShapesOK
<1> QED BY <1>1, BrokerInvariant, PTL

\* A pending request that is marked (acceptInProgress) is with exactly one runner, and one
\* that is not with none.
THEOREM OneAttempt == Spec => []OneAttemptPerRequest
<1>1. IInv => OneAttemptPerRequest
  <2> SUFFICES ASSUME IInv, NEW q \in Range(pool.requests)
               PROVE  Cardinality({a \in Range(pool.accepts) : a.request = q})
                        = IF q \in pool.busy THEN 1 ELSE 0
    BY DEF OneAttemptPerRequest
  <2>1. /\ q \in pool.busy <=> \E a \in Range(pool.accepts) : a.request = q
        /\ \A a, b \in Range(pool.accepts) : a.request = q /\ b.request = q => a = b
    BY DEF IInv, PoolOK, Sound, Marked
  <2>2. PICK A : A = {a \in Range(pool.accepts) : a.request = q} OBVIOUS
  <2>3. CASE q \in pool.busy
    <3>1. PICK a \in Range(pool.accepts) : a.request = q BY <2>1, <2>3
    <3>2. A = {a} BY <2>1, <2>2, <3>1
    <3>3. Cardinality(A) = 1 BY <3>2, FS_Singleton
    <3> QED BY <2>2, <2>3, <3>3
  <2>4. CASE q \notin pool.busy
    <3>1. A = {} BY <2>1, <2>2, <2>4
    <3>2. Cardinality(A) = 0 BY <3>1, FS_EmptySet
    <3> QED BY <2>2, <2>4, <3>2
  <2> QED BY <2>3, <2>4
<1> QED BY <1>1, BrokerInvariant, PTL

\* What a connected runner holds is tracked, waits for its acknowledgement, has been called
\* off in a frame on its way, or is ending (TaskRunner.runningTasks): no slot is lost.
THEOREM NoSlotLost == Spec => []SlotsAccounted
<1>1. IInv => SlotsAccounted
  <2> SUFFICES ASSUME IInv, Mode = "external", NEW r \in Runner, conn[r] = "open",
                      NEW t \in DOMAIN proc[r].running
               PROVE  \/ t \in DOMAIN tasks
                      \/ AcceptsOf(t) # {}
                      \/ <<"cancel", t>> \in Range(toRunner[r])
                      \/ proc[r].running[t] \in {"aborting:cancelled", "aborting:timeout"}
    BY DEF SlotsAccounted
  <2>1. t \in Task /\ t[1] = r BY DEF IInv, ProcOK, Slots, Issued
  <2>2. Accounted(t) BY <2>1 DEF IInv, SlotsOK, Held
  <2>3. (\E a \in Range(pool.accepts) : a.task = t) => AcceptsOf(t) # {}
    BY DEF AcceptsOf, Range
  <2> QED BY <2>1, <2>2, <2>3 DEF Accounted
<1> QED BY <1>1, BrokerInvariant, PTL
=============================================================================
