--------------------------- MODULE CollectionLemmas --------------------------
(***************************************************************************)
(* What the queue and set operators that the models are built from do to   *)
(* the elements of their arguments: facts the proofs of several components *)
(* cite by name.                                                           *)
(***************************************************************************)
EXTENDS Integers, Sequences, SequencesExt, SequenceTheorems, FiniteSetTheorems,
        WellFoundedInduction, TLAPS, Filtering

\* The elements of a queue are the ones its type allows.
LEMMA RangeInType ==
  ASSUME NEW S, NEW s \in Seq(S) PROVE Range(s) \subseteq S
<1>1. DOMAIN s = 1..Len(s) BY LenProperties
<1> QED BY <1>1, ElementOfSeq DEF Range

\* A queue of elements it really holds.
LEMMA QueueRetyped ==
  ASSUME NEW S, NEW s \in Seq(S), NEW T, \A x \in Range(s) : x \in T
  PROVE  s \in Seq(T)
<1> DEFINE n == Len(s)
<1>1. n \in Nat /\ s \in [1..n -> S] /\ DOMAIN s = 1..n
  BY LenProperties
<1> HIDE DEF n
<1>2. \A i \in 1..n : s[i] \in T BY <1>1 DEF Range
<1>3. s \in [1..n -> T] BY <1>1, <1>2
<1> QED BY <1>1, <1>3, SeqDef

\* A queue holds finitely many elements.
LEMMA RangeFinite ==
  ASSUME NEW S, NEW s \in Seq(S) PROVE IsFiniteSet(Range(s))
<1> DEFINE n == Len(s)
           R == Range(s)
<1>1. n \in Nat /\ DOMAIN s = 1..n BY LenProperties
<1>2. IsFiniteSet(1..n) BY <1>1, FS_Interval
<1>3. s \in Surjection(1..n, R)
  <2>1. s \in [1..n -> R] BY <1>1 DEF Range
  <2>2. \A x \in R : \E i \in 1..n : s[i] = x BY <1>1 DEF Range
  <2> QED BY <2>1, <2>2 DEF Surjection
<1> HIDE DEF R, n
<1>4. IsFiniteSet(R) BY <1>2, <1>3, FS_Surjection
<1> QED BY <1>4 DEF R

\* An empty queue holds nothing.
LEMMA RangeOfEmpty == Range(<<>>) = {}
<1>1. DOMAIN <<>> = {} OBVIOUS
<1> QED BY <1>1 DEF Range

\* Enqueueing adds one element.
LEMMA RangeOfAppend ==
  ASSUME NEW S, NEW s \in Seq(S), NEW x
  PROVE  Append(s, x) \in Seq(S \cup {x}) /\ Range(Append(s, x)) = Range(s) \cup {x}
<1> DEFINE T == S \cup {x}
           a == Append(s, x)
<1>1. s \in Seq(T) /\ x \in T BY SeqMonotonic
<1> HIDE DEF T
<1>2. /\ a \in Seq(T) /\ Len(a) = Len(s) + 1
      /\ \A i \in 1..Len(s) : a[i] = s[i]
      /\ a[Len(s) + 1] = x
  BY <1>1, AppendProperties
<1>3. Len(s) \in Nat /\ DOMAIN s = 1..Len(s) BY LenProperties
<1>4. DOMAIN a = 1..Len(a) BY <1>2, LenProperties
<1> HIDE DEF a
<1>5. Range(a) \subseteq Range(s) \cup {x}
  <2> SUFFICES ASSUME NEW i \in 1..Len(a) PROVE a[i] \in Range(s) \cup {x}
    BY <1>4 DEF Range
  <2>1. i \in 1..Len(s) \/ i = Len(s) + 1 BY <1>2, <1>3
  <2> QED BY <1>2, <1>3, <2>1 DEF Range
<1>6. Range(s) \cup {x} \subseteq Range(a)
  <2>1. ASSUME NEW i \in 1..Len(s) PROVE s[i] \in Range(a)
    <3>1. i \in 1..Len(a) BY <1>2, <1>3
    <3> QED BY <1>2, <1>4, <3>1 DEF Range
  <2>2. x \in Range(a)
    <3>1. Len(s) + 1 \in 1..Len(a) BY <1>2, <1>3
    <3> QED BY <1>2, <1>4, <3>1 DEF Range
  <2> QED BY <1>3, <2>1, <2>2 DEF Range
<1> QED BY <1>2, <1>5, <1>6 DEF T, a

\* Dequeueing takes the head; the elements are the head's and the tail's.
LEMMA RangeOfTail ==
  ASSUME NEW S, NEW s \in Seq(S), s # <<>>
  PROVE  /\ Head(s) \in Range(s) /\ Head(s) \in S /\ Tail(s) \in Seq(S)
         /\ Range(s) = {Head(s)} \cup Range(Tail(s))
<1>1. /\ Head(s) \in S /\ Tail(s) \in Seq(S) /\ Len(Tail(s)) = Len(s) - 1
      /\ \A i \in 1..Len(Tail(s)) : Tail(s)[i] = s[i + 1]
  BY HeadTailProperties
<1>2. Len(s) \in Nat \ {0} BY EmptySeq
<1>3. DOMAIN s = 1..Len(s) /\ DOMAIN Tail(s) = 1..Len(Tail(s)) BY <1>1, LenProperties
<1>4. Head(s) = s[1] OBVIOUS
<1>5. Head(s) \in Range(s)
  <2>1. 1 \in 1..Len(s) BY <1>2
  <2> QED BY <1>3, <1>4, <2>1 DEF Range
<1>6. Range(Tail(s)) \subseteq Range(s)
  <2> SUFFICES ASSUME NEW i \in 1..Len(Tail(s)) PROVE Tail(s)[i] \in Range(s)
    BY <1>3 DEF Range
  <2>1. i + 1 \in 1..Len(s) BY <1>1, <1>2
  <2> QED BY <1>1, <1>3, <2>1 DEF Range
<1>7. Range(s) \subseteq {Head(s)} \cup Range(Tail(s))
  <2> SUFFICES ASSUME NEW i \in 1..Len(s) PROVE s[i] \in {Head(s)} \cup Range(Tail(s))
    BY <1>3 DEF Range
  <2>1. CASE i = 1 BY <1>4, <2>1
  <2>2. CASE i # 1
    <3>1. i - 1 \in 1..Len(Tail(s)) BY <1>1, <1>2, <2>2
    <3>2. Tail(s)[i - 1] = s[(i - 1) + 1] BY <1>1, <3>1
    <3>3. (i - 1) + 1 = i OBVIOUS
    <3> QED BY <1>3, <3>1, <3>2, <3>3 DEF Range
  <2> QED BY <2>1, <2>2
<1> QED BY <1>1, <1>5, <1>6, <1>7

\* Concatenation keeps both parts' elements and adds none.
LEMMA RangeOfConcat ==
  ASSUME NEW S, NEW s \in Seq(S), NEW t \in Seq(S)
  PROVE  s \o t \in Seq(S) /\ Range(s \o t) = Range(s) \cup Range(t)
<1> DEFINE c == s \o t
<1>1. /\ c \in Seq(S) /\ Len(c) = Len(s) + Len(t)
      /\ \A i \in 1..Len(s) + Len(t) : c[i] = IF i <= Len(s) THEN s[i] ELSE t[i - Len(s)]
  BY ConcatProperties
<1>2. Len(s) \in Nat /\ Len(t) \in Nat /\ DOMAIN s = 1..Len(s) /\ DOMAIN t = 1..Len(t)
  BY LenProperties
<1>3. DOMAIN c = 1..Len(c) BY <1>1, LenProperties
<1> HIDE DEF c
<1>4. Range(c) \subseteq Range(s) \cup Range(t)
  <2> SUFFICES ASSUME NEW i \in 1..Len(c) PROVE c[i] \in Range(s) \cup Range(t)
    BY <1>3 DEF Range
  <2>1. CASE i <= Len(s) BY <1>1, <1>2, <2>1 DEF Range
  <2>2. CASE i > Len(s)
    <3>1. i - Len(s) \in 1..Len(t) BY <1>1, <1>2, <2>2
    <3> QED BY <1>1, <1>2, <2>2, <3>1 DEF Range
  <2> QED BY <1>1, <1>2, <2>1, <2>2
<1>5. Range(s) \subseteq Range(c)
  <2> SUFFICES ASSUME NEW i \in 1..Len(s) PROVE s[i] \in Range(c)
    BY <1>2 DEF Range
  <2>1. i \in 1..Len(c) /\ c[i] = s[i] BY <1>1, <1>2
  <2> QED BY <1>3, <2>1 DEF Range
<1>6. Range(t) \subseteq Range(c)
  <2> SUFFICES ASSUME NEW i \in 1..Len(t) PROVE t[i] \in Range(c)
    BY <1>2 DEF Range
  <2>1. i + Len(s) \in 1..Len(c) BY <1>1, <1>2
  <2>2. c[i + Len(s)] = t[(i + Len(s)) - Len(s)] BY <1>1, <1>2, <2>1
  <2>3. (i + Len(s)) - Len(s) = i BY <1>2
  <2> QED BY <1>3, <2>1, <2>2, <2>3 DEF Range
<1> QED BY <1>1, <1>4, <1>5, <1>6 DEF c

\* The orders in which the elements of a finite set may be published.
LEMMA SetToSeqsElements ==
  ASSUME NEW S, IsFiniteSet(S), NEW s \in SetToSeqs(S)
  PROVE  s \in Seq(S) /\ Range(s) \subseteq S
<1>1. Cardinality(S) \in Nat BY FS_CardinalityType
<1>2. s \in [1..Cardinality(S) -> S] BY DEF SetToSeqs
<1>3. s \in Seq(S) BY <1>1, <1>2, SeqDef
<1> QED BY <1>3, RangeInType

-----------------------------------------------------------------------------
\* Least and greatest elements.

\* A set of naturals that is not empty has a least element, and Min is it.
LEMMA MinOfNats ==
  ASSUME NEW S \in SUBSET Nat, S # {}
  PROVE  Min(S) \in S /\ \A y \in S : Min(S) <= y
<1>1. PICK x \in S : \A y \in S : ~(<<y, x>> \in OpToRel(<, Nat))
  BY NatLessThanWellFounded, WFMin
<1>2. \A y \in S : x <= y
  <2> SUFFICES ASSUME NEW y \in S, ~(x <= y) PROVE FALSE OBVIOUS
  <2>1. <<y, x>> \in OpToRel(<, Nat) BY DEF OpToRel
  <2> QED BY <1>1, <2>1
<1> QED BY <1>2 DEF Min

\* A finite set of integers that is not empty has a greatest element.
LEMMA FiniteHasMax ==
  ASSUME NEW S \in SUBSET Int, IsFiniteSet(S), S # {}
  PROVE  \E x \in S : \A y \in S : x >= y
<1> DEFINE Odd(T) == /\ T \in SUBSET Int /\ IsFiniteSet(T) /\ T # {}
                     /\ \A x \in T : \E y \in T : ~(x >= y)
           sizes == {n \in Nat : \E T \in SUBSET Int : Odd(T) /\ Cardinality(T) = n}
<1> SUFFICES ASSUME Odd(S) PROVE FALSE OBVIOUS
<1>1. sizes # {} BY FS_CardinalityType
<1>2. Min(sizes) \in sizes /\ \A n \in sizes : Min(sizes) <= n
  <2>1. sizes \in SUBSET Nat OBVIOUS
  <2> HIDE DEF sizes
  <2> QED BY <1>1, <2>1, MinOfNats
<1>3. PICK T \in SUBSET Int : Odd(T) /\ Cardinality(T) = Min(sizes) BY <1>2
<1>4. PICK x \in T : TRUE BY <1>3
<1> DEFINE U == T \ {x}
<1>5. IsFiniteSet(U) /\ Cardinality(U) = Cardinality(T) - 1 /\ Cardinality(T) \in Nat
  BY <1>3, FS_RemoveElement, FS_CardinalityType
<1>6. CASE U = {} BY <1>3, <1>4, <1>6
<1>7. CASE U # {}
  <2>1. ~Odd(U)
    <3> SUFFICES ASSUME Odd(U) PROVE FALSE OBVIOUS
    <3>1. Cardinality(U) \in sizes BY <1>5, FS_CardinalityType
    <3>2. Min(sizes) <= Cardinality(U) BY <1>2, <3>1
    <3>3. Cardinality(T) = Min(sizes) BY <1>3
    <3> HIDE DEF U, sizes
    <3> QED BY <1>5, <3>2, <3>3
  <2>2. PICK y \in U : \A z \in U : y >= z BY <1>5, <1>7, <2>1
  <2>3. \E w \in T : \A z \in T : w >= z
    <3>1. CASE x >= y BY <1>4, <2>2, <3>1
    <3>2. CASE ~(x >= y) BY <1>4, <2>2, <3>2
    <3> QED BY <3>1, <3>2
  <2> QED BY <1>3, <2>3
<1> QED BY <1>6, <1>7

\* So Max is in such a set, and above its elements.
LEMMA MaxOfFinite ==
  ASSUME NEW S \in SUBSET Int, IsFiniteSet(S), S # {}
  PROVE  Max(S) \in S /\ \A y \in S : Max(S) >= y
BY FiniteHasMax DEF Max

\* The greater and the smaller of two numbers.
LEMMA MaxOfTwo ==
  ASSUME NEW a \in Int, NEW b \in Int PROVE Max({a, b}) = IF a >= b THEN a ELSE b
<1>1. \E x \in {a, b} : \A y \in {a, b} : x >= y OBVIOUS
<1>2. Max({a, b}) \in {a, b} /\ \A y \in {a, b} : Max({a, b}) >= y BY <1>1 DEF Max
<1> QED BY <1>2

\* The smaller one.
LEMMA MinOfTwo ==
  ASSUME NEW a \in Int, NEW b \in Int PROVE Min({a, b}) = IF a <= b THEN a ELSE b
<1>1. \E x \in {a, b} : \A y \in {a, b} : x <= y OBVIOUS
<1>2. Min({a, b}) \in {a, b} /\ \A y \in {a, b} : Min({a, b}) <= y BY <1>1 DEF Min
<1> QED BY <1>2

-----------------------------------------------------------------------------
\* Division.

\* A remainder is what is left of some multiple.
LEMMA RemainderUnique ==
  ASSUME NEW k \in Nat \ {0}, NEW q \in Int, NEW r \in 0..k-1 PROVE (q * k + r) % k = r
<1> DEFINE a == q * k + r
           d == a \div k
           m == a % k
           e == d - q
<1>1. a \in Int /\ d \in Int /\ m \in 0..k-1 /\ a = k * d + m OBVIOUS
<1>2. e \in Int /\ e * k = r - m
  <2>1. k * d = d * k /\ (d - q) * k = d * k - q * k BY <1>1
  <2> QED BY <1>1, <2>1
<1>3. e = 0
  <2>1. e >= 1 => e * k >= k BY <1>2
  <2>2. e <= -1 => e * k <= -k BY <1>2
  <2> HIDE DEF e, m, d, a
  <2> QED BY <1>1, <1>2, <2>1, <2>2
<1>4. 0 * k = 0 OBVIOUS
<1> HIDE DEF e, m, d, a
<1>5. r = m BY <1>1, <1>2, <1>3, <1>4
<1> QED BY <1>5 DEF m, a

\* Whole multiples do not change it.
LEMMA RemainderOfSum ==
  ASSUME NEW k \in Nat \ {0}, NEW a \in Int, NEW b \in Int PROVE (a + b * k) % k = a % k
<1> DEFINE d == a \div k
           m == a % k
<1>1. d \in Int /\ m \in 0..k-1 /\ a = k * d + m OBVIOUS
<1> HIDE DEF d, m
<1>2. (d + b) * k + m = a + b * k
  <2>1. (d + b) * k = d * k + b * k /\ d * k = k * d BY <1>1
  <2> QED BY <1>1, <2>1
<1>3. ((d + b) * k + m) % k = m
  <2> DEFINE q == d + b
  <2>1. q \in Int BY <1>1
  <2> HIDE DEF q
  <2>2. (q * k + m) % k = m BY <1>1, <2>1, RemainderUnique
  <2> QED BY <2>2 DEF q
<1> QED BY <1>2, <1>3 DEF m

\* The remainder one below.
LEMMA RemainderBelow ==
  ASSUME NEW k \in Nat \ {0}, NEW a \in Int PROVE (a - 1) % k = ((a % k) - 1) % k
<1> DEFINE d == a \div k
           m == a % k
           b == m - 1
<1>1. d \in Int /\ m \in 0..k-1 /\ a = k * d + m OBVIOUS
<1>2. b \in Int BY <1>1
<1>3. k * d = d * k BY <1>1
<1> HIDE DEF d, m
<1>4. a - 1 = b + d * k BY <1>1, <1>3
<1> HIDE DEF b
<1>5. (b + d * k) % k = b % k BY <1>1, <1>2, RemainderOfSum
<1> QED BY <1>4, <1>5 DEF b, m

\* The next multiple of k above a natural.
LEMMA NextMultiple ==
  ASSUME NEW a \in Nat, NEW k \in Nat \ {0}
  PROVE  (a \div k + 1) * k \in Nat /\ (a \div k + 1) * k > a
<1>1. a \div k \in Nat OBVIOUS
<1>2. (a \div k + 1) * k > a OBVIOUS
<1> QED BY <1>1, <1>2

\* Enqueueing something new keeps the elements of a queue different.
LEMMA InjectiveAppend ==
  ASSUME NEW S, NEW s \in Seq(S), NEW x, IsInjective(s), x \notin Range(s)
  PROVE  IsInjective(Append(s, x))
<1> DEFINE T == S \cup {x}
           a == Append(s, x)
<1>1. s \in Seq(T) /\ x \in T BY SeqMonotonic
<1> HIDE DEF T
<1>2. /\ a \in Seq(T) /\ Len(a) = Len(s) + 1
      /\ \A i \in 1..Len(s) : a[i] = s[i]
      /\ a[Len(s) + 1] = x
  BY <1>1, AppendProperties
<1>3. Len(s) \in Nat /\ DOMAIN s = 1..Len(s) BY LenProperties
<1>4. DOMAIN a = 1..Len(a) BY <1>2, LenProperties
<1> HIDE DEF a
<1>5. ASSUME NEW i \in DOMAIN a, NEW j \in DOMAIN a, a[i] = a[j] PROVE i = j
  <2>1. /\ i \in 1..Len(s) \/ i = Len(s) + 1
        /\ j \in 1..Len(s) \/ j = Len(s) + 1
    BY <1>2, <1>3, <1>4
  <2>2. \A k \in 1..Len(s) : a[k] # x BY <1>2, <1>3 DEF Range
  <2> QED BY <1>2, <1>3, <1>5, <2>1, <2>2 DEF IsInjective
<1> QED BY <1>5 DEF IsInjective, a

-----------------------------------------------------------------------------
\* Filtering.

\* What Without returns: a sequence of the elements that stay, each as often as before.
LEMMA WithoutElements ==
  ASSUME NEW T, NEW s \in Seq(T), NEW gone
  PROVE  /\ Without(s, gone) \in Seq(T) /\ Range(Without(s, gone)) = Range(s) \ gone
         /\ IsInjective(s) => IsInjective(Without(s, gone))
<1> DEFINE step(k, i) == IF i = 0 THEN <<>>
                         ELSE IF s[i] \in gone THEN k[i-1] ELSE Append(k[i-1], s[i])
           Walk(n, f) == f = [i \in 0..n |-> step(f, i)]
           prefix(i) == {s[j] : j \in 1..i} \ gone
           once(f) == IsInjective(s) => IsInjective(f)
           long == Len(s)
           stuck == {n \in 0..long : \A f : ~Walk(n, f)}
<1>1. long \in Nat /\ DOMAIN s = 1..long /\ \A i \in 1..long : s[i] \in T OBVIOUS
<1>2. stuck = {}
  <2> SUFFICES ASSUME stuck # {} PROVE FALSE OBVIOUS
  <2>1. stuck \in SUBSET Nat BY <1>1
  <2>2. PICK k \in stuck : \A l \in stuck : k <= l
    <3> HIDE DEF stuck
    <3> QED BY <2>1, MinOfNats
  <2>3. k \in 0..long /\ \A f : ~Walk(k, f) OBVIOUS
  <2>4. CASE k = 0
    <3> DEFINE f == [i \in 0..0 |-> <<>>]
    <3>1. Walk(0, f) OBVIOUS
    <3> QED BY <2>3, <2>4, <3>1
  <2>5. CASE k # 0
    <3>1. k - 1 \in 0..long /\ ~(k <= k - 1) /\ k \in 1..long BY <1>1, <2>3, <2>5
    <3>2. k - 1 \notin stuck
      <4> HIDE DEF stuck
      <4> QED BY <2>2, <3>1
    <3>3. PICK g : Walk(k - 1, g) BY <3>1, <3>2
    <3> DEFINE top == IF s[k] \in gone THEN g[k-1] ELSE Append(g[k-1], s[k])
               f == [i \in 0..k |-> IF i = k THEN top ELSE g[i]]
    <3>4. \A i \in 0..k : f[i] = step(f, i)
      <4> SUFFICES ASSUME NEW i \in 0..k PROVE f[i] = step(f, i) OBVIOUS
      <4>1. CASE i = k
        <5>1. f[i] = top /\ k - 1 \in 0..k /\ f[k-1] = g[k-1] BY <2>3, <3>1, <4>1
        <5> HIDE DEF f
        <5> QED BY <2>5, <4>1, <5>1
      <4>2. CASE i # k
        <5>1. i \in 0..k-1 /\ f[i] = g[i] BY <2>3, <4>2
        <5>2. g[i] = step(g, i) BY <3>3, <5>1
        <5>3. i # 0 => i - 1 \in 0..k /\ i - 1 # k /\ f[i-1] = g[i-1] BY <2>3, <5>1
        <5> HIDE DEF f
        <5> QED BY <5>1, <5>2, <5>3
      <4> QED BY <4>1, <4>2
    <3>5. Walk(k, f)
      <4>1. f = [i \in 0..k |-> f[i]] OBVIOUS
      <4> HIDE DEF f, step
      <4> QED BY <3>4, <4>1
    <3> QED BY <2>3, <3>5
  <2> QED BY <2>4, <2>5
<1> DEFINE all == CHOOSE k : Walk(long, k)
<1>3. Without(s, gone) = all[long] BY DEF Without
<1>4. Walk(long, all)
  <2>1. \E f : Walk(long, f)
    <3>1. long \in 0..long BY <1>1
    <3> HIDE DEF Walk, long
    <3> QED BY <1>2, <3>1
  <2> HIDE DEF Walk
  <2> QED BY <2>1
<1>5. \A i \in 0..long : all[i] = step(all, i)
  <2> HIDE DEF all
  <2> QED BY <1>4
<1> HIDE DEF all, stuck, long
<1> DEFINE good(i) == all[i] \in Seq(T) /\ Range(all[i]) = prefix(i) /\ once(all[i])
           bad == {i \in 0..long : ~good(i)}
<1>6. bad = {}
  <2> SUFFICES ASSUME bad # {} PROVE FALSE OBVIOUS
  <2>1. bad \in SUBSET Nat BY <1>1
  <2>2. PICK k \in bad : \A l \in bad : k <= l
    <3> HIDE DEF bad
    <3> QED BY <2>1, MinOfNats
  <2>3. k \in 0..long /\ ~good(k) OBVIOUS
  <2>4. CASE k = 0
    <3>1. prefix(0) = {} OBVIOUS
    <3>2. all[0] = <<>> BY <1>5, <2>3, <2>4
    <3>3. Range(all[0]) = {} /\ all[0] \in Seq(T) BY <3>2, RangeOfEmpty
    <3>4. once(all[0])
      <4>1. DOMAIN <<>> = {} OBVIOUS
      <4> QED BY <3>2, <4>1 DEF IsInjective
    <3> HIDE DEF prefix, once, bad
    <3> QED BY <2>3, <2>4, <3>1, <3>3, <3>4
  <2>5. CASE k # 0
    <3>1. k - 1 \in 0..long /\ ~(k <= k - 1) /\ k \in 1..long BY <1>1, <2>3, <2>5
    <3>2. k - 1 \notin bad
      <4> HIDE DEF bad
      <4> QED BY <2>2, <3>1
    <3>3. all[k-1] \in Seq(T) /\ Range(all[k-1]) = prefix(k-1) /\ once(all[k-1])
      <4> HIDE DEF prefix, once
      <4> QED BY <3>1, <3>2
    <3>4. {s[j] : j \in 1..k} = {s[j] : j \in 1..k-1} \cup {s[k]} BY <3>1
    <3>5. all[k] = IF s[k] \in gone THEN all[k-1] ELSE Append(all[k-1], s[k])
      BY <1>5, <2>3, <2>5
    <3>6. s[k] \in T BY <1>1, <3>1
    <3>7. /\ Append(all[k-1], s[k]) \in Seq(T)
          /\ Range(Append(all[k-1], s[k])) = Range(all[k-1]) \cup {s[k]}
      BY <3>3, <3>6, RangeOfAppend
    <3>8. s[k] \in gone => prefix(k) = prefix(k-1) BY <3>4
    <3>9. s[k] \notin gone => prefix(k) = prefix(k-1) \cup {s[k]} BY <3>4
    <3>10. once(Append(all[k-1], s[k]))
      <4> SUFFICES ASSUME IsInjective(s) PROVE IsInjective(Append(all[k-1], s[k])) OBVIOUS
      <4>1. s[k] \notin {s[j] : j \in 1..k-1} BY <1>1, <3>1 DEF IsInjective
      <4>2. s[k] \notin Range(all[k-1]) BY <3>3, <4>1
      <4> QED BY <3>3, <4>2, InjectiveAppend
    <3> HIDE DEF prefix, once, bad
    <3> QED BY <2>3, <3>3, <3>5, <3>7, <3>8, <3>9, <3>10
  <2> QED BY <2>4, <2>5
<1>7. prefix(long) = Range(s) \ gone BY <1>1 DEF Range
<1>8. all[long] \in Seq(T) /\ Range(all[long]) = prefix(long) /\ once(all[long])
  <2>1. long \in 0..long BY <1>1
  <2> HIDE DEF prefix, once
  <2> QED BY <1>6, <2>1
<1> HIDE DEF prefix
<1> QED BY <1>3, <1>7, <1>8

\* Taking out one element of a queue whose elements are different.
LEMMA RemovedAt ==
  ASSUME NEW S, NEW s \in Seq(S), NEW i \in 1..Len(s), IsInjective(s)
  PROVE  /\ RemoveAt(s, i) \in Seq(S) /\ IsInjective(RemoveAt(s, i))
         /\ Range(RemoveAt(s, i)) = Range(s) \ {s[i]}
<1> DEFINE n == Len(s)
           before == SubSeq(s, 1, i - 1)
           behind == SubSeq(s, i + 1, n)
           c == before \o behind
<1>1. n \in Nat /\ i \in Nat /\ 1 <= i /\ i <= n /\ DOMAIN s = 1..n BY LenProperties
<1>2. before \in Seq(S) /\ Len(before) = i - 1 /\ \A k \in 1..i-1 : before[k] = s[k]
  <2>1. /\ before \in Seq(S)
        /\ Len(before) = IF 1 <= i - 1 THEN i - 1 - 1 + 1 ELSE 0
        /\ \A k \in 1..i - 1 - 1 + 1 : before[k] = s[1 + k - 1]
    <3>1. \A k \in 1..i-1 : k \in 1..n BY <1>1
    <3>2. \A k \in 1..i-1 : s[k] \in S BY <1>1, <3>1, ElementOfSeq
    <3> QED BY <1>1, <3>2, SubSeqProperties
  <2> QED BY <1>1, <2>1
<1>3. behind \in Seq(S) /\ Len(behind) = n - i /\ \A k \in 1..n-i : behind[k] = s[k + i]
  <2>1. \A k \in i+1..n : s[k] \in S BY <1>1, ElementOfSeq
  <2>2. /\ behind \in Seq(S)
        /\ Len(behind) = IF i + 1 <= n THEN n - (i + 1) + 1 ELSE 0
        /\ \A k \in 1..n - (i + 1) + 1 : behind[k] = s[i + 1 + k - 1]
    BY <1>1, <2>1, SubSeqProperties
  <2>3. \A k \in 1..n-i : i + 1 + k - 1 = k + i BY <1>1
  <2>4. \A k \in 1..n-i : k \in 1..n - (i + 1) + 1 BY <1>1
  <2> HIDE DEF behind, n
  <2>5. Len(behind) = n - i BY <1>1, <2>2
  <2>6. \A k \in 1..n-i : behind[k] = s[k + i] BY <2>2, <2>3, <2>4
  <2> QED BY <2>2, <2>5, <2>6
<1> HIDE DEF before, behind
<1>4. /\ c \in Seq(S) /\ Len(c) = n - 1
      /\ \A k \in 1..n-1 : c[k] = IF k <= i - 1 THEN before[k] ELSE behind[k - (i - 1)]
  <2>1. /\ c \in Seq(S) /\ Len(c) = Len(before) + Len(behind)
        /\ \A k \in 1..Len(before) + Len(behind) :
             c[k] = IF k <= Len(before) THEN before[k] ELSE behind[k - Len(before)]
    BY <1>2, <1>3, ConcatProperties
  <2>2. Len(before) + Len(behind) = n - 1 BY <1>1, <1>2, <1>3
  <2> HIDE DEF c
  <2> QED BY <1>2, <2>1, <2>2
<1>5. \A k \in 1..n-1 : c[k] = IF k <= i - 1 THEN s[k] ELSE s[k + 1]
  <2> SUFFICES ASSUME NEW k \in 1..n-1 PROVE c[k] = IF k <= i - 1 THEN s[k] ELSE s[k + 1] OBVIOUS
  <2>1. CASE k <= i - 1 BY <1>2, <1>4, <2>1, k \in 1..i-1
  <2>2. CASE ~(k <= i - 1)
    <3>1. k - (i - 1) \in 1..n-i /\ k - (i - 1) + i = k + 1 BY <1>1, <2>2
    <3>2. behind[k - (i - 1)] = s[k + 1] BY <1>3, <3>1
    <3> QED BY <1>4, <2>2, <3>2
  <2> QED BY <2>1, <2>2
<1>6. DOMAIN c = 1..n-1 BY <1>4, LenProperties
<1> HIDE DEF c
<1>7. \A k \in 1..n-1 : \E j \in 1..n : j # i /\ c[k] = s[j] /\ (j = k \/ j = k + 1)
  <2> SUFFICES ASSUME NEW k \in 1..n-1
               PROVE  \E j \in 1..n : j # i /\ c[k] = s[j] /\ (j = k \/ j = k + 1)
    OBVIOUS
  <2>1. CASE k <= i - 1 BY <1>1, <1>5, <2>1
  <2>2. CASE ~(k <= i - 1)
    <3>1. k + 1 \in 1..n /\ k + 1 # i /\ c[k] = s[k + 1] BY <1>1, <1>5, <2>2
    <3> QED BY <3>1
  <2> QED BY <2>1, <2>2
<1>8. Range(c) \subseteq Range(s) \ {s[i]}
  <2> SUFFICES ASSUME NEW k \in 1..n-1 PROVE c[k] \in Range(s) \ {s[i]} BY <1>6 DEF Range
  <2>1. PICK j \in 1..n : j # i /\ c[k] = s[j] BY <1>7
  <2>2. s[j] # s[i] BY <1>1, <2>1 DEF IsInjective
  <2> QED BY <1>1, <2>1, <2>2 DEF Range
<1>9. Range(s) \ {s[i]} \subseteq Range(c)
  <2> SUFFICES ASSUME NEW j \in 1..n, s[j] # s[i] PROVE s[j] \in Range(c) BY <1>1 DEF Range
  <2>1. CASE j < i
    <3>1. j \in 1..n-1 /\ j <= i - 1 BY <1>1, <2>1
    <3> QED BY <1>5, <1>6, <3>1 DEF Range
  <2>2. CASE j > i
    <3>1. j - 1 \in 1..n-1 /\ ~(j - 1 <= i - 1) /\ (j - 1) + 1 = j BY <1>1, <2>2
    <3>2. c[j - 1] = s[j] BY <1>5, <3>1
    <3> QED BY <1>6, <3>1, <3>2 DEF Range
  <2> QED BY <1>1, <2>1, <2>2
<1>10. IsInjective(c)
  <2> SUFFICES ASSUME NEW k \in 1..n-1, NEW l \in 1..n-1, c[k] = c[l] PROVE k = l
    BY <1>6 DEF IsInjective
  <2>1. k <= i - 1 => c[k] = s[k] /\ k \in 1..n BY <1>1, <1>5
  <2>2. ~(k <= i - 1) => c[k] = s[k + 1] /\ k + 1 \in 1..n BY <1>1, <1>5
  <2>3. l <= i - 1 => c[l] = s[l] /\ l \in 1..n BY <1>1, <1>5
  <2>4. ~(l <= i - 1) => c[l] = s[l + 1] /\ l + 1 \in 1..n BY <1>1, <1>5
  <2>5. \A x, y \in 1..n : s[x] = s[y] => x = y BY <1>1 DEF IsInjective
  <2>6. CASE k <= i - 1 /\ l <= i - 1 BY <2>1, <2>3, <2>5, <2>6
  <2>7. CASE ~(k <= i - 1) /\ ~(l <= i - 1)
    <3>1. k + 1 = l + 1 BY <2>2, <2>4, <2>5, <2>7
    <3> QED BY <3>1
  <2>8. CASE k <= i - 1 /\ ~(l <= i - 1)
    <3>1. k = l + 1 BY <2>1, <2>4, <2>5, <2>8
    <3> QED BY <1>1, <2>8, <3>1
  <2>9. CASE ~(k <= i - 1) /\ l <= i - 1
    <3>1. k + 1 = l BY <2>2, <2>3, <2>5, <2>9
    <3> QED BY <1>1, <2>9, <3>1
  <2> QED BY <2>6, <2>7, <2>8, <2>9
<1>11. RemoveAt(s, i) = c BY DEF RemoveAt, c, before, behind
<1> QED BY <1>4, <1>8, <1>9, <1>10, <1>11

-----------------------------------------------------------------------------
\* Recursive functions.

\* What every step hands on holds at the end.
LEMMA HandedOn ==
  ASSUME NEW n \in Nat, NEW a, NEW G, a[0] \in G[0],
         \A i \in 1..n : a[i-1] \in G[i-1] => a[i] \in G[i]
  PROVE  \A i \in 0..n : a[i] \in G[i]
<1> DEFINE bad == {i \in 0..n : a[i] \notin G[i]}
<1> SUFFICES ASSUME bad # {} PROVE FALSE OBVIOUS
<1>1. bad \in SUBSET Nat OBVIOUS
<1>2. PICK k \in bad : \A l \in bad : k <= l
  <2> HIDE DEF bad
  <2> QED BY <1>1, MinOfNats
<1>3. k \in 0..n /\ a[k] \notin G[k] OBVIOUS
<1>4. k # 0 BY <1>3
<1>5. k \in 1..n /\ k - 1 \in 0..n /\ ~(k <= k - 1) BY <1>3, <1>4
<1>6. k - 1 \notin bad BY <1>2, <1>5
<1>7. a[k-1] \in G[k-1] BY <1>5, <1>6
<1> QED BY <1>3, <1>5, <1>7

\* The steps F[i] of a recursion along 0..n lead from G[i-1] to G[i], and f follows them.
StepsLead(n, F, G) == \A i \in 1..n : \A x \in G[i-1] : F[i][x] \in G[i]
FollowsSteps(f, n, start, F, G) ==
  /\ f[0] = start /\ \A i \in 1..n : f[i] = F[i][f[i-1]]
  /\ \A i \in 0..n : f[i] \in G[i]

\* Such a recursion defines a function.
LEMMA RecursionSolved ==
  ASSUME NEW n \in Nat, NEW V, NEW G, \A i \in 0..n : G[i] \subseteq V, NEW start, start \in G[0],
         NEW F, StepsLead(n, F, G)
  PROVE  \E f \in [0..n -> V] : FollowsSteps(f, n, start, F, G)
<1> DEFINE step(f, i) == IF i = 0 THEN start ELSE F[i][f[i-1]]
           Walk(m, f) == /\ f = [i \in 0..m |-> step(f, i)]
                         /\ \A i \in 0..m : f[i] \in G[i]
           stuck == {m \in 0..n : \A f : ~Walk(m, f)}
<1>1. stuck = {}
  <2> SUFFICES ASSUME stuck # {} PROVE FALSE OBVIOUS
  <2>1. stuck \in SUBSET Nat OBVIOUS
  <2>2. PICK k \in stuck : \A l \in stuck : k <= l
    <3> HIDE DEF stuck
    <3> QED BY <2>1, MinOfNats
  <2>3. k \in 0..n /\ \A f : ~Walk(k, f) OBVIOUS
  <2>4. CASE k = 0
    <3> DEFINE f == [i \in 0..0 |-> start]
    <3>1. Walk(0, f) OBVIOUS
    <3> QED BY <2>3, <2>4, <3>1
  <2>5. CASE k # 0
    <3>1. k - 1 \in 0..n /\ ~(k <= k - 1) /\ k \in 1..n BY <2>3, <2>5
    <3>2. k - 1 \notin stuck
      <4> HIDE DEF stuck
      <4> QED BY <2>2, <3>1
    <3>3. PICK g : Walk(k - 1, g) BY <3>1, <3>2
    <3> DEFINE top == F[k][g[k-1]]
               f == [i \in 0..k |-> IF i = k THEN top ELSE g[i]]
    <3>4. top \in G[k]
      <4>1. g[k-1] \in G[k-1] BY <3>1, <3>3
      <4> QED BY <3>1, <4>1 DEF StepsLead
    <3>5. \A i \in 0..k : f[i] = step(f, i)
      <4> SUFFICES ASSUME NEW i \in 0..k PROVE f[i] = step(f, i) OBVIOUS
      <4>1. CASE i = k
        <5>1. f[i] = top /\ k - 1 \in 0..k /\ f[k-1] = g[k-1] BY <2>3, <3>1, <4>1
        <5> HIDE DEF f
        <5> QED BY <2>5, <4>1, <5>1
      <4>2. CASE i # k
        <5>1. i \in 0..k-1 /\ f[i] = g[i] BY <2>3, <4>2
        <5>2. g[i] = step(g, i) BY <3>3, <5>1
        <5>3. i # 0 => i - 1 \in 0..k /\ i - 1 # k /\ f[i-1] = g[i-1] BY <2>3, <5>1
        <5> HIDE DEF f
        <5> QED BY <5>1, <5>2, <5>3
      <4> QED BY <4>1, <4>2
    <3>6. \A i \in 0..k : f[i] \in G[i]
      <4> SUFFICES ASSUME NEW i \in 0..k PROVE f[i] \in G[i] OBVIOUS
      <4>1. CASE i = k BY <2>3, <3>4, <4>1
      <4>2. CASE i # k BY <2>3, <3>3, <4>2, i \in 0..k-1
      <4> QED BY <4>1, <4>2
    <3>7. Walk(k, f)
      <4>1. f = [i \in 0..k |-> f[i]] OBVIOUS
      <4> HIDE DEF f, step
      <4> QED BY <3>5, <3>6, <4>1
    <3> QED BY <2>3, <3>7
  <2> QED BY <2>4, <2>5
<1>2. n \in 0..n OBVIOUS
<1>3. PICK f : Walk(n, f)
  <2> HIDE DEF Walk
  <2> QED BY <1>1, <1>2
<1>4. DOMAIN f = 0..n /\ \A i \in 0..n : f[i] = step(f, i) BY <1>3
<1>5. f[0] = start /\ \A i \in 1..n : f[i] = F[i][f[i-1]] BY <1>4
<1>6. \A i \in 0..n : f[i] \in G[i] BY <1>3
<1>7. f = [i \in 0..n |-> f[i]] BY <1>3
<1>8. f \in [0..n -> V] BY <1>6, <1>7
<1>9. FollowsSteps(f, n, start, F, G) BY <1>5, <1>6 DEF FollowsSteps
<1> QED BY <1>8, <1>9
=============================================================================
