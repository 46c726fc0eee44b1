----------------------- MODULE ContinuousBatchProofs ------------------------
(***************************************************************************)
(* For any requests, reservations, keys and limits: the shared budget is   *)
(* what the outstanding requests reserved, a session key has one holder,   *)
(* and an outstanding request is in exactly one hand.  Only finitely many  *)
(* requests are outstanding at a time, which is part of the invariant and  *)
(* not an assumption.                                                      *)
(***************************************************************************)
EXTENDS ContinuousBatch, SequenceTheorems, FiniteSetTheorems, TLAPS

Early == {"idle", "start", "join", "enqueue"}
Places == {"idle", "start", "join", "enqueue", "waiting", "withdrawn", "leave", "stopped",
           "device", "returned"}

\* Where a request can be kept while it is outstanding.
Withdrawing == {r \in Batched : pc[r] = "withdrawn"}
InOneHand(r) ==
  LET p == r \in Range(pending)  a == r \in Range(arrivals)  f == r \in Range(prefilling)
      v == r \in active  g == r \in group  d == r \in doomed  w == r \in Withdrawing
  IN
  /\ (r \in Outstanding) = (p \/ a \/ f \/ v \/ g \/ d \/ w)
  /\ p => ~(a \/ f \/ v \/ g \/ d \/ w)
  /\ a => ~(f \/ v \/ g \/ d \/ w)
  /\ f => ~(v \/ g \/ d \/ w)
  /\ v => ~(g \/ d \/ w)
  /\ g => ~(d \/ w)
  /\ d => ~w

\* The lists hold each request once; the worker's collections by its place.
Lists ==
  /\ pending \in Seq(Batched) /\ IsInjective(pending)
  /\ arrivals \in Seq(Batched) /\ IsInjective(arrivals)
  /\ prefilling \in Seq(Batched) /\ IsInjective(prefilling)
  /\ active \subseteq Batched /\ group \subseteq Batched /\ doomed \subseteq Batched
Between ==
  /\ worker \notin {"admit", "group"} => arrivals = <<>>
  /\ worker # "failing" => doomed = {}
  /\ worker = "prefill" => prefilling # <<>>

\* A promise is kept once, after the budget was released, and never before admission.
Promises ==
  /\ pc \in [Batched \cup Fallback -> Places]
  /\ done \in [Batched -> BOOLEAN] /\ released \in [Batched -> BOOLEAN]
  /\ \A r \in Batched : released[r] = done[r] /\ (pc[r] \in Early => ~done[r])

Accounts ==
  /\ reserved \in Nat /\ IsFiniteSet(Outstanding)
  /\ BudgetExact /\ SessionExclusive

Hands == Lists /\ Between /\ \A r \in Batched : InOneHand(r)
IInv == Promises /\ Accounts /\ Hands

----------------------------------------------------------------------------
(* Queues without repetition.                                              *)
(* The library's induction theorems take an operator, which the provers    *)
(* cannot instantiate, so induction is done here on a set of naturals,     *)
(* from the least-element principle.                                       *)

\* A nonempty set of naturals has a least element.
LEMMA LeastNatural ==
  ASSUME NEW S \in SUBSET Nat, S # {} PROVE \E m \in S : \A n \in S : m <= n
<1> DEFINE R == OpToRel(<, Nat)
<1>1. \A m, n \in Nat : n < m => <<n, m>> \in R BY DEF OpToRel
<1>2. IsWellFoundedOn(R, Nat) BY NatLessThanWellFounded, Zenon
<1> HIDE DEF R
<1>3. PICK m \in S : \A n \in S : <<n, m>> \notin R BY <1>2, WFMin
<1>4. \A n \in S : ~(n < m) BY <1>1, <1>3
<1>5. \A n \in S : m <= n BY <1>4
<1>6. QED BY <1>5

\* Erasing the position of a listed element, or nothing when it is not listed (find and
\* erase on the pending queue): the others stay listed, once each.
LEMMA RemoveFirstIs ==
  ASSUME NEW S, NEW q \in Seq(S), IsInjective(q), NEW b
  PROVE  /\ RemoveFirst(q, b) \in Seq(S)
         /\ IsInjective(RemoveFirst(q, b))
         /\ Range(RemoveFirst(q, b)) = Range(q) \ {b}
         /\ Len(RemoveFirst(q, b)) <= Len(q)
<1>1. CASE \E i \in 1 .. Len(q) : q[i] = b
  <2> DEFINE I == {i \in 1 .. Len(q) : q[i] = b}
  <2>1. I \in SUBSET Nat /\ I # {} BY <1>1
  <2>2. PICK k \in I : k = Min(I)
    <3>1. \E m \in I : \A n \in I : m <= n BY <2>1, LeastNatural
    <3>2. QED BY <3>1 DEF Min
  <2>3. RemoveFirst(q, b) = RemoveAt(q, k)
    BY <1>1, <2>1, <2>2 DEF RemoveFirst, SelectInSeq
  <2> DEFINE front == SubSeq(q, 1, k - 1)
             back == SubSeq(q, k + 1, Len(q))
             u == front \o back
  <2>4. k \in 1 .. Len(q) /\ q[k] = b BY <2>2
  <2> HIDE DEF I
  <2>5. /\ front \in Seq(S) /\ Len(front) = k - 1
        /\ \A i \in 1 .. k - 1 : front[i] = q[i]
    BY <2>4
  <2>6. /\ back \in Seq(S) /\ Len(back) = Len(q) - k
        /\ \A i \in 1 .. Len(q) - k : back[i] = q[i + k]
    BY <2>4
  <2> HIDE DEF front, back
  <2>7. /\ u \in Seq(S) /\ Len(u) = Len(q) - 1
        /\ \A i \in 1 .. Len(q) - 1 : u[i] = IF i < k THEN q[i] ELSE q[i + 1]
    <3>1. /\ u \in Seq(S) /\ Len(u) = Len(front) + Len(back)
          /\ \A i \in 1 .. Len(front) + Len(back) :
               u[i] = IF i <= Len(front) THEN front[i] ELSE back[i - Len(front)]
      BY <2>5, <2>6, ConcatProperties
    <3>2. ASSUME NEW i \in 1 .. Len(q) - 1, i < k PROVE u[i] = q[i]
      BY <3>1, <3>2, <2>4, <2>5, <2>6
    <3>3. ASSUME NEW i \in 1 .. Len(q) - 1, i >= k PROVE u[i] = q[i + 1]
      <4>1. u[i] = back[i - (k - 1)] /\ i - (k - 1) \in 1 .. Len(q) - k
        BY <3>1, <3>3, <2>4, <2>5, <2>6
      <4>2. back[i - (k - 1)] = q[(i - (k - 1)) + k] BY <4>1, <2>6
      <4>3. (i - (k - 1)) + k = i + 1 BY <2>4
      <4>4. QED BY <4>1, <4>2, <4>3
    <3>4. QED BY <3>1, <3>2, <3>3, <2>4, <2>5, <2>6
  <2>8. RemoveFirst(q, b) = u BY <2>3 DEF RemoveAt, front, back
  <2> HIDE DEF u
  <2> DOMAIN q = 1 .. Len(q) /\ DOMAIN u = 1 .. Len(q) - 1 BY <2>7
  <2>9. IsInjective(u) BY <2>4, <2>7, SMTT(30) DEF IsInjective
  <2>10. Range(u) = Range(q) \ {b}
    <3>1. ASSUME NEW x \in Range(u) PROVE x \in Range(q) /\ x # b
      BY <2>4, <2>7, SMTT(30) DEF IsInjective, Range
    <3>2. ASSUME NEW i \in 1 .. Len(q), q[i] # b PROVE q[i] \in Range(u)
      <4>1. CASE i < k BY <3>2, <4>1, <2>4, <2>7 DEF Range
      <4>2. CASE i > k
        <5>1. i - 1 \in 1 .. Len(q) - 1 /\ u[i - 1] = q[i] BY <4>2, <2>4, <2>7
        <5>2. QED BY <5>1, <2>7 DEF Range
      <4>3. QED BY <4>1, <4>2, <3>2, <2>4
    <3>3. QED BY <3>1, <3>2 DEF Range
  <2>11. QED BY <2>7, <2>8, <2>9, <2>10
<1>2. CASE ~\E i \in 1 .. Len(q) : q[i] = b
  BY <1>2 DEF RemoveFirst, Range
<1>3. QED BY <1>1, <1>2

\* Listing a new element (push_back on cb_pending_).
LEMMA AppendNew ==
  ASSUME NEW S, NEW q \in Seq(S), IsInjective(q), NEW x \in S, x \notin Range(q)
  PROVE  /\ Append(q, x) \in Seq(S) /\ IsInjective(Append(q, x))
         /\ Range(Append(q, x)) = Range(q) \cup {x}
<1> DEFINE a == Append(q, x)
<1>1. /\ a \in Seq(S) /\ Len(a) = Len(q) + 1 /\ a[Len(q) + 1] = x
      /\ \A i \in 1 .. Len(q) : a[i] = q[i]
  BY AppendProperties
<1> HIDE DEF a
<1>2. DOMAIN q = 1 .. Len(q) /\ DOMAIN a = 1 .. Len(q) + 1 /\ Len(q) \in Nat BY <1>1
<1>3. IsInjective(a) BY <1>1, <1>2 DEF IsInjective, Range
<1>4. Range(a) = Range(q) \cup {x}
  <2>1. ASSUME NEW i \in 1 .. Len(q) + 1 PROVE a[i] \in Range(q) \cup {x}
    BY <1>1, <1>2 DEF Range
  <2>2. ASSUME NEW i \in 1 .. Len(q) PROVE q[i] \in Range(a)
    BY <1>1, <1>2 DEF Range
  <2>3. x \in Range(a) BY <1>1, <1>2 DEF Range
  <2>4. QED BY <2>1, <2>2, <2>3, <1>2 DEF Range
<1>5. QED BY <1>1, <1>3, <1>4 DEF a

\* Taking the front of a queue.
LEMMA HeadTailIs ==
  ASSUME NEW S, NEW q \in Seq(S), IsInjective(q), q # <<>>
  PROVE  /\ Head(q) \in S /\ Head(q) \in Range(q)
         /\ Tail(q) \in Seq(S) /\ IsInjective(Tail(q))
         /\ Range(Tail(q)) = Range(q) \ {Head(q)}
<1> DEFINE n == Len(q)
           g == Tail(q)
<1>1. n \in Nat \ {0} /\ DOMAIN q = 1 .. n /\ Head(q) = q[1] OBVIOUS
<1>2. /\ g \in Seq(S) /\ DOMAIN g = 1 .. n - 1
      /\ \A i \in 1 .. n - 1 : g[i] = q[i + 1]
  BY <1>1
<1>3. q[1] \in S /\ q[1] \in Range(q) BY <1>1 DEF Range
<1> HIDE DEF g, n
<1>4. IsInjective(g)
  <2> SUFFICES ASSUME NEW i \in 1 .. n - 1, NEW j \in 1 .. n - 1, g[i] = g[j] PROVE i = j
    BY <1>2 DEF IsInjective
  <2>1. i + 1 \in 1 .. n /\ j + 1 \in 1 .. n /\ q[i + 1] = q[j + 1] BY <1>1, <1>2
  <2>2. i + 1 = j + 1 BY <2>1, <1>1 DEF IsInjective
  <2>3. QED BY <2>2
<1>5. Range(g) = Range(q) \ {q[1]}
  <2>1. ASSUME NEW i \in 1 .. n - 1 PROVE g[i] \in Range(q) /\ g[i] # q[1]
    BY <1>1, <1>2 DEF Range, IsInjective
  <2>2. ASSUME NEW i \in 1 .. n, q[i] # q[1] PROVE q[i] \in Range(g)
    <3>1. i - 1 \in 1 .. n - 1 /\ g[i - 1] = q[i] BY <1>1, <1>2, <2>2
    <3>2. QED BY <1>2, <3>1 DEF Range
  <2>3. QED BY <1>1, <1>2, <2>1, <2>2, ZenonT(60) DEF Range
<1>6. QED BY <1>1, <1>2, <1>3, <1>4, <1>5 DEF g

\* Putting one list before another that shares no element with it.
LEMMA ConcatIs ==
  ASSUME NEW S, NEW q \in Seq(S), IsInjective(q), NEW v \in Seq(S), IsInjective(v),
         Range(q) \cap Range(v) = {}
  PROVE  /\ q \o v \in Seq(S) /\ IsInjective(q \o v)
         /\ Range(q \o v) = Range(q) \cup Range(v)
<1> DEFINE n == Len(q)
           k == Len(v)
           u == q \o v
<1>1. n \in Nat /\ k \in Nat /\ DOMAIN q = 1 .. n /\ DOMAIN v = 1 .. k OBVIOUS
<1>2. /\ u \in Seq(S) /\ DOMAIN u = 1 .. n + k
      /\ \A i \in 1 .. n + k : u[i] = IF i <= n THEN q[i] ELSE v[i - n]
  BY ConcatProperties
<1> HIDE DEF u, n, k
<1>3. \A i \in 1 .. n : q[i] \in Range(q) BY <1>1 DEF Range
<1>4. \A i \in 1 .. k : v[i] \in Range(v) BY <1>1 DEF Range
<1>5. IsInjective(u)
  <2> SUFFICES ASSUME NEW i \in 1 .. n + k, NEW j \in 1 .. n + k, u[i] = u[j] PROVE i = j
    BY <1>2 DEF IsInjective
  <2>1. CASE i <= n /\ j <= n BY <2>1, <1>1, <1>2 DEF IsInjective
  <2>2. CASE i > n /\ j > n
    <3>1. i - n \in 1 .. k /\ j - n \in 1 .. k /\ v[i - n] = v[j - n]
      BY <2>2, <1>1, <1>2
    <3>2. i - n = j - n BY <3>1, <1>1 DEF IsInjective
    <3>3. QED BY <3>2, <1>1
  <2>3. CASE i <= n /\ j > n
    <3>1. j - n \in 1 .. k /\ q[i] = v[j - n] /\ i \in 1 .. n BY <2>3, <1>1, <1>2
    <3>2. QED BY <3>1, <1>3, <1>4
  <2>4. CASE i > n /\ j <= n
    <3>1. i - n \in 1 .. k /\ v[i - n] = q[j] /\ j \in 1 .. n BY <2>4, <1>1, <1>2
    <3>2. QED BY <3>1, <1>3, <1>4
  <2>5. QED BY <2>1, <2>2, <2>3, <2>4, <1>1
<1>6. Range(u) = Range(q) \cup Range(v)
  <2>1. ASSUME NEW i \in 1 .. n + k PROVE u[i] \in Range(q) \cup Range(v)
    <3>1. CASE i <= n BY <3>1, <1>1, <1>2, <1>3
    <3>2. CASE i > n
      <4>1. i - n \in 1 .. k /\ u[i] = v[i - n] BY <3>2, <1>1, <1>2
      <4>2. QED BY <4>1, <1>4
    <3>3. QED BY <3>1, <3>2, <1>1
  <2>2. ASSUME NEW i \in 1 .. n PROVE q[i] \in Range(u)
    <3>1. i \in 1 .. n + k /\ u[i] = q[i] BY <1>1, <1>2
    <3>2. QED BY <3>1, <1>2 DEF Range
  <2>3. ASSUME NEW i \in 1 .. k PROVE v[i] \in Range(u)
    <3>1. i + n \in 1 .. n + k /\ u[i + n] = v[i] BY <1>1, <1>2
    <3>2. QED BY <3>1, <1>2 DEF Range
  <2>4. QED BY <1>1, <1>2, <2>1, <2>2, <2>3, ZenonT(60) DEF Range
<1>7. QED BY <1>2, <1>5, <1>6 DEF u

\* Cutting a list in two.
LEMMA SplitIs ==
  ASSUME NEW S, NEW q \in Seq(S), IsInjective(q), NEW n \in 1 .. Len(q)
  PROVE  LET front == SubSeq(q, 1, n) back == SubSeq(q, n + 1, Len(q)) IN
         /\ front \in Seq(S) /\ back \in Seq(S) /\ IsInjective(front) /\ IsInjective(back)
         /\ Range(front) \cap Range(back) = {} /\ Range(q) = Range(front) \cup Range(back)
<1> DEFINE front == SubSeq(q, 1, n)
           back == SubSeq(q, n + 1, Len(q))
           k == Len(q)
<1>1. k \in Nat /\ DOMAIN q = 1 .. k /\ n \in 1 .. k OBVIOUS
<1>2. front \in Seq(S) /\ DOMAIN front = 1 .. n /\ \A i \in 1 .. n : front[i] = q[i]
  BY <1>1
<1>3. back \in Seq(S) /\ DOMAIN back = 1 .. k - n /\ \A i \in 1 .. k - n : back[i] = q[i + n]
  BY <1>1
<1> HIDE DEF front, back, k
<1>4. IsInjective(front) BY <1>1, <1>2 DEF IsInjective
<1>5. IsInjective(back)
  <2> SUFFICES ASSUME NEW i \in 1 .. k - n, NEW j \in 1 .. k - n, back[i] = back[j] PROVE i = j
    BY <1>3 DEF IsInjective
  <2>1. i + n \in 1 .. k /\ j + n \in 1 .. k /\ q[i + n] = q[j + n] BY <1>1, <1>3
  <2>2. i + n = j + n BY <2>1, <1>1 DEF IsInjective
  <2>3. QED BY <2>2, <1>1
<1>6. \A i \in 1 .. n, j \in 1 .. k - n : front[i] # back[j]
  <2> SUFFICES ASSUME NEW i \in 1 .. n, NEW j \in 1 .. k - n, front[i] = back[j] PROVE FALSE
    OBVIOUS
  <2>1. i \in 1 .. k /\ j + n \in 1 .. k /\ q[i] = q[j + n] BY <1>1, <1>2, <1>3
  <2>2. i = j + n BY <2>1, <1>1 DEF IsInjective
  <2>3. QED BY <2>2, <1>1
<1>7. Range(q) = Range(front) \cup Range(back)
  <2>1. ASSUME NEW i \in 1 .. k PROVE q[i] \in Range(front) \cup Range(back)
    <3>1. CASE i <= n BY <3>1, <1>1, <1>2 DEF Range
    <3>2. CASE i > n
      <4>1. i - n \in 1 .. k - n /\ back[i - n] = q[i] BY <3>2, <1>1, <1>3
      <4>2. QED BY <4>1, <1>3 DEF Range
    <3>3. QED BY <3>1, <3>2, <1>1
  <2>2. ASSUME NEW i \in 1 .. n PROVE front[i] \in Range(q) BY <1>1, <1>2 DEF Range
  <2>3. ASSUME NEW i \in 1 .. k - n PROVE back[i] \in Range(q)
    <3>1. i + n \in 1 .. k /\ back[i] = q[i + n] BY <1>1, <1>3
    <3>2. QED BY <3>1, <1>1 DEF Range
  <2>4. QED BY <1>1, <1>2, <1>3, <2>1, <2>2, <2>3, ZenonT(60) DEF Range
<1>8. Range(front) \cap Range(back) = {} BY <1>2, <1>3, <1>6 DEF Range
<1>9. QED BY <1>2, <1>3, <1>4, <1>5, <1>7, <1>8 DEF front, back, k

----------------------------------------------------------------------------
(* Sums over finite sets.                                                  *)

\* Induction on the naturals, on a set of them.
LEMMA NaturalInduction ==
  ASSUME NEW N, 0 \in N, \A n \in Nat : n \in N => n + 1 \in N PROVE Nat \subseteq N
<1> DEFINE M == {n \in Nat : n \notin N}
<1>1. SUFFICES ASSUME M # {} PROVE FALSE OBVIOUS
<1>2. PICK m \in M : \A n \in M : m <= n
  <2>1. M \in SUBSET Nat OBVIOUS
  <2> HIDE DEF M
  <2>2. QED BY <1>1, <2>1, LeastNatural
<1>3. m # 0 /\ m - 1 \in Nat /\ m - 1 \notin M BY <1>2
<1>4. QED BY <1>2, <1>3

\* What the elements of a set reserve together.
Total(f, S) == MapThenSumSet(LAMBDA x : f[x], S)

Pick(s) == CHOOSE x \in s : TRUE
\* One step of the fold behind MapThenSumSet.
SumStep(f, g, s) == IF s = {} THEN 0 ELSE f[Pick(s)] + g[s \ {Pick(s)}]
\* g has the equation of the fold on the subsets of S.
IsFold(f, S, g) == \A s \in SUBSET S : g[s] = SumStep(f, g, s)

\* A set loses one of its elements.
LEMMA PickIs ==
  ASSUME NEW s, s # {}, IsFiniteSet(s)
  PROVE  /\ Pick(s) \in s /\ IsFiniteSet(s \ {Pick(s)})
         /\ Cardinality(s) \in Nat
         /\ Cardinality(s \ {Pick(s)}) = Cardinality(s) - 1
  BY FS_RemoveElement, FS_CardinalityType DEF Pick

\* The fold is defined on a finite set: there is a function with its equation.
LEMMA FoldExists ==
  ASSUME NEW D, NEW f \in [D -> Nat], NEW S \in SUBSET D, IsFiniteSet(S)
  PROVE  \E g \in [SUBSET S -> Nat] : IsFold(f, S, g)
<1> DEFINE Small(n) == {s \in SUBSET S : Cardinality(s) <= n}
           N == {n \in Nat : \E g \in [Small(n) -> Nat] : \A s \in Small(n) : g[s] = SumStep(f, g, s)}
<1>1. \A s \in SUBSET S : IsFiniteSet(s) /\ Cardinality(s) \in Nat /\ Cardinality(s) <= Cardinality(S)
  BY FS_Subset, FS_CardinalityType
<1>2. ASSUME NEW n \in Nat, NEW s \in Small(n), s # {}
      PROVE  /\ Pick(s) \in s /\ f[Pick(s)] \in Nat /\ n # 0
             /\ s \ {Pick(s)} \in Small(n) /\ s \ {Pick(s)} \in Small(n - 1)
  <2>1. Pick(s) \in s /\ Cardinality(s \ {Pick(s)}) = Cardinality(s) - 1 /\ Cardinality(s) \in Nat
    BY <1>1, <1>2, PickIs
  <2>2. Cardinality(s) # 0 BY <1>1, <1>2, FS_EmptySet
  <2>3. QED BY <2>1, <2>2
<1>3. 0 \in N
  <2> DEFINE g == [s \in Small(0) |-> 0]
  <2>1. \A s \in Small(0) : s = {} BY <1>2
  <2>2. \A s \in Small(0) : g[s] = SumStep(f, g, s) BY <2>1 DEF SumStep
  <2>3. g \in [Small(0) -> Nat] OBVIOUS
  <2>4. QED BY <2>2, <2>3
<1>4. ASSUME NEW n \in Nat, n \in N PROVE n + 1 \in N
  <2>1. PICK g \in [Small(n) -> Nat] : \A s \in Small(n) : g[s] = SumStep(f, g, s)
    BY <1>4
  <2> DEFINE h == [s \in Small(n + 1) |-> SumStep(f, g, s)]
  <2>2. ASSUME NEW s \in Small(n + 1) PROVE h[s] \in Nat /\ h[s] = SumStep(f, h, s)
    <3>1. CASE s = {} BY <3>1 DEF SumStep
    <3>2. CASE s # {}
      <4> DEFINE t == s \ {Pick(s)}
      <4>1. f[Pick(s)] \in Nat /\ t \in Small(n) /\ t \in Small(n + 1) BY <1>2, <3>2
      <4>2. h[t] = g[t] BY <2>1, <4>1
      <4>3. h[s] = f[Pick(s)] + g[t] BY <3>2 DEF SumStep
      <4>4. SumStep(f, h, s) = f[Pick(s)] + h[t] BY <3>2 DEF SumStep
      <4>5. QED BY <4>1, <4>2, <4>3, <4>4
    <3>3. QED BY <3>1, <3>2
  <2>3. h \in [Small(n + 1) -> Nat] BY <2>2
  <2>4. n + 1 \in Nat OBVIOUS
  <2> HIDE DEF h
  <2>5. QED BY <2>2, <2>3, <2>4
<1>5. Cardinality(S) \in N
  <2> HIDE DEF N
  <2>1. Nat \subseteq N BY <1>3, <1>4, NaturalInduction
  <2>2. QED BY <1>1, <2>1
<1>6. Small(Cardinality(S)) = SUBSET S BY <1>1
<1>7. PICK g \in [SUBSET S -> Nat] : \A s \in SUBSET S : g[s] = SumStep(f, g, s)
  BY <1>5, <1>6
<1>8. IsFold(f, S, g) BY <1>7 DEF IsFold
<1>9. QED BY <1>8

\* Two functions with the equation of the fold agree.
LEMMA FoldUnique ==
  ASSUME NEW f, NEW g, NEW h, NEW T, IsFiniteSet(T),
         IsFold(f, T, g), IsFold(f, T, h)
  PROVE  g[T] = h[T]
<1> USE DEF IsFold
<1> DEFINE N == {n \in Nat : \A s \in SUBSET T : Cardinality(s) = n => g[s] = h[s]}
<1>1. \A s \in SUBSET T : IsFiniteSet(s) /\ Cardinality(s) \in Nat
  BY FS_Subset, FS_CardinalityType
<1>2. 0 \in N
  <2>1. \A s \in SUBSET T : Cardinality(s) = 0 => s = {} BY <1>1, FS_EmptySet
  <2>2. QED BY <2>1 DEF SumStep
<1>3. ASSUME NEW n \in Nat, n \in N PROVE n + 1 \in N
  <2> SUFFICES ASSUME NEW s \in SUBSET T, Cardinality(s) = n + 1 PROVE g[s] = h[s] OBVIOUS
  <2>1. s # {} BY FS_EmptySet
  <2> DEFINE t == s \ {Pick(s)}
  <2>2. t \in SUBSET T /\ Cardinality(t) = n BY <1>1, <2>1, PickIs
  <2>3. g[t] = h[t] BY <1>3, <2>2
  <2>4. g[s] = f[Pick(s)] + g[t] /\ h[s] = f[Pick(s)] + h[t] BY <2>1 DEF SumStep
  <2>5. QED BY <2>3, <2>4
<1>4. Cardinality(T) \in N
  <2> HIDE DEF N
  <2>1. Nat \subseteq N BY <1>2, <1>3, NaturalInduction
  <2>2. QED BY <1>1, <2>1
<1>5. QED BY <1>4

\* The sum is the value of a function with the equation of the fold.
LEMMA TotalUnfold ==
  ASSUME NEW f, NEW S, IsFiniteSet(S), NEW g, IsFold(f, S, g), DOMAIN g = SUBSET S,
         g = [s \in DOMAIN g |-> g[s]]
  PROVE  Total(f, S) = g[S]
<1> DEFINE Solves(h) == h = [s \in SUBSET S |-> SumStep(f, h, s)]
           G == CHOOSE h : Solves(h)
<1>1. Solves(g) BY DEF IsFold
<1>2. Solves(G) BY <1>1
<1>3. Total(f, S) = G[S]
  BY Zenon DEF Total, MapThenSumSet, MapThenFoldSet, SumStep, Pick
<1> HIDE DEF G
<1>4. IsFold(f, S, G) BY <1>2 DEF IsFold
<1>5. QED BY <1>3, <1>4, FoldUnique

\* The empty sum; a sum loses what the element picked first reserved.
LEMMA TotalPick ==
  ASSUME NEW D, NEW f \in [D -> Nat], NEW S \in SUBSET D, IsFiniteSet(S)
  PROVE  /\ Total(f, S) \in Nat
         /\ S = {} => Total(f, S) = 0
         /\ S # {} => Total(f, S) = f[Pick(S)] + Total(f, S \ {Pick(S)})
<1>0. PICK g \in [SUBSET S -> Nat] : IsFold(f, S, g) BY FoldExists
<1>1. IsFold(f, S, g) /\ Total(f, S) = g[S] BY <1>0, TotalUnfold
<1>2. g[S] = SumStep(f, g, S) /\ g[S] \in Nat BY <1>1 DEF IsFold
<1>3. CASE S = {} BY <1>1, <1>2, <1>3 DEF SumStep
<1>4. CASE S # {}
  <2> DEFINE T == S \ {Pick(S)}
  <2>1. T \in SUBSET S /\ T \in SUBSET D /\ IsFiniteSet(T) BY FS_Subset
  <2> HIDE DEF T
  <2>2. PICK h \in [SUBSET T -> Nat] : IsFold(f, T, h) BY <2>1, FoldExists
  <2>3. IsFold(f, T, g) BY <1>1, <2>1 DEF IsFold
  <2>4. g[T] = h[T] BY <2>1, <2>2, <2>3, FoldUnique
  <2>5. Total(f, T) = h[T]
    <3>1. DOMAIN h = SUBSET T /\ h = [s \in DOMAIN h |-> h[s]] OBVIOUS
    <3>2. QED BY <2>1, <2>2, <3>1, TotalUnfold
  <2>6. g[S] = f[Pick(S)] + g[T] BY <1>2, <1>4 DEF SumStep, T
  <2>7. QED BY <1>1, <1>2, <1>4, <2>4, <2>5, <2>6 DEF T
<1>5. QED BY <1>3, <1>4

\* A sum loses exactly what a removed element reserved, whichever element it is.
LEMMA TotalRemove ==
  ASSUME NEW D, NEW f \in [D -> Nat], NEW S \in SUBSET D, IsFiniteSet(S), NEW x \in S
  PROVE  Total(f, S) = f[x] + Total(f, S \ {x})
<1> DEFINE Holds(s) == \A y \in s : Total(f, s) = f[y] + Total(f, s \ {y})
           N == {n \in Nat : \A s \in SUBSET S : Cardinality(s) = n => Holds(s)}
<1>1. \A s \in SUBSET S : IsFiniteSet(s) /\ Cardinality(s) \in Nat
  BY FS_Subset, FS_CardinalityType
<1>2. 0 \in N
  <2>1. \A s \in SUBSET S : Cardinality(s) = 0 => s = {} BY <1>1, FS_EmptySet
  <2>2. QED BY <2>1
<1>3. ASSUME NEW n \in Nat, n \in N PROVE n + 1 \in N
  <2> SUFFICES ASSUME NEW s \in SUBSET S, Cardinality(s) = n + 1, NEW y \in s
               PROVE  Total(f, s) = f[y] + Total(f, s \ {y})
    OBVIOUS
  <2> DEFINE z == Pick(s)
             u == (s \ {y}) \ {z}
  <2>1. Total(f, s) = f[z] + Total(f, s \ {z}) /\ z \in s
    BY <1>1, TotalPick, PickIs
  <2>2. CASE y = z BY <2>1, <2>2
  <2>3. CASE y # z
    <3>1. Cardinality(s \ {z}) = n /\ Cardinality(s \ {y}) = n
      <4>1. IsFiniteSet(s) /\ Cardinality(s) - 1 = n BY <1>1
      <4>2. QED BY <2>1, <4>1, FS_RemoveElement
    <3>2. Holds(s \ {z}) /\ Holds(s \ {y}) BY <1>3, <3>1
    <3>3. y \in s \ {z} /\ z \in s \ {y} /\ (s \ {z}) \ {y} = u BY <2>1, <2>3
    <3>4. Total(f, s \ {z}) = f[y] + Total(f, u) BY <3>2, <3>3
    <3>5. Total(f, s \ {y}) = f[z] + Total(f, u) BY <3>2, <3>3
    <3>6. f[y] \in Nat /\ f[z] \in Nat BY <2>1
    <3>7. Total(f, u) \in Nat BY <1>1, TotalPick
    <3> HIDE DEF u, z
    <3>8. QED BY <2>1, <3>4, <3>5, <3>6, <3>7
  <2>4. QED BY <2>2, <2>3
<1>4. Cardinality(S) \in N
  <2> HIDE DEF N
  <2>1. Nat \subseteq N BY <1>2, <1>3, NaturalInduction
  <2>2. QED BY <1>1, <2>1
<1>5. QED BY <1>4

\* A sum loses exactly what the elements of a subset reserved together.
LEMMA TotalDifference ==
  ASSUME NEW D, NEW f \in [D -> Nat], NEW S \in SUBSET D, IsFiniteSet(S), NEW F \in SUBSET S
  PROVE  Total(f, S) = Total(f, F) + Total(f, S \ F)
<1> DEFINE N == {n \in Nat : \A s \in SUBSET S : Cardinality(s) = n =>
                   Total(f, S) = Total(f, s) + Total(f, S \ s)}
<1>1. \A s \in SUBSET S : IsFiniteSet(s) /\ Cardinality(s) \in Nat /\ Total(f, s) \in Nat
  BY FS_Subset, FS_CardinalityType, TotalPick
<1>2. 0 \in N
  <2>1. \A s \in SUBSET S : Cardinality(s) = 0 => s = {} BY <1>1, FS_EmptySet
  <2>2. Total(f, {}) = 0 /\ S \ {} = S BY FS_EmptySet, TotalPick
  <2>3. Total(f, S) \in Nat BY <1>1
  <2>4. QED BY <2>1, <2>2, <2>3
<1>3. ASSUME NEW n \in Nat, n \in N PROVE n + 1 \in N
  <2> SUFFICES ASSUME NEW s \in SUBSET S, Cardinality(s) = n + 1
               PROVE  Total(f, S) = Total(f, s) + Total(f, S \ s)
    OBVIOUS
  <2>1. PICK y \in s : TRUE BY FS_EmptySet
  <2> DEFINE t == s \ {y}
  <2>2. t \in SUBSET S /\ Cardinality(t) = n
    <3>1. IsFiniteSet(s) /\ Cardinality(s) - 1 = n BY <1>1
    <3>2. QED BY <3>1, FS_RemoveElement
  <2>3. Total(f, S) = Total(f, t) + Total(f, S \ t) BY <1>3, <2>2
  <2>4. Total(f, s) = f[y] + Total(f, t) BY <1>1, TotalRemove
  <2>5. y \in S \ t /\ (S \ t) \ {y} = S \ s /\ S \ t \in SUBSET S /\ S \ s \in SUBSET S
    BY <2>1
  <2>6. Total(f, S \ t) = f[y] + Total(f, S \ s)
    <3>1. S \ t \in SUBSET D /\ IsFiniteSet(S \ t) BY <1>1, <2>5
    <3>2. QED BY <2>5, <3>1, TotalRemove
  <2>7. f[y] \in Nat /\ Total(f, t) \in Nat /\ Total(f, S \ s) \in Nat BY <1>1, <2>2, <2>5
  <2> HIDE DEF t
  <2>8. QED BY <2>3, <2>4, <2>6, <2>7
<1>4. Cardinality(F) \in N
  <2> HIDE DEF N
  <2>1. Nat \subseteq N BY <1>2, <1>3, NaturalInduction
  <2>2. QED BY <1>1, <2>1
<1>5. QED BY <1>4

----------------------------------------------------------------------------
(* The budget and the session keys.                                        *)

\* Cost is such a sum.
LEMMA CostIs == \A S : Cost(S) = Total(Reserve, S)
  BY DEF Cost, Total

\* Nothing is claimed or given back while the same requests are outstanding.
LEMMA AccountsSame ==
  ASSUME Accounts, UNCHANGED <<reserved, keys>>, Outstanding' = Outstanding
  PROVE  Accounts'
  BY DEF Accounts, BudgetExact, SessionExclusive

\* complete_continuous_request of outstanding requests gives back what they reserved and
\* the keys they claimed, and no other request's.
LEMMA CompleteIs ==
  ASSUME Promises, Accounts, NEW S \in SUBSET Outstanding, Complete(S),
         \A r \in Batched : (pc'[r] \in {"waiting", "withdrawn"}) = (pc[r] \in {"waiting", "withdrawn"})
  PROVE  /\ Outstanding' = Outstanding \ S /\ Accounts'
         /\ done' \in [Batched -> BOOLEAN] /\ released' \in [Batched -> BOOLEAN]
         /\ \A r \in Batched : released'[r] = done'[r] /\ done'[r] = (done[r] \/ r \in S)
<1>1. /\ done' = [r \in Batched |-> done[r] \/ r \in S]
      /\ released' = [r \in Batched |-> released[r] \/ r \in S]
  BY DEF Complete, Release
<1>2. /\ done' \in [Batched -> BOOLEAN] /\ released' \in [Batched -> BOOLEAN]
      /\ \A r \in Batched : released'[r] = done'[r] /\ done'[r] = (done[r] \/ r \in S)
  BY <1>1 DEF Promises
<1>3. Outstanding' = Outstanding \ S
  BY <1>2 DEF Promises, Outstanding
<1>4. {r \in S : ~released[r]} = S
  BY DEF Promises, Outstanding
<1>5. /\ reserved' = IF Cost(S) > reserved THEN 0 ELSE reserved - Cost(S)
      /\ keys' = keys \ {Key[r] : r \in S}
  BY <1>4 DEF Complete, Release
<1>6. reserved' \in Nat /\ reserved' = Cost(Outstanding') /\ IsFiniteSet(Outstanding')
  <2>1. Outstanding \in SUBSET Batched /\ Reserve \in [Batched -> Nat]
    BY BatchConfig DEF Outstanding
  <2>2. IsFiniteSet(Outstanding) BY DEF Accounts
  <2> DEFINE rest == Outstanding \ S
  <2>3. IsFiniteSet(S) /\ IsFiniteSet(rest) /\ S \in SUBSET Batched /\ rest \in SUBSET Batched
    BY <2>1, <2>2, FS_Subset
  <2>4. Total(Reserve, S) \in Nat /\ Total(Reserve, rest) \in Nat
    BY <2>1, <2>3, TotalPick
  <2>5. Total(Reserve, Outstanding) = Total(Reserve, S) + Total(Reserve, rest)
    BY <2>1, <2>2, TotalDifference
  <2>6. reserved = Total(Reserve, Outstanding) BY CostIs DEF Accounts, BudgetExact
  <2>7. reserved' = Total(Reserve, rest) BY <1>5, <2>4, <2>5, <2>6, CostIs
  <2>8. QED BY <1>3, <2>3, <2>4, <2>7, CostIs
<1>7. SessionExclusive'
  <2>1. \A r, q \in Outstanding : r # q /\ Key[r] = Key[q] => Key[r] = NoKey
    BY DEF Accounts, SessionExclusive
  <2>2. keys' = {Key[r] : r \in Outstanding'} \ {NoKey}
    BY <1>3, <1>5, <2>1 DEF Accounts, SessionExclusive
  <2>3. \A r, q \in Outstanding' : r # q /\ Key[r] = Key[q] => Key[r] = NoKey
    BY <1>3, <2>1
  <2>4. QED BY <2>2, <2>3 DEF SessionExclusive
<1>8. QED BY <1>2, <1>3, <1>6, <1>7 DEF Accounts, BudgetExact

\* Admission adds one request's reservation, and a key that nobody holds.
LEMMA AdmissionIs ==
  ASSUME Accounts, NEW r \in Batched, r \notin Outstanding,
         Key[r] # NoKey => Key[r] \notin keys,
         Outstanding' = Outstanding \cup {r}, reserved' = reserved + Reserve[r],
         keys' = keys \cup ({Key[r]} \ {NoKey})
  PROVE  Accounts'
<1> DEFINE more == Outstanding \cup {r}
<1>1. Outstanding \in SUBSET Batched /\ Reserve \in [Batched -> Nat]
  BY BatchConfig DEF Outstanding
<1>2. IsFiniteSet(Outstanding) /\ IsFiniteSet(more) /\ more \in SUBSET Batched /\ r \in more
  BY <1>1, FS_AddElement DEF Accounts
<1>3. more \ {r} = Outstanding OBVIOUS
<1>4. Total(Reserve, more) = Reserve[r] + Total(Reserve, Outstanding)
  BY <1>1, <1>2, <1>3, TotalRemove
<1>5. reserved = Total(Reserve, Outstanding) /\ reserved \in Nat /\ Reserve[r] \in Nat
  BY <1>1, CostIs DEF Accounts, BudgetExact
<1>6. reserved' \in Nat /\ reserved' = Cost(Outstanding') BY <1>4, <1>5, CostIs
<1>7. SessionExclusive'
  <2>1. \A p, q \in Outstanding : p # q /\ Key[p] = Key[q] => Key[p] = NoKey
    BY DEF Accounts, SessionExclusive
  <2>2. keys = {Key[p] : p \in Outstanding} \ {NoKey} BY DEF Accounts, SessionExclusive
  <2>3. keys' = {Key[p] : p \in Outstanding'} \ {NoKey} BY <2>2
  <2>4. \A p, q \in Outstanding' : p # q /\ Key[p] = Key[q] => Key[p] = NoKey
    BY <2>1, <2>2
  <2>5. QED BY <2>3, <2>4 DEF SessionExclusive
<1>8. QED BY <1>2, <1>6, <1>7 DEF Accounts, BudgetExact

----------------------------------------------------------------------------
(* The request threads.                                                    *)

\* Nothing is held, and nothing was promised.
LEMMA BatchInit == Init => IInv
<1> SUFFICES ASSUME Init PROVE IInv OBVIOUS
<1>1. Promises BY DEF Init, Promises, Places, Early
<1>2. Outstanding = {} /\ Withdrawing = {} BY BatchConfig DEF Init, Outstanding, Withdrawing
<1>3. Accounts
  <2>1. {} \in SUBSET Batched /\ Reserve \in [Batched -> Nat] BY BatchConfig
  <2>2. Total(Reserve, {}) = 0 BY <2>1, FS_EmptySet, TotalPick
  <2>3. QED BY <1>2, <2>2, FS_EmptySet, CostIs DEF Init, Accounts, BudgetExact, SessionExclusive
<1>4. Hands
  <2>1. IsInjective(<<>>) /\ Range(<<>>) = {} BY DEF IsInjective, Range
  <2>2. QED BY <1>2, <2>1 DEF Init, Hands, Lists, Between, InOneHand
<1>5. QED BY <1>1, <1>3, <1>4 DEF IInv

\* A step that moves no request from one hand to another and settles none.
LEMMA QuietKeeps ==
  ASSUME IInv, Promises', Between', UNCHANGED <<pending, rows, queue>>,
         \A r \in Batched : /\ (r \in Outstanding') = (r \in Outstanding)
                            /\ (r \in Withdrawing') = (r \in Withdrawing)
  PROVE  IInv'
<1>1. Outstanding' = Outstanding BY DEF Outstanding
<1>2. Accounts' BY <1>1, AccountsSame DEF IInv, queue
<1>3. Lists' BY DEF IInv, Hands, Lists, rows
<1>4. \A r \in Batched : InOneHand(r)' BY DEF IInv, Hands, InOneHand, rows
<1>5. QED BY <1>2, <1>3, <1>4 DEF IInv, Hands

\* A request thread that prepares, starts or joins a worker, cancels or returns holds no
\* other request, and the worker it starts inherits nothing from the one that ended.
LEMMA ClientKeeps ==
  ASSUME IInv, NEW c \in Batched, Prepare(c) \/ Start(c) \/ Joined(c) \/ Cancel(c) \/ Leave(c)
  PROVE  IInv'
<1> USE BatchConfig DEF Goto, queue, rows, thread
<1>1. UNCHANGED <<pending, rows, queue>>
  BY DEF Prepare, Start, Joined, Cancel, Leave
<1>2. /\ Promises'
      /\ \A r \in Batched : (r \in Outstanding') = (r \in Outstanding)
                            /\ (r \in Withdrawing') = (r \in Withdrawing)
  <2> USE DEF IInv, Promises, Outstanding, Withdrawing, Places, Early
  <2>1. CASE Prepare(c) BY <2>1 DEF Prepare
  <2>2. CASE Start(c) BY <2>2 DEF Start, Spawn
  <2>3. CASE Joined(c) BY <2>3 DEF Joined, Spawn
  <2>4. CASE Cancel(c) BY <2>4 DEF Cancel
  <2>5. CASE Leave(c) BY <2>5 DEF Leave
  <2>6. QED BY <2>1, <2>2, <2>3, <2>4, <2>5
<1>3. Between'
  BY <1>1 DEF IInv, Hands, Between, Prepare, Start, Joined, Cancel, Leave, Spawn
<1>4. QED BY <1>1, <1>2, <1>3, QuietKeeps

\* An unsupported request touches no queue: it waits for the worker to end.
LEMMA FallbackKeeps ==
  ASSUME IInv, NEW c \in Fallback, StopSignal(c) \/ SerialGoes(c)
  PROVE  IInv'
<1> USE BatchConfig DEF Goto, queue, rows, SerialGoes
<1>1. UNCHANGED <<pending, rows, queue>>
  BY DEF StopSignal, StopJoin, FallbackRuns, FallbackEnds
<1>2. /\ pc' \in [Batched \cup Fallback -> Places] /\ \A r \in Batched : pc'[r] = pc[r]
  BY DEF IInv, Promises, Places, StopSignal, StopJoin, FallbackRuns, FallbackEnds
<1>3. Promises' /\ \A r \in Batched : /\ (r \in Outstanding') = (r \in Outstanding)
                                      /\ (r \in Withdrawing') = (r \in Withdrawing)
  BY <1>1, <1>2 DEF IInv, Promises, Outstanding, Withdrawing
<1>4. Between'
  BY <1>1 DEF IInv, Hands, Between, StopSignal, StopJoin, FallbackRuns, FallbackEnds
<1>5. QED BY <1>1, <1>3, <1>4, QuietKeeps

\* Admission: the request is queued, and its reservation and its key are new.
LEMMA EnqueueKeeps == ASSUME IInv, NEW c \in Batched, Enqueue(c) PROVE IInv'
<1>1. pc[c] = "enqueue" /\ ~done[c] /\ c \notin Outstanding /\ c \notin Withdrawing
  BY DEF Enqueue, IInv, Promises, Early, Outstanding, Withdrawing
<1>2. UNCHANGED <<rows, released, done, worker>> BY DEF Enqueue, rows
<1>3. CASE ~Admissible(c)
  <2>1. UNCHANGED <<pending, queue>> /\ Goto(c, "leave") BY <1>2, <1>3 DEF Enqueue, queue
  <2>2. /\ Promises'
        /\ \A r \in Batched : (r \in Outstanding') = (r \in Outstanding)
                              /\ (r \in Withdrawing') = (r \in Withdrawing)
    BY <1>1, <1>2, <2>1 DEF IInv, Promises, Goto, Outstanding, Withdrawing, Places, Early
  <2>3. Between' BY <1>2 DEF rows, IInv, Hands, Between
  <2>4. QED BY <1>2, <2>1, <2>2, <2>3, QuietKeeps
<1>4. CASE Admissible(c)
  <2>1. /\ Goto(c, "waiting") /\ pending' = Append(pending, c)
        /\ reserved' = reserved + Reserve[c] /\ keys' = keys \cup ({Key[c]} \ {NoKey})
    BY <1>4 DEF Enqueue
  <2>2. Promises' /\ Outstanding' = Outstanding \cup {c} /\ Withdrawing' = Withdrawing
    BY <1>1, <1>2, <2>1 DEF IInv, Promises, Goto, Outstanding, Withdrawing, Places, Early
  <2>3. Accounts'
    BY <1>1, <1>4, <2>1, <2>2, AdmissionIs DEF IInv, Admissible
  <2>4. c \notin Range(pending) BY <1>1 DEF IInv, Hands, InOneHand
  <2>5. /\ pending' \in Seq(Batched) /\ IsInjective(pending')
        /\ Range(pending') = Range(pending) \cup {c}
    BY <2>1, <2>4, AppendNew DEF IInv, Hands, Lists
  <2>6. Lists' /\ Between' BY <1>2, <2>5 DEF rows, IInv, Hands, Lists, Between
  <2>7. ASSUME NEW r \in Batched PROVE InOneHand(r)'
    BY <1>1, <1>2, <2>2, <2>5 DEF rows, IInv, Hands, InOneHand
  <2>8. QED BY <2>2, <2>3, <2>6, <2>7 DEF IInv, Hands
<1>5. QED BY <1>3, <1>4

\* A cancelled request leaves the queue for its own thread...
LEMMA WithdrawKeeps == ASSUME IInv, NEW c \in Batched, Withdraw(c) PROVE IInv'
<1>1. UNCHANGED <<rows, queue, worker>> BY DEF Withdraw, rows, queue
<1>2. /\ Promises' /\ Outstanding' = Outstanding /\ Withdrawing' = Withdrawing \cup {c}
  BY <1>1 DEF IInv, Promises, Withdraw, Goto, Outstanding, Withdrawing, Places, Early, queue
<1>3. Accounts' BY <1>1, <1>2, AccountsSame DEF IInv, queue
<1>4. /\ pending' \in Seq(Batched) /\ IsInjective(pending')
      /\ Range(pending') = Range(pending) \ {c} /\ c \in Range(pending)
  BY RemoveFirstIs DEF IInv, Hands, Lists, Withdraw
<1>5. Lists' /\ Between' BY <1>1, <1>4 DEF rows, IInv, Hands, Lists, Between
<1>6. ASSUME NEW r \in Batched PROVE InOneHand(r)'
  BY <1>1, <1>2, <1>4 DEF rows, IInv, Hands, InOneHand
<1>7. QED BY <1>2, <1>3, <1>5, <1>6 DEF IInv, Hands

\* ...which completes it.
LEMMA WithdrawnKeeps == ASSUME IInv, NEW c \in Batched, Withdrawn(c) PROVE IInv'
<1>1. /\ UNCHANGED <<pending, rows, worker>> /\ Complete({c}) /\ pc[c] = "withdrawn"
      /\ Goto(c, "waiting")
  BY DEF Withdrawn, rows
<1>2. /\ c \in Withdrawing /\ c \in Outstanding
  BY <1>1 DEF Withdrawing, IInv, Hands, InOneHand
<1>3. /\ pc' \in [Batched \cup Fallback -> Places]
      /\ \A r \in Batched : pc'[r] = IF r = c THEN "waiting" ELSE pc[r]
  BY <1>1 DEF Goto, IInv, Promises, Places
<1>4. /\ Outstanding' = Outstanding \ {c} /\ Accounts'
      /\ done' \in [Batched -> BOOLEAN] /\ released' \in [Batched -> BOOLEAN]
      /\ \A r \in Batched : released'[r] = done'[r] /\ done'[r] = (done[r] \/ r \in {c})
  <2>1. \A r \in Batched : (pc'[r] \in {"waiting", "withdrawn"}) = (pc[r] \in {"waiting", "withdrawn"})
    BY <1>1, <1>3
  <2>2. {c} \in SUBSET Outstanding BY <1>2
  <2>3. QED BY <1>1, <2>1, <2>2, CompleteIs DEF IInv
<1>5. Promises' BY <1>3, <1>4 DEF IInv, Promises, Early
<1>6. Withdrawing' = Withdrawing \ {c} BY <1>3 DEF Withdrawing
<1>7. Lists' /\ Between' BY <1>1 DEF rows, IInv, Hands, Lists, Between
<1>8. ASSUME NEW r \in Batched PROVE InOneHand(r)'
  BY <1>1, <1>2, <1>4, <1>6 DEF rows, IInv, Hands, InOneHand
<1>9. QED BY <1>4, <1>5, <1>7, <1>8 DEF IInv, Hands

----------------------------------------------------------------------------
(* The worker.                                                             *)

\* A worker's step that moves requests between hands without completing any.
LEMMA MoveKeeps ==
  ASSUME IInv, UNCHANGED <<pc, queue>>
  PROVE  /\ Outstanding' = Outstanding /\ Withdrawing' = Withdrawing
         /\ Promises' /\ Accounts'
<1>1. Outstanding' = Outstanding /\ Withdrawing' = Withdrawing /\ Promises'
  BY DEF IInv, Promises, Outstanding, Withdrawing, queue
<1>2. QED BY <1>1, AccountsSame DEF IInv, queue

\* A worker's step that completes requests it holds.
LEMMA CompletionKeeps ==
  ASSUME IInv, pc' = pc, NEW S \in SUBSET Outstanding, Complete(S)
  PROVE  /\ Outstanding' = Outstanding \ S /\ Withdrawing' = Withdrawing
         /\ Promises' /\ Accounts'
<1>1. /\ Outstanding' = Outstanding \ S /\ Accounts'
      /\ done' \in [Batched -> BOOLEAN] /\ released' \in [Batched -> BOOLEAN]
      /\ \A r \in Batched : released'[r] = done'[r] /\ done'[r] = (done[r] \/ r \in S)
  BY CompleteIs DEF IInv
<1>2. \A r \in S : pc[r] \notin Early BY DEF Outstanding, Early
<1>3. Promises' BY <1>1, <1>2 DEF IInv, Promises
<1>4. Withdrawing' = Withdrawing BY DEF Withdrawing
<1>5. QED BY <1>1, <1>3, <1>4

\* The worker begins its loop, leaves it, or has told every request of its failure.
LEMMA WorkerPassesKeeps ==
  ASSUME IInv, WorkerBegin \/ WorkerEnds \/ WorkerDies PROVE IInv'
<1>1. UNCHANGED <<pending, rows, queue, pc>>
  BY DEF WorkerBegin, WorkerEnds, WorkerDies, OfClients
<1>2. Outstanding' = Outstanding /\ Withdrawing' = Withdrawing /\ Promises'
  BY <1>1, MoveKeeps
<1>3. Between'
  BY <1>1 DEF IInv, Hands, Between, rows, WorkerBegin, WorkerEnds, WorkerDies, Mourned
<1>4. QED BY <1>1, <1>2, <1>3, QuietKeeps

\* The worker takes the whole queue when it has nothing left of the last one.
LEMMA TakeKeeps == ASSUME IInv, Take PROVE IInv'
<1>1. UNCHANGED <<pc, queue, prefilling, active, group, doomed>> /\ worker = "wait"
  BY DEF Take, OfClients
<1>2. Outstanding' = Outstanding /\ Withdrawing' = Withdrawing /\ Promises' /\ Accounts'
  BY <1>1, MoveKeeps
<1>3. arrivals = <<>> BY <1>1 DEF IInv, Hands, Between
<1>4. CASE worker' = "ending" /\ UNCHANGED <<pending, arrivals>>
  <2>1. Lists' /\ Between' BY <1>1, <1>3, <1>4 DEF IInv, Hands, Lists, Between
  <2>2. \A r \in Batched : InOneHand(r)' BY <1>1, <1>2, <1>4 DEF IInv, Hands, InOneHand
  <2>3. QED BY <1>2, <2>1, <2>2 DEF IInv, Hands
<1>5. CASE worker' = "admit" /\ arrivals' = pending /\ pending' = <<>>
  <2>1. IsInjective(<<>>) /\ Range(<<>>) = {} BY DEF IsInjective, Range
  <2>2. Lists' /\ Between' BY <1>1, <1>5, <2>1 DEF IInv, Hands, Lists, Between
  <2>3. ASSUME NEW r \in Batched PROVE InOneHand(r)'
    BY <1>1, <1>2, <1>3, <1>5, <2>1 DEF IInv, Hands, InOneHand
  <2>4. QED BY <1>2, <2>2, <2>3 DEF IInv, Hands
<1>6. QED BY <1>4, <1>5 DEF Take

\* The first arrival becomes a prefilling row, or completes.
LEMMA AdmitRowKeeps == ASSUME IInv, AdmitRow PROVE IInv'
<1> DEFINE c == Head(arrivals)
<1>1. /\ UNCHANGED <<pc, pending, active, group, doomed, worker>>
      /\ worker = "admit" /\ arrivals # <<>> /\ arrivals' = Tail(arrivals)
  BY DEF AdmitRow, OfClients
<1>2. /\ c \in Batched /\ c \in Range(arrivals)
      /\ arrivals' \in Seq(Batched) /\ IsInjective(arrivals')
      /\ Range(arrivals') = Range(arrivals) \ {c}
  BY <1>1, HeadTailIs DEF IInv, Hands, Lists
<1>3. c \in Outstanding /\ c \notin Range(prefilling) BY <1>2 DEF IInv, Hands, InOneHand
<1> HIDE DEF c
<1>4. CASE prefilling' = Append(prefilling, c) /\ UNCHANGED queue
  <2>1. Outstanding' = Outstanding /\ Withdrawing' = Withdrawing /\ Promises' /\ Accounts'
    BY <1>1, <1>4, MoveKeeps
  <2>2. /\ prefilling' \in Seq(Batched) /\ IsInjective(prefilling')
        /\ Range(prefilling') = Range(prefilling) \cup {c}
    BY <1>2, <1>3, <1>4, AppendNew DEF IInv, Hands, Lists
  <2>3. Lists' /\ Between' BY <1>1, <1>2, <2>2 DEF IInv, Hands, Lists, Between
  <2>4. ASSUME NEW r \in Batched PROVE InOneHand(r)'
    BY <1>1, <1>2, <2>1, <2>2 DEF IInv, Hands, InOneHand
  <2>5. QED BY <2>1, <2>3, <2>4 DEF IInv, Hands
<1>5. CASE Complete({c}) /\ UNCHANGED prefilling
  <2>1. {c} \in SUBSET Outstanding BY <1>3
  <2>2. Outstanding' = Outstanding \ {c} /\ Withdrawing' = Withdrawing /\ Promises' /\ Accounts'
    BY <1>1, <1>5, <2>1, CompletionKeeps
  <2>3. Lists' /\ Between' BY <1>1, <1>2, <1>5 DEF IInv, Hands, Lists, Between
  <2>4. ASSUME NEW r \in Batched PROVE InOneHand(r)'
    BY <1>1, <1>2, <1>5, <2>2 DEF IInv, Hands, InOneHand
  <2>5. QED BY <2>2, <2>3, <2>4 DEF IInv, Hands
<1>6. QED BY <1>4, <1>5 DEF AdmitRow, c

\* A run of grouped requests at the head of the arrivals becomes the group.
LEMMA AdmitGroupKeeps == ASSUME IInv, AdmitGroup PROVE IInv'
<1>1. /\ UNCHANGED <<pc, queue, pending, prefilling, active, doomed>>
      /\ worker = "admit" /\ worker' = "group" /\ group = {}
  BY DEF AdmitGroup, OfClients, Resident
<1>2. PICK n \in 1 .. Len(arrivals) :
        /\ group' = Range(SubSeq(arrivals, 1, n))
        /\ arrivals' = SubSeq(arrivals, n + 1, Len(arrivals))
  BY DEF AdmitGroup
<1>3. Outstanding' = Outstanding /\ Withdrawing' = Withdrawing /\ Promises' /\ Accounts'
  BY <1>1, MoveKeeps
<1>4. /\ arrivals' \in Seq(Batched) /\ IsInjective(arrivals')
      /\ group' \cap Range(arrivals') = {} /\ Range(arrivals) = group' \cup Range(arrivals')
  BY <1>2, SplitIs DEF IInv, Hands, Lists
<1>5. Range(arrivals) \subseteq Batched BY DEF IInv, Hands, Lists, Range
<1>6. Lists' /\ Between' BY <1>1, <1>4, <1>5 DEF IInv, Hands, Lists, Between
<1>7. ASSUME NEW r \in Batched PROVE InOneHand(r)'
  BY <1>1, <1>3, <1>4 DEF IInv, Hands, InOneHand
<1>8. QED BY <1>3, <1>6, <1>7 DEF IInv, Hands

\* A running group takes the head of the queue.
LEMMA GroupAdmitKeeps == ASSUME IInv, GroupAdmit PROVE IInv'
<1> DEFINE c == Head(pending)
<1>1. /\ UNCHANGED <<pc, queue, arrivals, prefilling, active, doomed, worker>>
      /\ pending # <<>> /\ pending' = Tail(pending) /\ group' = group \cup {c}
  BY DEF GroupAdmit, OfClients
<1>2. /\ c \in Batched /\ c \in Range(pending)
      /\ pending' \in Seq(Batched) /\ IsInjective(pending')
      /\ Range(pending') = Range(pending) \ {c}
  BY <1>1, HeadTailIs DEF IInv, Hands, Lists
<1> HIDE DEF c
<1>3. Outstanding' = Outstanding /\ Withdrawing' = Withdrawing /\ Promises' /\ Accounts'
  BY <1>1, MoveKeeps
<1>4. Lists' /\ Between' BY <1>1, <1>2 DEF IInv, Hands, Lists, Between
<1>5. ASSUME NEW r \in Batched PROVE InOneHand(r)'
  BY <1>1, <1>2, <1>3 DEF IInv, Hands, InOneHand
<1>6. QED BY <1>3, <1>4, <1>5 DEF IInv, Hands

\* A request of the group completes.
LEMMA GroupRowKeeps == ASSUME IInv, NEW c \in Batched, GroupRow(c) PROVE IInv'
<1>1. /\ UNCHANGED <<pc, pending, arrivals, prefilling, active, doomed, worker>>
      /\ c \in group /\ group' = group \ {c} /\ Complete({c})
  BY DEF GroupRow, OfClients
<1>2. {c} \in SUBSET Outstanding BY <1>1 DEF IInv, Hands, InOneHand
<1>3. Outstanding' = Outstanding \ {c} /\ Withdrawing' = Withdrawing /\ Promises' /\ Accounts'
  BY <1>1, <1>2, CompletionKeeps
<1>4. Lists' /\ Between' BY <1>1 DEF IInv, Hands, Lists, Between
<1>5. ASSUME NEW r \in Batched PROVE InOneHand(r)'
  BY <1>1, <1>3 DEF IInv, Hands, InOneHand
<1>6. QED BY <1>3, <1>4, <1>5 DEF IInv, Hands

\* What was not admitted goes back before what arrived meanwhile.
LEMMA RequeueKeeps == ASSUME IInv, Requeue PROVE IInv'
<1>1. /\ UNCHANGED <<pc, queue, prefilling, active, group, doomed>>
      /\ pending' = arrivals \o pending /\ arrivals' = <<>> /\ worker \in {"admit", "group"}
      /\ worker' = IF active # {} THEN "decode" ELSE IF prefilling # <<>> THEN "prefill" ELSE "wait"
  BY DEF Requeue, OfClients, Requeued
<1>2. Outstanding' = Outstanding /\ Withdrawing' = Withdrawing /\ Promises' /\ Accounts'
  BY <1>1, MoveKeeps
<1>3. Range(arrivals) \cap Range(pending) = {}
  <2>1. Range(arrivals) \subseteq Batched BY DEF IInv, Hands, Lists, Range
  <2>2. QED BY <2>1 DEF IInv, Hands, InOneHand
<1>4. /\ pending' \in Seq(Batched) /\ IsInjective(pending')
      /\ Range(pending') = Range(arrivals) \cup Range(pending)
  BY <1>1, <1>3, ConcatIs DEF IInv, Hands, Lists
<1>5. IsInjective(<<>>) /\ Range(<<>>) = {} BY DEF IsInjective, Range
<1>6. Lists' BY <1>1, <1>4, <1>5 DEF IInv, Hands, Lists
<1>7. Between' BY <1>1 DEF IInv, Hands, Between
<1>8. ASSUME NEW r \in Batched PROVE InOneHand(r)'
  BY <1>1, <1>2, <1>4, <1>5 DEF IInv, Hands, InOneHand
<1>9. QED BY <1>2, <1>6, <1>7, <1>8 DEF IInv, Hands

\* Any set of active rows completes in one decode step.
LEMMA DecodeKeeps == ASSUME IInv, Decode PROVE IInv'
<1>1. /\ UNCHANGED <<pc, pending, arrivals, prefilling, group, doomed>> /\ worker = "decode"
      /\ worker' = IF prefilling # <<>> THEN "prefill" ELSE "wait"
  BY DEF Decode, OfClients
<1>2. PICK fin \in SUBSET active : Complete(fin) /\ active' = active \ fin
  BY DEF Decode
<1>3. active \subseteq Outstanding BY DEF IInv, Hands, Lists, InOneHand
<1>4. Outstanding' = Outstanding \ fin /\ Withdrawing' = Withdrawing /\ Promises' /\ Accounts'
  <2>1. fin \in SUBSET Outstanding BY <1>3
  <2>2. QED BY <1>1, <1>2, <2>1, CompletionKeeps
<1>5. Lists' /\ Between' BY <1>1, <1>2 DEF IInv, Hands, Lists, Between
<1>6. ASSUME NEW r \in Batched PROVE InOneHand(r)'
  BY <1>1, <1>2, <1>4 DEF IInv, Hands, InOneHand
<1>7. QED BY <1>4, <1>5, <1>6 DEF IInv, Hands

\* The first prefilling row completes, goes to the back, or starts decoding.
LEMMA PrefillKeeps == ASSUME IInv, Prefill PROVE IInv'
<1> DEFINE c == Head(prefilling)
           rest == Tail(prefilling)
<1>1. /\ UNCHANGED <<pc, pending, arrivals, group, doomed>> /\ worker = "prefill"
      /\ worker' = IF burst' = 0 THEN "wait" ELSE worker
      /\ burst' = IF active' # {} \/ prefilling' = <<>> THEN 0 ELSE burst - 1
  BY DEF Prefill, OfClients
<1>2. /\ c \in Batched /\ c \in Range(prefilling)
      /\ rest \in Seq(Batched) /\ IsInjective(rest) /\ Range(rest) = Range(prefilling) \ {c}
  BY <1>1, HeadTailIs DEF IInv, Hands, Lists, Between
<1>3. c \in Outstanding /\ c \notin Range(rest) BY <1>2 DEF IInv, Hands, InOneHand
<1>4. Between'
  BY <1>1 DEF IInv, Hands, Between
<1> HIDE DEF c, rest
<1>5. CASE Complete({c}) /\ prefilling' = rest /\ UNCHANGED active
  <2>1. {c} \in SUBSET Outstanding BY <1>3
  <2>2. Outstanding' = Outstanding \ {c} /\ Withdrawing' = Withdrawing /\ Promises' /\ Accounts'
    BY <1>1, <1>5, <2>1, CompletionKeeps
  <2>3. Lists' BY <1>1, <1>2, <1>5 DEF IInv, Hands, Lists
  <2>4. ASSUME NEW r \in Batched PROVE InOneHand(r)'
    BY <1>1, <1>2, <1>5, <2>2 DEF IInv, Hands, InOneHand
  <2>5. QED BY <1>4, <2>2, <2>3, <2>4 DEF IInv, Hands
<1>6. CASE prefilling' = Append(rest, c) /\ UNCHANGED <<active, queue>>
  <2>1. Outstanding' = Outstanding /\ Withdrawing' = Withdrawing /\ Promises' /\ Accounts'
    BY <1>1, <1>6, MoveKeeps
  <2>2. /\ prefilling' \in Seq(Batched) /\ IsInjective(prefilling')
        /\ Range(prefilling') = Range(rest) \cup {c}
    BY <1>2, <1>3, <1>6, AppendNew
  <2>3. Lists' BY <1>1, <1>6, <2>2 DEF IInv, Hands, Lists
  <2>4. ASSUME NEW r \in Batched PROVE InOneHand(r)'
    BY <1>1, <1>2, <1>6, <2>1, <2>2 DEF IInv, Hands, InOneHand
  <2>5. QED BY <1>4, <2>1, <2>3, <2>4 DEF IInv, Hands
<1>7. CASE prefilling' = rest /\ active' = active \cup {c} /\ UNCHANGED queue
  <2>1. Outstanding' = Outstanding /\ Withdrawing' = Withdrawing /\ Promises' /\ Accounts'
    BY <1>1, <1>7, MoveKeeps
  <2>2. Lists' BY <1>1, <1>2, <1>7 DEF IInv, Hands, Lists
  <2>3. ASSUME NEW r \in Batched PROVE InOneHand(r)'
    BY <1>1, <1>2, <1>7, <2>1 DEF IInv, Hands, InOneHand
  <2>4. QED BY <1>4, <2>1, <2>2, <2>3 DEF IInv, Hands
<1>8. QED BY <1>5, <1>6, <1>7 DEF Prefill, c, rest

\* An exception: the catch block takes the queue over, and nothing else is lost.
LEMMA WorkerFailsKeeps == ASSUME IInv, WorkerFails PROVE IInv'
<1>1. /\ UNCHANGED <<pc, queue, arrivals, prefilling, active, group>>
      /\ worker \in {"begin", "decode", "prefill", "ending"} /\ worker' = "failing"
      /\ doomed' = Range(pending) /\ pending' = <<>>
  BY DEF WorkerFails, OfClients
<1>2. Outstanding' = Outstanding /\ Withdrawing' = Withdrawing /\ Promises' /\ Accounts'
  BY <1>1, MoveKeeps
<1>3. doomed = {} BY <1>1 DEF IInv, Hands, Between
<1>4. IsInjective(<<>>) /\ Range(<<>>) = {} BY DEF IsInjective, Range
<1>5. Range(pending) \subseteq Batched BY DEF IInv, Hands, Lists, Range
<1>6. Lists' /\ Between' BY <1>1, <1>4, <1>5 DEF IInv, Hands, Lists, Between
<1>7. ASSUME NEW r \in Batched PROVE InOneHand(r)'
  BY <1>1, <1>2, <1>3, <1>4 DEF IInv, Hands, InOneHand
<1>8. QED BY <1>2, <1>6, <1>7 DEF IInv, Hands

\* The catch block completes one request that the failed worker held.
LEMMA FailRowKeeps == ASSUME IInv, NEW c \in Batched, FailRow(c) PROVE IInv'
<1>1. /\ UNCHANGED <<pc, pending, arrivals, group, worker>> /\ worker = "failing"
      /\ c \in Mourned /\ Complete({c}) /\ doomed' = doomed \ {c} /\ active' = active \ {c}
      /\ prefilling' = RemoveFirst(prefilling, c)
  BY DEF FailRow, OfClients
<1>2. {c} \in SUBSET Outstanding BY <1>1 DEF IInv, Hands, InOneHand, Mourned
<1>3. Outstanding' = Outstanding \ {c} /\ Withdrawing' = Withdrawing /\ Promises' /\ Accounts'
  BY <1>1, <1>2, CompletionKeeps
<1>4. /\ prefilling' \in Seq(Batched) /\ IsInjective(prefilling')
      /\ Range(prefilling') = Range(prefilling) \ {c}
  BY <1>1, RemoveFirstIs DEF IInv, Hands, Lists
<1>5. Lists' /\ Between' BY <1>1, <1>4 DEF IInv, Hands, Lists, Between
<1>6. ASSUME NEW r \in Batched PROVE InOneHand(r)'
  BY <1>1, <1>3, <1>4 DEF IInv, Hands, InOneHand, Mourned
<1>7. QED BY <1>3, <1>5, <1>6 DEF IInv, Hands

\* Every step of a request thread, of an unsupported request and of the worker.
LEMMA BatchStep == IInv /\ [Next]_vars => IInv'
<1> SUFFICES ASSUME IInv, [Next]_vars PROVE IInv' OBVIOUS
<1>1. CASE UNCHANGED vars
  <2>1. UNCHANGED <<pending, rows, queue, pc, worker>> BY <1>1 DEF vars
  <2>2. Outstanding' = Outstanding /\ Withdrawing' = Withdrawing /\ Promises'
    BY <2>1, MoveKeeps
  <2>3. Between' BY <2>1 DEF IInv, Hands, Between, rows
  <2>4. QED BY <2>1, <2>2, <2>3, QuietKeeps
<1>2. ASSUME NEW r \in Batched, Prepare(r) \/ Goes(r) \/ Cancel(r) PROVE IInv'
  BY <1>2, ClientKeeps, EnqueueKeeps, WithdrawKeeps, WithdrawnKeeps DEF Goes
<1>3. ASSUME NEW f \in Fallback, StopSignal(f) \/ SerialGoes(f) PROVE IInv'
  BY <1>3, FallbackKeeps
<1>4. CASE Worker
  BY <1>4, WorkerPassesKeeps, TakeKeeps, AdmitRowKeeps, AdmitGroupKeeps, GroupAdmitKeeps,
     GroupRowKeeps, RequeueKeeps, DecodeKeeps, PrefillKeeps, FailRowKeeps DEF Worker
<1>5. CASE WorkerFails BY <1>5, WorkerFailsKeeps
<1>6. QED BY <1>1, <1>2, <1>3, <1>4, <1>5 DEF Next

----------------------------------------------------------------------------
\* Hands, promises, budget and keys agree in every reachable state.
THEOREM BatchInvariant == Spec => []IInv
<1>1. QED BY BatchInit, BatchStep, PTL DEF Spec

\* cb_reserved_tokens_ is what the outstanding requests reserved, whatever ended the others.
THEOREM BudgetExactAlways == Spec => []BudgetExact
<1>1. IInv => BudgetExact BY DEF IInv, Accounts
<1>2. QED BY <1>1, BatchInvariant, PTL

\* A session key is claimed exactly while one request of the session is outstanding.
THEOREM SessionExclusiveAlways == Spec => []SessionExclusive
<1>1. IInv => SessionExclusive BY DEF IInv, Accounts
<1>2. QED BY <1>1, BatchInvariant, PTL

\* An outstanding request is held once, by the queue, by the worker or by its own thread;
\* a request that is not outstanding is held by nobody.
THEOREM HeldOnceAlways == Spec => []HeldOnce
<1>1. ASSUME IInv PROVE HeldOnce
  <2> DEFINE hands == <<Range(pending), Range(arrivals), Range(prefilling), active, group, doomed,
                        Withdrawing>>
             S(r) == {i \in DOMAIN hands : r \in hands[i]}
  <2>1. SUFFICES ASSUME NEW r \in Batched
                 PROVE  Cardinality(S(r)) = IF r \in Outstanding THEN 1 ELSE 0
    BY DEF HeldOnce, Withdrawing
  <2>2. InOneHand(r) BY <1>1 DEF IInv, Hands
  <2>3. /\ DOMAIN hands = 1 .. 7
        /\ hands[1] = Range(pending)
        /\ hands[2] = Range(arrivals)
        /\ hands[3] = Range(prefilling)
        /\ hands[4] = active
        /\ hands[5] = group
        /\ hands[6] = doomed
        /\ hands[7] = Withdrawing
    OBVIOUS
  <2> HIDE DEF hands
  <2>4. CASE r \in Outstanding
    <3>1. PICK k \in 1 .. 7 : r \in hands[k] BY <2>2, <2>3, <2>4 DEF InOneHand
    <3>2. \A i \in 1 .. 7 : r \in hands[i] => i = k BY <2>2, <2>3, <3>1 DEF InOneHand
    <3>3. S(r) = {k} BY <2>3, <3>1, <3>2
    <3>4. QED BY <2>4, <3>3, FS_Singleton
  <2>5. CASE r \notin Outstanding
    <3>1. \A i \in 1 .. 7 : r \notin hands[i] BY <2>2, <2>3, <2>5 DEF InOneHand
    <3>2. S(r) = {} BY <2>3, <3>1
    <3>3. QED BY <2>5, <3>2, FS_EmptySet
  <2>6. QED BY <2>4, <2>5
<1>2. QED BY <1>1, BatchInvariant, PTL

----------------------------------------------------------------------------
(* Rows on the device. *)

\* A group has the device to itself: it starts when no row is resident, and plain rows are
\* admitted only after it has ended.
Seats ==
  /\ IsFiniteSet(active) /\ IsFiniteSet(group) /\ RowsBounded
  /\ group # {} => worker = "group"
  /\ worker = "group" => active = {} /\ prefilling = <<>>

\* A list has at most as many members as places.
LEMMA RangeBounded ==
  ASSUME NEW S, NEW q \in Seq(S)
  PROVE  IsFiniteSet(Range(q)) /\ Cardinality(Range(q)) <= Len(q)
<1>1. q \in Surjection(1 .. Len(q), Range(q)) BY DEF Surjection, Range
<1>2. IsFiniteSet(1 .. Len(q)) /\ Cardinality(1 .. Len(q)) = Len(q)
  <2>1. Len(q) \in Nat OBVIOUS
  <2>2. QED BY <2>1, FS_Interval
<1>3. QED BY <1>1, <1>2, FS_Surjection

\* One more member.
LEMMA OneMore ==
  ASSUME NEW S, NEW x, IsFiniteSet(S)
  PROVE  /\ IsFiniteSet(S \cup {x}) /\ Cardinality(S \cup {x}) <= Cardinality(S) + 1
         /\ Cardinality(S) \in Nat /\ Cardinality(S \cup {x}) \in Nat
<1>1. /\ IsFiniteSet(S \cup {x})
      /\ Cardinality(S \cup {x}) = IF x \in S THEN Cardinality(S) ELSE Cardinality(S) + 1
  BY FS_AddElement
<1>2. Cardinality(S) \in Nat /\ Cardinality(S \cup {x}) \in Nat BY <1>1, FS_CardinalityType
<1>3. QED BY <1>1, <1>2

\* Fewer rows and no new place in the worker's code.
LEMMA FewerSeats ==
  ASSUME IInv, Seats, active' \subseteq active, group' \subseteq group,
         prefilling' \in Seq(Batched), Len(prefilling') <= Len(prefilling),
         group' # {} => worker' = "group",
         worker' = "group" => worker = "group"
  PROVE  Seats'
<1>1. /\ IsFiniteSet(active') /\ Cardinality(active') <= Cardinality(active)
      /\ IsFiniteSet(group') /\ Cardinality(group') <= Cardinality(group)
  BY FS_Subset DEF Seats
<1>2. /\ Cardinality(active) \in Nat /\ Cardinality(group) \in Nat
      /\ Cardinality(active') \in Nat /\ Cardinality(group') \in Nat
  BY <1>1, FS_CardinalityType DEF Seats
<1>3. Len(prefilling) \in Nat /\ Len(prefilling') \in Nat BY DEF IInv, Hands, Lists
<1>4. RowsBounded'
  BY <1>1, <1>2, <1>3, BatchConfig DEF Seats, RowsBounded
<1>5. worker' = "group" => active' = {} /\ prefilling' = <<>>
  <2>1. ASSUME prefilling = <<>> PROVE prefilling' = <<>>
    <3>1. Len(prefilling') = 0 BY <2>1, <1>3
    <3>2. QED BY <3>1
  <2>2. QED BY <2>1 DEF Seats
<1>6. QED BY <1>1, <1>4, <1>5 DEF Seats

\* A vacant row is taken by the head of the arrivals.
LEMMA AdmitRowSeats == ASSUME IInv, Seats, AdmitRow PROVE Seats'
<1>1. /\ UNCHANGED <<active, group, worker>> /\ worker = "admit" /\ Vacant /\ arrivals # <<>>
      /\ prefilling' = prefilling \/ prefilling' = Append(prefilling, Head(arrivals))
  BY DEF AdmitRow
<1>2. prefilling \in Seq(Batched) /\ Head(arrivals) \in Batched
  BY <1>1, HeadTailIs DEF IInv, Hands, Lists
<1>3. CASE prefilling' = prefilling BY <1>1, <1>2, <1>3, FewerSeats DEF Seats
<1>4. CASE prefilling' = Append(prefilling, Head(arrivals))
  <2>1. Len(prefilling') = Len(prefilling) + 1 /\ Len(prefilling) \in Nat BY <1>2, <1>4
  <2>2. group = {} /\ Cardinality(group) = 0 /\ Cardinality(active) \in Nat
    BY <1>1, FS_EmptySet, FS_CardinalityType DEF Seats
  <2>3. RowsBounded' BY <1>1, <2>1, <2>2, BatchConfig DEF RowsBounded, Vacant
  <2>4. QED BY <1>1, <2>3 DEF Seats
<1>5. QED BY <1>1, <1>3, <1>4

\* A group starts on an empty device, with at most max_active requests...
LEMMA AdmitGroupSeats == ASSUME IInv, Seats, AdmitGroup PROVE Seats'
<1>1. PICK n \in 1 .. Len(arrivals) : GroupRun(n) /\ group' = Range(SubSeq(arrivals, 1, n))
  BY DEF AdmitGroup
<1>2. /\ UNCHANGED <<active, prefilling>> /\ worker' = "group" /\ Resident = {}
      /\ active = {} /\ Range(prefilling) = {}
  BY DEF AdmitGroup, Resident
<1>3. arrivals \in Seq(Batched) /\ prefilling \in Seq(Batched) BY DEF IInv, Hands, Lists
<1>4. prefilling = <<>> BY <1>2, <1>3, HeadTailIs DEF IInv, Hands, Lists
<1>5. SubSeq(arrivals, 1, n) \in Seq(Batched) /\ Len(SubSeq(arrivals, 1, n)) = n BY <1>3
<1>6. IsFiniteSet(group') /\ Cardinality(group') <= n /\ Cardinality(group') \in Nat
  BY <1>1, <1>5, RangeBounded, FS_CardinalityType
<1>7. n <= MaxActive
  <2>1. Min({Len(arrivals), MaxActive}) <= MaxActive
    <3>1. Len(arrivals) \in Nat /\ MaxActive \in Nat BY <1>3, BatchConfig
    <3>2. \E m \in {Len(arrivals), MaxActive} : \A k \in {Len(arrivals), MaxActive} : m <= k
      BY <3>1
    <3>3. QED BY <3>2 DEF Min
  <2>2. Min({Len(arrivals), MaxActive}) \in Nat
    <3>1. Len(arrivals) \in Nat /\ MaxActive \in Nat BY <1>3, BatchConfig
    <3>2. \E m \in {Len(arrivals), MaxActive} : \A k \in {Len(arrivals), MaxActive} : m <= k
      BY <3>1
    <3>3. QED BY <3>1, <3>2 DEF Min
  <2>3. n <= Min({Len(arrivals), MaxActive}) BY <1>1, <2>2 DEF GroupRun
  <2>4. QED BY <2>1, <2>2, <2>3, BatchConfig
<1>8. RowsBounded'
  <2>1. Cardinality(active') = 0 /\ Len(prefilling') = 0 BY <1>2, <1>4, FS_EmptySet
  <2>2. QED BY <1>6, <1>7, <2>1, BatchConfig DEF RowsBounded
<1>9. QED BY <1>2, <1>4, <1>6, <1>8 DEF Seats

\* ...and takes more from the queue only below max_active.
LEMMA GroupAdmitSeats == ASSUME IInv, Seats, GroupAdmit PROVE Seats'
<1>1. /\ UNCHANGED <<active, prefilling, worker>> /\ worker = "group"
      /\ Cardinality(group) < MaxActive /\ group' = group \cup {Head(pending)}
  BY DEF GroupAdmit
<1>2. /\ IsFiniteSet(group') /\ Cardinality(group') <= Cardinality(group) + 1
      /\ Cardinality(group) \in Nat /\ Cardinality(group') \in Nat
  BY <1>1, OneMore DEF Seats
<1>3. Cardinality(active) = 0 /\ Len(prefilling) = 0 BY <1>1, FS_EmptySet DEF Seats
<1>4. RowsBounded' BY <1>1, <1>2, <1>3, BatchConfig DEF RowsBounded
<1>5. QED BY <1>1, <1>2, <1>4 DEF Seats

\* A prefilling row goes to the back, ends, or becomes a decoding row: none is added.
LEMMA PrefillSeats == ASSUME IInv, Seats, Prefill PROVE Seats'
<1> DEFINE c == Head(prefilling)
           rest == Tail(prefilling)
<1>1. /\ UNCHANGED group /\ worker = "prefill" /\ worker' # "group" /\ prefilling # <<>>
      /\ \/ prefilling' = rest /\ active' = active
         \/ prefilling' = Append(rest, c) /\ active' = active
         \/ prefilling' = rest /\ active' = active \cup {c}
  BY DEF Prefill, IInv, Hands, Between
<1>2. /\ c \in Batched /\ rest \in Seq(Batched) /\ Len(rest) = Len(prefilling) - 1
      /\ Len(prefilling) \in Nat
  BY <1>1, HeadTailIs DEF IInv, Hands, Lists
<1>3. group = {} BY <1>1 DEF Seats
<1> HIDE DEF c, rest
<1>4. CASE prefilling' = rest /\ active' = active
  BY <1>1, <1>2, <1>3, <1>4, FewerSeats
<1>5. CASE prefilling' = Append(rest, c) /\ active' = active
  <2>1. prefilling' \in Seq(Batched) /\ Len(prefilling') = Len(prefilling) BY <1>2, <1>5
  <2>2. QED BY <1>1, <1>2, <1>3, <1>5, <2>1, FewerSeats
<1>6. CASE prefilling' = rest /\ active' = active \cup {c}
  <2>1. /\ IsFiniteSet(active') /\ Cardinality(active') <= Cardinality(active) + 1
        /\ Cardinality(active) \in Nat /\ Cardinality(active') \in Nat
    BY <1>6, OneMore DEF Seats
  <2>2. Cardinality(group) = 0 /\ Cardinality(group') = 0 /\ IsFiniteSet(group')
    BY <1>1, <1>3, FS_EmptySet
  <2>3. RowsBounded' BY <1>2, <1>6, <2>1, <2>2, BatchConfig DEF RowsBounded, Seats
  <2>4. QED BY <1>1, <1>3, <2>1, <2>2, <2>3 DEF Seats
<1>7. QED BY <1>1, <1>4, <1>5, <1>6

\* A failed worker's row is erased from the containers it is in.
LEMMA FailRowSeats == ASSUME IInv, Seats, NEW c \in Batched, FailRow(c) PROVE Seats'
<1>1. /\ UNCHANGED <<group, worker>> /\ active' \subseteq active
      /\ prefilling' = RemoveFirst(prefilling, c)
  BY DEF FailRow
<1>2. prefilling' \in Seq(Batched) /\ Len(prefilling') <= Len(prefilling)
  BY <1>1, RemoveFirstIs DEF IInv, Hands, Lists
<1>3. QED BY <1>1, <1>2, FewerSeats DEF Seats

\* The other steps add no row.
LEMMA SeatsStep == IInv /\ Seats /\ [Next]_vars => Seats'
<1> SUFFICES ASSUME IInv, Seats, [Next]_vars PROVE Seats' OBVIOUS
<1>1. prefilling \in Seq(Batched) /\ Len(prefilling) \in Nat BY DEF IInv, Hands, Lists
<1>2. ASSUME UNCHANGED <<active, prefilling, group>>, worker' # "group" \/ worker' = worker,
             group # {} => worker' = worker
      PROVE  Seats'
  BY <1>1, <1>2, FewerSeats DEF Seats
<1>3. CASE UNCHANGED vars BY <1>2, <1>3 DEF vars, rows
<1>4. ASSUME NEW r \in Batched, Prepare(r) \/ Goes(r) \/ Cancel(r) PROVE Seats'
  <2>1. CASE Joined(r) \/ Start(r)
    <3>1. UNCHANGED rows BY <2>1 DEF Joined, Start
    <3>2. worker' = worker \/ (worker' = "begin" /\ worker \in {"none", "dead"})
      BY <2>1 DEF Joined, Start, Spawn
    <3>3. QED BY <1>2, <3>1, <3>2 DEF rows, Seats
  <2>2. CASE ~(Joined(r) \/ Start(r))
    BY <1>2, <1>4, <2>2 DEF Prepare, Goes, Cancel, Enqueue, Withdraw, Withdrawn, Leave, rows
  <2>3. QED BY <2>1, <2>2
<1>5. ASSUME NEW f \in Fallback, StopSignal(f) \/ SerialGoes(f) PROVE Seats'
  <2>1. UNCHANGED rows BY <1>5 DEF StopSignal, SerialGoes, StopJoin, FallbackRuns, FallbackEnds
  <2>2. worker' = worker \/ (worker' = "none" /\ worker \in {"none", "dead"})
    BY <1>5 DEF StopSignal, SerialGoes, StopJoin, FallbackRuns, FallbackEnds
  <2>3. QED BY <1>2, <2>1, <2>2 DEF rows, Seats
<1>6. CASE WorkerBegin \/ Take \/ Requeue \/ WorkerEnds \/ WorkerDies \/ WorkerFails
  <2>1. UNCHANGED <<active, prefilling, group>> /\ worker' # "group"
    BY <1>6 DEF WorkerBegin, Take, Requeue, WorkerEnds, WorkerDies, WorkerFails, rows
  <2>2. group = {} BY <1>6 DEF WorkerBegin, Take, Requeue, WorkerEnds, WorkerDies, WorkerFails, Seats
  <2>3. QED BY <1>2, <2>1, <2>2
<1>7. CASE Decode
  <2>1. /\ UNCHANGED <<prefilling, group>> /\ active' \subseteq active
        /\ worker = "decode" /\ worker' # "group"
    BY <1>7 DEF Decode
  <2>2. QED BY <1>1, <2>1, FewerSeats DEF Seats
<1>8. ASSUME NEW r \in Batched, GroupRow(r) PROVE Seats'
  <2>1. UNCHANGED <<active, prefilling, worker>> /\ group' \subseteq group /\ worker = "group"
    BY <1>8 DEF GroupRow
  <2>2. QED BY <1>1, <2>1, FewerSeats
<1>9. CASE Worker
  BY <1>6, <1>7, <1>8, <1>9, AdmitRowSeats, AdmitGroupSeats, GroupAdmitSeats, PrefillSeats,
     FailRowSeats DEF Worker
<1>10. QED BY <1>3, <1>4, <1>5, <1>6, <1>9 DEF Next

\* The rows on the device never exceed max_active (continuous_batch_worker_loop's admission
\* together with the group's own): the invariant RowsBounded.
THEOREM RowsBoundedAlways == Spec => []RowsBounded
<1>1. Init => Seats
  <2> SUFFICES ASSUME Init PROVE Seats OBVIOUS
  <2>1. active = {} /\ group = {} /\ prefilling = <<>> BY DEF Init
  <2>2. QED BY <2>1, FS_EmptySet, BatchConfig DEF Seats, RowsBounded
<1>2. Spec => []Seats BY <1>1, SeatsStep, BatchInvariant, PTL DEF Spec
<1>3. Seats => RowsBounded BY DEF Seats
<1>4. QED BY <1>2, <1>3, PTL

----------------------------------------------------------------------------
(* Refinement of AdmissionControl. *)

Answered == {r \in Batched : done[r]}
AbstractStep == [Admission!Next]_<<Outstanding, Answered>>

\* A set of requests fits if the sum of their reservations does.
LEMMA FitsIs ==
  ASSUME NEW S, Cost(S) <= MaxTotal, \A r, q \in S : r # q /\ Key[r] = Key[q] => Key[r] = NoKey
  PROVE  Admission!Fits(S)
BY DEF Admission!Fits, Admission!MapThenSumSet, Admission!MapThenFoldSet, Cost, MapThenSumSet,
   MapThenFoldSet

\* A step that admits and answers nobody.
LEMMA StutterIs ==
  ASSUME done' = done, Outstanding' = Outstanding PROVE AbstractStep
BY DEF AbstractStep, Answered

\* A step of a holder that completes requests it holds.
LEMMA CompletionEnds ==
  ASSUME IInv, pc' = pc, NEW S \in SUBSET Outstanding, Complete(S) PROVE AbstractStep
<1>1. Outstanding' = Outstanding \ S BY CompletionKeeps
<1>2. S \subseteq Batched BY DEF Outstanding
<1>3. Answered' = Answered \cup S BY <1>2 DEF Complete, Answered, IInv, Promises
<1>4. CASE S = {} BY <1>1, <1>3, <1>4 DEF AbstractStep
<1>5. CASE S # {}
  <2>1. Admission!End(S) BY <1>1, <1>3 DEF Admission!End, Answered
  <2>2. QED BY <1>5, <2>1 DEF AbstractStep, Admission!Next
<1>6. QED BY <1>4, <1>5

\* The request threads: admission, and the answer to a withdrawn request.
LEMMA ClientRefines ==
  ASSUME IInv, IInv', NEW c \in Batched, Prepare(c) \/ Goes(c) \/ Cancel(c) PROVE AbstractStep
<1> USE DEF IInv, Promises, Outstanding, Early
<1>1. CASE Prepare(c) \/ Cancel(c) \/ Start(c) \/ Joined(c) \/ Leave(c) \/ Withdraw(c)
  <2>1. done' = done BY <1>1 DEF Prepare, Cancel, Start, Joined, Leave, Withdraw, queue
  <2>2. Outstanding' = Outstanding
    <3> SUFFICES ASSUME NEW r \in Batched PROVE (r \in Outstanding') = (r \in Outstanding)
      OBVIOUS
    <3>1. CASE Prepare(c) BY <2>1, <3>1 DEF Prepare, Goto
    <3>2. CASE Cancel(c) BY <2>1, <3>2 DEF Cancel, thread
    <3>3. CASE Start(c) BY <2>1, <3>3 DEF Start, Spawn, Goto
    <3>4. CASE Joined(c) BY <2>1, <3>4 DEF Joined, Spawn, Goto
    <3>5. CASE Leave(c) BY <2>1, <3>5 DEF Leave, Goto
    <3>6. CASE Withdraw(c) BY <2>1, <3>6 DEF Withdraw, Goto
    <3>7. QED BY <1>1, <3>1, <3>2, <3>3, <3>4, <3>5, <3>6
  <2>3. QED BY <2>1, <2>2, StutterIs
<1>2. CASE Enqueue(c)
  <2>1. done' = done /\ pc[c] = "enqueue" /\ ~done[c] BY <1>2 DEF Enqueue
  <2>2. CASE Admissible(c)
    <3>1. Goto(c, "waiting") /\ reserved' = reserved + Reserve[c] BY <1>2, <2>2 DEF Enqueue
    <3>2. Outstanding' = Outstanding \cup {c} BY <2>1, <3>1 DEF Goto
    <3>3. Admission!Fits(Outstanding \cup {c})
      <4>1. reserved' <= MaxTotal BY <2>2, <3>1 DEF Admissible
      <4>2. Cost(Outstanding') = reserved' BY DEF Accounts, BudgetExact
      <4>3. \A r, q \in Outstanding' : r # q /\ Key[r] = Key[q] => Key[r] = NoKey
        BY DEF Accounts, SessionExclusive
      <4>4. QED BY <3>2, <4>1, <4>2, <4>3, FitsIs
    <3>4. c \notin Outstanding \cup Answered BY <2>1 DEF Answered
    <3>5. Admission!Admit(c) BY <2>1, <3>2, <3>3, <3>4 DEF Admission!Admit, Answered
    <3>6. QED BY <3>5 DEF AbstractStep, Admission!Next
  <2>3. CASE ~Admissible(c)
    <3>1. Goto(c, "leave") BY <1>2, <2>3 DEF Enqueue
    <3>2. Outstanding' = Outstanding BY <2>1, <3>1 DEF Goto
    <3>3. QED BY <2>1, <3>2, StutterIs
  <2>4. QED BY <2>2, <2>3
<1>3. CASE Withdrawn(c)
  <2>1. Complete({c}) /\ Goto(c, "waiting") /\ pc[c] = "withdrawn" BY <1>3 DEF Withdrawn
  <2>2. ~done[c] /\ c \in Outstanding BY <2>1 DEF Hands, InOneHand, Withdrawing
  <2>3. done' = [r \in Batched |-> done[r] \/ r \in {c}] BY <2>1 DEF Complete
  <2>4. Outstanding' = Outstanding \ {c} /\ Answered' = Answered \cup {c}
    BY <2>1, <2>2, <2>3 DEF Goto, Answered
  <2>5. Admission!End({c}) BY <2>4 DEF Admission!End, Answered
  <2>6. QED BY <2>2, <2>5 DEF AbstractStep, Admission!Next
<1>4. QED BY <1>1, <1>2, <1>3 DEF Goes

\* The worker and the unsupported requests: they admit nobody.
LEMMA WorkerRefines ==
  ASSUME IInv, Worker \/ WorkerFails PROVE AbstractStep
<1>1. CASE WorkerBegin \/ Take \/ AdmitGroup \/ GroupAdmit \/ Requeue \/ WorkerEnds \/ WorkerDies
           \/ WorkerFails
  <2>1. done' = done /\ pc' = pc
    BY <1>1 DEF WorkerBegin, Take, AdmitGroup, GroupAdmit, Requeue, WorkerEnds, WorkerDies,
       WorkerFails, queue, OfClients
  <2>2. Outstanding' = Outstanding BY <2>1 DEF Outstanding
  <2>3. QED BY <2>1, <2>2, StutterIs
<1>2. CASE AdmitRow
  <2>1. /\ pc' = pc /\ arrivals # <<>>
        /\ UNCHANGED queue \/ Complete({Head(arrivals)})
    BY <1>2 DEF AdmitRow, OfClients
  <2>2. Head(arrivals) \in Outstanding
    BY <2>1, HeadTailIs DEF IInv, Hands, Lists, InOneHand
  <2>3. CASE UNCHANGED queue BY <2>1, <2>3, StutterIs DEF queue, Outstanding
  <2>4. CASE Complete({Head(arrivals)})
    <3>1. {Head(arrivals)} \in SUBSET Outstanding BY <2>2
    <3>2. QED BY <2>1, <2>4, <3>1, CompletionEnds
  <2>5. QED BY <2>1, <2>3, <2>4
<1>3. CASE Decode
  <2>1. PICK fin \in SUBSET active : Complete(fin) BY <1>3 DEF Decode
  <2>2. fin \in SUBSET Outstanding /\ pc' = pc
    BY <1>3, <2>1 DEF Decode, OfClients, IInv, Hands, Lists, InOneHand
  <2>3. QED BY <2>1, <2>2, CompletionEnds
<1>4. CASE Prefill
  <2>1. /\ pc' = pc /\ prefilling # <<>>
        /\ UNCHANGED queue \/ Complete({Head(prefilling)})
    BY <1>4 DEF Prefill, OfClients, IInv, Hands, Between
  <2>2. Head(prefilling) \in Outstanding
    BY <2>1, HeadTailIs DEF IInv, Hands, Lists, InOneHand
  <2>3. CASE UNCHANGED queue BY <2>1, <2>3, StutterIs DEF queue, Outstanding
  <2>4. CASE Complete({Head(prefilling)})
    <3>1. {Head(prefilling)} \in SUBSET Outstanding BY <2>2
    <3>2. QED BY <2>1, <2>4, <3>1, CompletionEnds
  <2>5. QED BY <2>1, <2>3, <2>4
<1>5. ASSUME NEW c \in Batched, GroupRow(c) \/ FailRow(c) PROVE AbstractStep
  <2>1. pc' = pc /\ Complete({c}) BY <1>5 DEF GroupRow, FailRow, OfClients
  <2>2. {c} \in SUBSET Outstanding
    BY <1>5 DEF GroupRow, FailRow, Mourned, IInv, Hands, InOneHand
  <2>3. QED BY <2>1, <2>2, CompletionEnds
<1>6. QED BY <1>1, <1>2, <1>3, <1>4, <1>5 DEF Worker

LEMMA FallbackRefines ==
  ASSUME IInv, NEW f \in Fallback, StopSignal(f) \/ SerialGoes(f) PROVE AbstractStep
<1>1. done' = done
  BY DEF StopSignal, SerialGoes, StopJoin, FallbackRuns, FallbackEnds, queue
<1>2. \A r \in Batched : pc'[r] = pc[r]
  BY BatchConfig DEF IInv, Promises, StopSignal, SerialGoes, StopJoin, FallbackRuns, FallbackEnds, Goto
<1>3. Outstanding' = Outstanding BY <1>1, <1>2 DEF Outstanding
<1>4. QED BY <1>1, <1>3, StutterIs

\* Request threads, queue and worker together implement AdmissionControl.
THEOREM BatchImplementsAdmission == Spec => ImplementsAdmission
<1>1. Init => Admission!Init
  BY BatchConfig DEF Init, Admission!Init, Outstanding
<1>2. IInv /\ IInv' /\ [Next]_vars => AbstractStep
  <2> SUFFICES ASSUME IInv, IInv', [Next]_vars PROVE AbstractStep OBVIOUS
  <2>1. CASE UNCHANGED vars
    BY <2>1, StutterIs DEF vars, queue, Outstanding
  <2>2. CASE Next BY <2>2, ClientRefines, WorkerRefines, FallbackRefines DEF Next
  <2>3. QED BY <2>1, <2>2
<1>3. IInv /\ [Next]_vars => IInv' BY BatchStep
<1>4. QED BY <1>1, <1>2, <1>3, BatchInvariant, PTL
      DEF Spec, ImplementsAdmission, Admission!Spec, AbstractStep, Answered
=============================================================================
