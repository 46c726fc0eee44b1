-------------------------- MODULE PrefixCacheProofs --------------------------
(***************************************************************************)
(* The prefix cache, for any requests, prompts, pages, buffers and         *)
(* budgets: what a request attends to is its own prompt, no page is lost   *)
(* or owned twice, a snapshot is the state of its prefix wherever it is,   *)
(* leases are exact, and the pool reports exhaustion only when every page  *)
(* is in use.                                                              *)
(*                                                                         *)
(* The parts of the inductive invariant are the accounts of the pool       *)
(* (Stack, Pins, Owners), the references (Leases), the contents of pages   *)
(* (Holdings) and of buffers (Snapshots).  One operation is a sequence of  *)
(* evictions, drops, copies and updates; each keeps the whole invariant,   *)
(* and so do the loops made of them.                                       *)
(***************************************************************************)
EXTENDS PrefixCache, SequenceTheorems, FiniteSetTheorems, TLAPS

\* What a page or a snapshot can hold: a prefix of some prompt, or nothing yet.
Texts == {<<>>} \cup UNION {{Prefix(r, n) : n \in 0 .. Len(Prompt[r])} : r \in Requests}

Pool == [free : Seq(Pages), allocated : SUBSET Pages, pins : [Pages -> Nat]]
Entry == [id : Requests, prefix : Texts, pages : Seq(Pages), refs : Nat,
          gpu : Buffers \cup {None}, host : Texts \cup {None}, copying : BOOLEAN]
Request == [status : {"new", "active", "done", "exhausted"}, table : Seq(Pages), borrowed : Nat,
            lease : SUBSET Requests, snapshot : Buffers \cup {None}, hit : Nat,
            restored : Texts \cup {None}]

\* The parts of the invariant speak of a pool P, a set E of entries, the requests R, the
\* contents h of the pages and st of the buffers and a recycled buffer rc, so that they
\* can be followed through the steps of one operation.
Live(R) == {r \in Requests : R[r].status = "active"}
Owns(q, p) == \E k \in q.borrowed + 1 .. Len(q.table) : q.table[k] = p
Lists(e, p) == p \in ToSet(e.pages)
Listing(E, p) == {e.id : e \in {f \in E : Lists(f, p)}}
Holders(R, x) == {r \in Live(R) : x \in R[r].lease}

Types(P, E, R, h, st, rc) ==
  /\ P \in Pool /\ E \in SUBSET Entry /\ R \in [Requests -> Request]
  /\ h \in [Pages -> Texts] /\ st \in [Buffers -> Texts] /\ rc \in Buffers \cup {None}

\* A page is on the free stack once or allocated; an allocated page is listed by entries,
\* as many as its pins, or owned by one request.
Stack(P) == IsInjective(P.free) /\ ToSet(P.free) = Pages \ P.allocated
Pins(P, E) == \A p \in Pages : P.pins[p] = Cardinality(Listing(E, p))
Owners(P, E, R) ==
  /\ \A e \in E : \A p \in Pages : Lists(e, p) => p \in P.allocated
  /\ \A r \in Live(R) : \A p \in Pages :
       Owns(R[r], p) => /\ p \in P.allocated /\ \A e \in E : ~Lists(e, p)
                        /\ \A q \in Live(R) : Owns(R[q], p) => q = r
  /\ \A p \in P.allocated : (\E e \in E : Lists(e, p)) \/ (\E r \in Live(R) : Owns(R[r], p))

\* An entry has the references of the requests that hold it.  Its name is that of a
\* request that came past its commit, what a request borrowed is in an entry it holds, and
\* one that did not start or has ended has no pages.
Counted(E, R) == \A e \in E : e.refs = Cardinality(Holders(R, e.id))
Unique(E) == \A e, f \in E : e.id = f.id => e = f
Named(E, R) ==
  \A e \in E : /\ R[e.id].status # "new"
               /\ e.id \in Live(R) => Len(R[e.id].table) >= CommitLength(e.id)
Covered(E, R) ==
  \A r \in Live(R) :
    /\ \A x \in R[r].lease : \E e \in E : e.id = x
    /\ \A k \in 1 .. R[r].borrowed :
         \E e \in E : e.id \in R[r].lease /\ Lists(e, R[r].table[k])
    /\ Len(R[r].table) < CommitLength(r) =>
         \A e \in E : e.id \in R[r].lease => Len(e.pages) <= Len(R[r].table)
Fresh(R) ==
  /\ \A r \in Requests : R[r].status = "new" => R[r] = New
  /\ \A r \in Requests \ Live(R) : R[r].table = <<>> /\ R[r].borrowed = 0
Held(E, R) == Fresh(R) /\ Unique(E) /\ Named(E, R) /\ Covered(E, R)

\* Pages hold the prefix they stand for.
Holdings(E, R, h) ==
  /\ \A e \in E : /\ Len(e.pages) >= 1 /\ Len(e.prefix) = Len(e.pages)
                  /\ \A k \in 1 .. Len(e.pages) : h[e.pages[k]] = SubSeq(e.prefix, 1, k)
  /\ \A r \in Live(R) :
       /\ R[r].borrowed <= Len(R[r].table) /\ Len(R[r].table) <= Len(Prompt[r])
       /\ \A k \in 1 .. Len(R[r].table) : h[R[r].table[k]] = Prefix(r, k)
       /\ R[r].hit < Len(Prompt[r]) /\ R[r].restored = Prefix(r, R[r].hit)

\* A device buffer has one entry, and a recycled one has none and no borrower.
Snapshots(E, R, st, rc) ==
  /\ \A e, f \in E : e.gpu # None /\ e.gpu = f.gpu => e = f
  /\ \A e \in E : /\ e.copying => e.gpu # None
                  /\ e.host = None \/ e.host = e.prefix
                  /\ e.prefix = IF e.gpu # None THEN st[e.gpu] ELSE e.host
  /\ rc # None => (\A e \in E : e.gpu # rc) /\ ~Borrowed(rc, R)
  /\ \A r \in Requests : R[r].snapshot # None =>
       /\ r \in Live(R)
       /\ \E n \in 1 .. Len(Prompt[r]) : st[R[r].snapshot] = Prefix(r, n)

Good(P, E, R, h, st, rc) ==
  /\ Types(P, E, R, h, st, rc) /\ Stack(P) /\ Pins(P, E) /\ Owners(P, E, R)
  /\ Counted(E, R) /\ Held(E, R) /\ Holdings(E, R, h) /\ Snapshots(E, R, st, rc)

\* The entries are kept in a list, each once.
Listed(s) ==
  /\ s \in Seq(Entry)
  /\ \A i, j \in 1 .. Len(s) : s[i].id = s[j].id => i = j
IInv == Listed(cache) /\ Good(pool, ToSet(cache), req, holds, state, recycled)

-----------------------------------------------------------------------------
(* Numbers and loops.  The library's induction theorems take an operator,  *)
(* which the provers cannot instantiate, so induction is done on a set.    *)

\* A nonempty set of naturals has a least element, its Min.
LEMMA MinIs ==
  ASSUME NEW S \in SUBSET Nat, S # {} PROVE Min(S) \in S /\ \A n \in S : Min(S) <= n
<1> DEFINE R == OpToRel(<, Nat)
<1>1. \A m, n \in Nat : n < m => <<n, m>> \in R BY DEF OpToRel
<1>2. IsWellFoundedOn(R, Nat) BY NatLessThanWellFounded, Zenon
<1> HIDE DEF R
<1>3. PICK m \in S : \A n \in S : <<n, m>> \notin R BY <1>2, WFMin
<1>4. \A n \in S : ~(n < m) BY <1>1, <1>3
<1>5. \A n \in S : m <= n BY <1>4
<1>6. QED BY <1>5 DEF Min

\* Induction on the naturals, on a set of them.
LEMMA NaturalInduction ==
  ASSUME NEW N, 0 \in N, \A n \in Nat : n \in N => n + 1 \in N PROVE Nat \subseteq N
<1> DEFINE M == {n \in Nat : n \notin N}
<1>1. SUFFICES ASSUME M # {} PROVE FALSE OBVIOUS
<1>2. PICK m \in M : \A n \in M : m <= n
  <2>1. M \in SUBSET Nat OBVIOUS
  <2> HIDE DEF M
  <2>2. QED BY <1>1, <2>1, MinIs
<1>3. m # 0 /\ m - 1 \in Nat /\ m - 1 \notin M BY <1>2
<1>4. QED BY <1>2, <1>3

\* A loop of n steps F[k], each of which stays in D, has a run from any start.
Loops(F, n, D) == F \in [1 .. n -> [D -> D]]
HasRun(F, n, D, c) == \E g \in [0 .. n -> D] : g[0] = c /\ \A k \in 1 .. n : g[k] = F[k][g[k - 1]]
LEMMA LoopRuns ==
  ASSUME NEW D, NEW c \in D, NEW n \in Nat, NEW F, Loops(F, n, D) PROVE HasRun(F, n, D, c)
<1> USE DEF Loops
<1> DEFINE Runs(m) == \E g \in [0 .. m -> D] : g[0] = c /\ \A k \in 1 .. m : g[k] = F[k][g[k - 1]]
           N == {m \in Nat : m <= n => Runs(m)}
<1>1. 0 \in N
  <2> DEFINE g == [k \in 0 .. 0 |-> c]
  <2>1. g \in [0 .. 0 -> D] /\ g[0] = c /\ \A k \in 1 .. 0 : g[k] = F[k][g[k - 1]] OBVIOUS
  <2> HIDE DEF g
  <2>2. Runs(0) BY <2>1
  <2>3. QED BY <2>2
<1>2. ASSUME NEW m \in Nat, m \in N PROVE m + 1 \in N
  <2> SUFFICES ASSUME m + 1 <= n PROVE Runs(m + 1) OBVIOUS
  <2>1. PICK g \in [0 .. m -> D] : g[0] = c /\ \A k \in 1 .. m : g[k] = F[k][g[k - 1]]
    BY <1>2
  <2> DEFINE f == [k \in 0 .. m + 1 |-> IF k <= m THEN g[k] ELSE F[m + 1][g[m]]]
  <2>2. m + 1 \in 1 .. n /\ g[m] \in D BY <2>1
  <2>3. F[m + 1][g[m]] \in D BY <2>2
  <2>4. f \in [0 .. m + 1 -> D] BY <2>1, <2>3
  <2>5. f[0] = c BY <2>1
  <2>6. ASSUME NEW k \in 1 .. m + 1 PROVE f[k] = F[k][f[k - 1]]
    <3>1. CASE k <= m
      <4>1. k \in 1 .. m /\ k - 1 \in 0 .. m + 1 /\ k - 1 <= m BY <3>1
      <4>2. f[k] = g[k] /\ f[k - 1] = g[k - 1] BY <4>1
      <4>3. QED BY <2>1, <4>1, <4>2
    <3>2. CASE k = m + 1
      <4>1. f[m + 1] = F[m + 1][g[m]] /\ f[m] = g[m] OBVIOUS
      <4>2. k - 1 = m BY <3>2
      <4>3. QED BY <3>2, <4>1, <4>2
    <3>3. QED BY <3>1, <3>2
  <2> HIDE DEF f
  <2>7. QED BY <2>4, <2>5, <2>6
<1>3. Runs(n)
  <2> HIDE DEF N
  <2>1. Nat \subseteq N BY <1>1, <1>2, NaturalInduction
  <2>2. QED BY <2>1 DEF N
<1>4. QED BY <1>3 DEF HasRun

-----------------------------------------------------------------------------
(* The lists of the cache.                                                 *)

\* A list has the elements of its set, and each at a place.
LEMMA ToSetIs ==
  ASSUME NEW S, NEW q \in Seq(S)
  PROVE  /\ ToSet(q) \in SUBSET S /\ DOMAIN q = 1 .. Len(q) /\ Len(q) \in Nat
         /\ \A i \in 1 .. Len(q) : q[i] \in ToSet(q) /\ q[i] \in S
         /\ \A x \in ToSet(q) : \E i \in 1 .. Len(q) : q[i] = x
  BY DEF ToSet

\* A part of a list.
LEMMA SubSeqIs ==
  ASSUME NEW S, NEW q \in Seq(S), NEW a \in 1 .. Len(q) + 1, NEW b \in 0 .. Len(q), a <= b + 1
  PROVE  /\ SubSeq(q, a, b) \in Seq(S) /\ Len(SubSeq(q, a, b)) = b - a + 1
         /\ \A i \in 1 .. b - a + 1 : SubSeq(q, a, b)[i] = q[i + a - 1]
<1>1. Len(q) \in Nat /\ \A i \in a .. b : q[i] \in S OBVIOUS
<1>2. a \in Int /\ b \in Int BY <1>1
<1>3. /\ SubSeq(q, a, b) \in Seq(S) /\ Len(SubSeq(q, a, b)) = IF a <= b THEN b - a + 1 ELSE 0
      /\ \A i \in 1 .. b - a + 1 : SubSeq(q, a, b)[i] = q[a + i - 1]
  BY <1>1, <1>2, SubSeqProperties
<1>4. (IF a <= b THEN b - a + 1 ELSE 0) = b - a + 1 BY <1>2
<1>5. \A i \in Int : a + i - 1 = i + a - 1 BY <1>2
<1>6. QED BY <1>2, <1>3, <1>4, <1>5

\* Appending a page or an entry.
LEMMA AppendIs ==
  ASSUME NEW S, NEW q \in Seq(S), NEW x \in S
  PROVE  /\ Append(q, x) \in Seq(S) /\ Len(Append(q, x)) = Len(q) + 1
         /\ Append(q, x)[Len(q) + 1] = x
         /\ \A i \in 1 .. Len(q) : Append(q, x)[i] = q[i]
         /\ ToSet(Append(q, x)) = ToSet(q) \cup {x}
<1> DEFINE a == Append(q, x)
<1>1. /\ a \in Seq(S) /\ Len(a) = Len(q) + 1 /\ a[Len(q) + 1] = x
      /\ \A i \in 1 .. Len(q) : a[i] = q[i]
  BY AppendProperties
<1> HIDE DEF a
<1>2. DOMAIN q = 1 .. Len(q) /\ DOMAIN a = 1 .. Len(q) + 1 /\ Len(q) \in Nat BY <1>1
<1>3. ASSUME NEW i \in 1 .. Len(q) + 1 PROVE a[i] \in ToSet(q) \cup {x}
  BY <1>1, <1>2 DEF ToSet
<1>4. ASSUME NEW i \in 1 .. Len(q) PROVE q[i] \in ToSet(a)
  BY <1>1, <1>2 DEF ToSet
<1>5. x \in ToSet(a) BY <1>1, <1>2 DEF ToSet
<1>6. ToSet(a) = ToSet(q) \cup {x} BY <1>2, <1>3, <1>4, <1>5 DEF ToSet
<1>7. QED BY <1>1, <1>6 DEF a

\* The top of a stack without repetition is taken off.
LEMMA FrontLast ==
  ASSUME NEW S, NEW q \in Seq(S), IsInjective(q), q # <<>>
  PROVE  /\ Last(q) \in S /\ Last(q) \in ToSet(q)
         /\ Front(q) \in Seq(S) /\ IsInjective(Front(q))
         /\ ToSet(Front(q)) = ToSet(q) \ {Last(q)}
<1> DEFINE n == Len(q)
           g == SubSeq(q, 1, n - 1)
<1>1. n \in Nat \ {0} /\ DOMAIN q = 1 .. n OBVIOUS
<1>2. /\ g \in Seq(S) /\ Len(g) = n - 1 /\ DOMAIN g = 1 .. n - 1
      /\ \A i \in 1 .. n - 1 : g[i] = q[i]
  BY <1>1
<1>3. Front(q) = g /\ Last(q) = q[n] BY DEF Front, Last
<1>4. q[n] \in S /\ q[n] \in ToSet(q) BY <1>1 DEF ToSet
<1> HIDE DEF g, n
<1>5. IsInjective(g) BY <1>1, <1>2 DEF IsInjective
<1>6. ToSet(g) = ToSet(q) \ {q[n]}
  <2>1. ASSUME NEW i \in 1 .. n - 1 PROVE g[i] \in ToSet(q) /\ g[i] # q[n]
    BY <1>1, <1>2 DEF ToSet, IsInjective
  <2>2. ASSUME NEW i \in 1 .. n, q[i] # q[n] PROVE q[i] \in ToSet(g)
    BY <1>1, <1>2, <2>2 DEF ToSet
  <2>3. QED BY <1>1, <1>2, <2>1, <2>2, ZenonT(60) DEF ToSet
<1>7. QED BY <1>2, <1>3, <1>4, <1>5, <1>6

\* A page is put back on a stack that does not hold it.
LEMMA PushNew ==
  ASSUME NEW S, NEW q \in Seq(S), IsInjective(q), NEW x \in S, x \notin ToSet(q)
  PROVE  IsInjective(Append(q, x))
<1> DEFINE a == Append(q, x)
<1>1. /\ a \in Seq(S) /\ Len(a) = Len(q) + 1 /\ a[Len(q) + 1] = x
      /\ \A i \in 1 .. Len(q) : a[i] = q[i]
  BY AppendIs
<1> HIDE DEF a
<1>2. DOMAIN q = 1 .. Len(q) /\ DOMAIN a = 1 .. Len(q) + 1 /\ Len(q) \in Nat BY <1>1
<1>3. \A i \in 1 .. Len(q) : q[i] # x BY <1>2 DEF ToSet
<1>4. QED BY <1>1, <1>2, <1>3 DEF IsInjective, a

\* An entry is taken out of its place.
LEMMA RemoveAtIs ==
  ASSUME NEW s, Listed(s), NEW k \in 1 .. Len(s)
  PROVE  /\ Listed(RemoveAt(s, k)) /\ ToSet(RemoveAt(s, k)) = ToSet(s) \ {s[k]}
         /\ Len(RemoveAt(s, k)) = Len(s) - 1
<1> DEFINE n == Len(s)
           front == SubSeq(s, 1, k - 1)
           back == SubSeq(s, k + 1, n)
           u == front \o back
<1>1. s \in Seq(Entry) /\ n \in Nat /\ DOMAIN s = 1 .. n /\ k \in 1 .. n
      /\ \A i, j \in 1 .. n : s[i].id = s[j].id => i = j
  BY DEF Listed
<1>2. front \in Seq(Entry) /\ Len(front) = k - 1 /\ \A i \in 1 .. k - 1 : front[i] = s[i]
  <2>1. /\ front \in Seq(Entry) /\ Len(front) = (k - 1) - 1 + 1
        /\ \A i \in 1 .. (k - 1) - 1 + 1 : front[i] = s[i + 1 - 1]
    BY <1>1, SubSeqIs
  <2>2. (k - 1) - 1 + 1 = k - 1 /\ \A i \in Int : i + 1 - 1 = i BY <1>1
  <2>3. QED BY <2>1, <2>2
<1>3. back \in Seq(Entry) /\ Len(back) = n - k /\ \A i \in 1 .. n - k : back[i] = s[i + k]
  <2> DEFINE a == k + 1
  <2>1. a \in 1 .. Len(s) + 1 /\ Len(s) \in 0 .. Len(s) /\ a <= Len(s) + 1 BY <1>1
  <2> HIDE DEF a
  <2>2. /\ SubSeq(s, a, Len(s)) \in Seq(Entry) /\ Len(SubSeq(s, a, Len(s))) = Len(s) - a + 1
        /\ \A i \in 1 .. Len(s) - a + 1 : SubSeq(s, a, Len(s))[i] = s[i + a - 1]
    BY <1>1, <2>1, SubSeqIs
  <2>3. /\ back \in Seq(Entry) /\ Len(back) = n - (k + 1) + 1
        /\ \A i \in 1 .. n - (k + 1) + 1 : back[i] = s[i + (k + 1) - 1]
    BY <2>2 DEF a
  <2> HIDE DEF back
  <2>4. n - (k + 1) + 1 = n - k /\ \A i \in Int : i + (k + 1) - 1 = i + k BY <1>1
  <2>5. QED BY <2>3, <2>4
<1> HIDE DEF front, back, n
<1>4. /\ u \in Seq(Entry) /\ Len(u) = n - 1
      /\ \A i \in 1 .. n - 1 : u[i] = IF i < k THEN s[i] ELSE s[i + 1]
  <2>1. /\ u \in Seq(Entry) /\ Len(u) = Len(front) + Len(back)
        /\ \A i \in 1 .. Len(front) + Len(back) :
             u[i] = IF i <= Len(front) THEN front[i] ELSE back[i - Len(front)]
    BY <1>2, <1>3, ConcatProperties
  <2> HIDE DEF u
  <2>2. ASSUME NEW i \in 1 .. n - 1, i < k PROVE u[i] = s[i]
    BY <2>1, <2>2, <1>1, <1>2, <1>3
  <2>3. ASSUME NEW i \in 1 .. n - 1, i >= k PROVE u[i] = s[i + 1]
    <3>1. u[i] = back[i - (k - 1)] /\ i - (k - 1) \in 1 .. n - k
      BY <2>1, <2>3, <1>1, <1>2, <1>3
    <3>2. back[i - (k - 1)] = s[(i - (k - 1)) + k] BY <3>1, <1>3
    <3>3. (i - (k - 1)) + k = i + 1 BY <1>1
    <3>4. QED BY <3>1, <3>2, <3>3
  <2>4. Len(u) = n - 1 BY <2>1, <1>1, <1>2, <1>3
  <2>5. QED BY <2>1, <2>2, <2>3, <2>4, <1>1
<1>5. RemoveAt(s, k) = u BY DEF RemoveAt, front, back, n
<1> HIDE DEF u
<1>6. DOMAIN u = 1 .. n - 1 BY <1>4
<1> DEFINE at(i) == IF i < k THEN i ELSE i + 1
<1>7. \A i \in 1 .. n - 1 : at(i) \in 1 .. n /\ at(i) # k /\ u[i] = s[at(i)]
  BY <1>1, <1>4
<1>8. \A i, j \in 1 .. n - 1 : at(i) = at(j) => i = j BY <1>1
<1> HIDE DEF at
<1>9. \A i, j \in 1 .. n - 1 : u[i].id = u[j].id => i = j BY <1>1, <1>7, <1>8
<1>10. Listed(u) BY <1>4, <1>9 DEF Listed
<1>11. ToSet(u) = ToSet(s) \ {s[k]}
  <2>1. ASSUME NEW i \in 1 .. n - 1 PROVE u[i] \in ToSet(s) /\ u[i] # s[k]
    <3>1. u[i] # s[k] BY <1>1, <1>7
    <3>2. QED BY <1>1, <1>7, <3>1 DEF ToSet
  <2>2. ASSUME NEW i \in 1 .. n, i # k PROVE s[i] \in ToSet(u)
    <3>1. CASE i < k
      <4>1. i \in 1 .. n - 1 /\ u[i] = s[i] BY <3>1, <1>1, <1>4
      <4>2. QED BY <4>1, <1>6 DEF ToSet
    <3>2. CASE i > k
      <4>1. i - 1 \in 1 .. n - 1 /\ u[i - 1] = s[i] BY <3>2, <1>1, <1>4
      <4>2. QED BY <4>1, <1>6 DEF ToSet
    <3>3. QED BY <3>1, <3>2, <2>2, <1>1
  <2>3. ToSet(u) \subseteq ToSet(s) \ {s[k]} BY <2>1, <1>6 DEF ToSet
  <2>4. ToSet(s) \ {s[k]} \subseteq ToSet(u) BY <2>2, <1>1 DEF ToSet
  <2>5. QED BY <2>3, <2>4
<1>12. QED BY <1>4, <1>5, <1>10, <1>11 DEF n

\* An entry with a new name is put at the end.
LEMMA ListNew ==
  ASSUME NEW s, Listed(s), NEW e \in Entry, \A f \in ToSet(s) : f.id # e.id
  PROVE  Listed(Append(s, e)) /\ ToSet(Append(s, e)) = ToSet(s) \cup {e}
<1> DEFINE a == Append(s, e)
<1>1. s \in Seq(Entry) BY DEF Listed
<1>2. /\ a \in Seq(Entry) /\ Len(a) = Len(s) + 1 /\ a[Len(s) + 1] = e
      /\ \A i \in 1 .. Len(s) : a[i] = s[i]
      /\ ToSet(a) = ToSet(s) \cup {e}
  BY <1>1, AppendIs
<1> HIDE DEF a
<1>3. Len(s) \in Nat /\ \A i \in 1 .. Len(s) : s[i].id # e.id BY <1>1, ToSetIs
<1>4. ASSUME NEW i \in 1 .. Len(s) + 1, NEW j \in 1 .. Len(s) + 1, a[i].id = a[j].id PROVE i = j
  <2>1. CASE i \in 1 .. Len(s) /\ j \in 1 .. Len(s) BY <1>2, <1>4, <2>1 DEF Listed
  <2>2. CASE i = Len(s) + 1 /\ j \in 1 .. Len(s) BY <1>2, <1>3, <1>4, <2>2
  <2>3. CASE i \in 1 .. Len(s) /\ j = Len(s) + 1 BY <1>2, <1>3, <1>4, <2>3
  <2>4. QED BY <1>3, <2>1, <2>2, <2>3
<1>5. QED BY <1>2, <1>4 DEF Listed, a

\* Entries at different places have different names.
LEMMA NamesDiffer ==
  ASSUME NEW s, Listed(s), NEW e \in ToSet(s), NEW f \in ToSet(s), e.id = f.id PROVE e = f
<1>1. PICK i \in 1 .. Len(s), j \in 1 .. Len(s) : s[i] = e /\ s[j] = f BY ToSetIs DEF Listed
<1>2. QED BY <1>1 DEF Listed

\* The places of some entries are as many as their names.
NamesAt(s, I) == {s[i].id : i \in I}
LEMMA PlacesAreNames ==
  ASSUME NEW s, Listed(s), NEW I \in SUBSET (1 .. Len(s))
  PROVE  IsFiniteSet(I) /\ Cardinality(I) = Cardinality(NamesAt(s, I))
<1> DEFINE X == NamesAt(s, I)
           f == [i \in I |-> s[i].id]
<1>1. Len(s) \in Nat BY DEF Listed
<1>2. IsFiniteSet(1 .. Len(s)) BY <1>1, FS_Interval
<1>3. IsFiniteSet(I) BY <1>2, FS_Subset
<1>4. f \in Surjection(I, X) BY DEF Surjection, NamesAt
<1>5. \A i, j \in I : f[i] = f[j] => i = j BY DEF Listed
<1>6. f \in Injection(I, X) BY <1>4, <1>5 DEF Injection, Surjection, IsInjective
<1> HIDE DEF f, X
<1>7. Cardinality(X) = Cardinality(I) BY <1>3, <1>4, <1>6, FS_Surjection
<1>8. QED BY <1>3, <1>7 DEF X

-----------------------------------------------------------------------------
(* The page pool.                                                          *)

\* The release loop and its run.
ReturnRun(P, n, q, g) == g = [k \in 0 .. n |-> IF k = 0 THEN P ELSE ReturnPage(g[k - 1], q[k])]
Returning(P, pages) == CHOOSE g : ReturnRun(P, Len(pages), pages, g)

LEMMA ReturningRuns ==
  ASSUME NEW D, NEW P \in D, NEW n \in Nat, NEW q,
         \A Q \in D : \A k \in 1 .. n : ReturnPage(Q, q[k]) \in D
  PROVE  \E g : ReturnRun(P, n, q, g)
<1> DEFINE F == [k \in 1 .. n |-> [Q \in D |-> ReturnPage(Q, q[k])]]
<1>1. Loops(F, n, D) BY DEF Loops
<1>2. PICK g \in [0 .. n -> D] : g[0] = P /\ \A k \in 1 .. n : g[k] = F[k][g[k - 1]]
  <2> HIDE DEF F
  <2>1. HasRun(F, n, D, P) BY <1>1, LoopRuns
  <2>2. QED BY <2>1 DEF HasRun
<1>3. ASSUME NEW k \in 0 .. n
      PROVE  g[k] = IF k = 0 THEN P ELSE ReturnPage(g[k - 1], q[k])
  <2>1. CASE k = 0 BY <1>2, <2>1
  <2>2. CASE k # 0
    <3>1. k \in 1 .. n /\ k - 1 \in 0 .. n BY <2>2
    <3>2. g[k - 1] \in D BY <1>2, <3>1
    <3>3. F[k][g[k - 1]] = ReturnPage(g[k - 1], q[k]) BY <3>1, <3>2
    <3>4. QED BY <1>2, <2>2, <3>1, <3>3
  <2>3. QED BY <2>1, <2>2
<1>4. ReturnRun(P, n, q, g) BY <1>2, <1>3 DEF ReturnRun
<1>5. QED BY <1>4

\* The loop of release_physical_pages goes over all pages.
LEMMA ReturningIs ==
  ASSUME NEW P \in Pool, NEW pages \in Seq(Pages)
  PROVE  LET g == Returning(P, pages) IN
         /\ g[0] = P /\ \A k \in 1 .. Len(pages) : g[k] = ReturnPage(g[k - 1], pages[k])
         /\ release_physical_pages(P, pages) = g[Len(pages)]
<1> DEFINE n == Len(pages)
<1>1. n \in Nat /\ \A k \in 1 .. n : pages[k] \in Pages OBVIOUS
<1>2. ASSUME NEW Q \in Pool, NEW p \in Pages PROVE ReturnPage(Q, p) \in Pool
  <2>1. Q.free \in Seq(Pages) /\ Q.allocated \in SUBSET Pages BY DEF Pool
  <2>2. Append(Q.free, p) \in Seq(Pages) BY <2>1, AppendIs
  <2>3. [Q EXCEPT !.free = Append(@, p), !.allocated = @ \ {p}] \in Pool BY <2>1, <2>2 DEF Pool
  <2>4. QED BY <2>3 DEF ReturnPage
<1>3. \A Q \in Pool : \A k \in 1 .. n : ReturnPage(Q, pages[k]) \in Pool BY <1>1, <1>2
<1>4. \E g : ReturnRun(P, n, pages, g)
  <2> HIDE DEF n
  <2>1. n \in Nat BY <1>1
  <2>2. QED BY <1>3, <2>1, ReturningRuns
<1> DEFINE g == Returning(P, pages)
<1>5. ReturnRun(P, n, pages, g) BY <1>4 DEF Returning
<1>6. release_physical_pages(P, pages) = g[n] BY DEF release_physical_pages, Returning, ReturnRun
<1> HIDE DEF g
<1>7. \A k \in 0 .. n : g[k] = IF k = 0 THEN P ELSE ReturnPage(g[k - 1], pages[k])
  BY <1>5 DEF ReturnRun
<1>8. QED BY <1>1, <1>6, <1>7 DEF g

\* What release_physical_pages does: the allocated pages among them that nobody pins go
\* back on the stack, the others stay where they are.
LEMMA ReleaseIs ==
  ASSUME NEW P \in Pool, Stack(P), NEW pages \in Seq(Pages)
  PROVE  LET Q == release_physical_pages(P, pages) IN
         /\ Q \in Pool /\ Stack(Q) /\ Q.pins = P.pins
         /\ Q.allocated = P.allocated \ {p \in ToSet(pages) : P.pins[p] = 0}
<1> DEFINE g == Returning(P, pages)
           n == Len(pages)
           Back(m) == {p \in Pages : P.pins[p] = 0 /\ \E k \in 1 .. m : pages[k] = p}
           Right(m) == /\ g[m] \in Pool /\ Stack(g[m]) /\ g[m].pins = P.pins
                       /\ g[m].allocated = P.allocated \ Back(m)
           N == {m \in Nat : m <= n => Right(m)}
<1>1. n \in Nat /\ \A k \in 1 .. n : pages[k] \in Pages OBVIOUS
<1>2. /\ g[0] = P /\ \A k \in 1 .. n : g[k] = ReturnPage(g[k - 1], pages[k])
      /\ release_physical_pages(P, pages) = g[n]
  BY ReturningIs
<1> HIDE DEF g
<1>3. 0 \in N
  <2>1. Back(0) = {} OBVIOUS
  <2>2. Right(0) BY <1>2, <2>1
  <2>3. QED BY <2>2
<1>4. ASSUME NEW m \in Nat, m \in N PROVE m + 1 \in N
  <2> SUFFICES ASSUME m + 1 <= n PROVE Right(m + 1) OBVIOUS
  <2> DEFINE Q == g[m]
             p == pages[m + 1]
  <2>1. Right(m) BY <1>1, <1>4
  <2>2. m + 1 \in 1 .. n /\ (m + 1) - 1 = m /\ p \in Pages BY <1>1
  <2>3. g[m + 1] = ReturnPage(Q, p) BY <1>2, <2>2
  <2>4. Back(m + 1) = IF P.pins[p] = 0 THEN Back(m) \cup {p} ELSE Back(m)
    <3>1. 1 .. m + 1 = (1 .. m) \cup {m + 1} OBVIOUS
    <3>2. QED BY <2>2, <3>1
  <2> HIDE DEF Back, p, Q
  <2>5. /\ Q \in Pool /\ IsInjective(Q.free) /\ ToSet(Q.free) = Pages \ Q.allocated
        /\ Q.pins = P.pins /\ Q.allocated = P.allocated \ Back(m)
    BY <2>1 DEF Q, Stack
  <2>6. CASE Returnable(Q, p)
    <3> DEFINE T == [Q EXCEPT !.free = Append(@, p), !.allocated = @ \ {p}]
    <3>1. g[m + 1] = T BY <2>3, <2>6 DEF ReturnPage
    <3>2. Q.free \in Seq(Pages) /\ Q.allocated \in SUBSET Pages BY <2>5 DEF Pool
    <3>3. p \in Q.allocated /\ P.pins[p] = 0 BY <2>5, <2>6 DEF Returnable
    <3>4. /\ Append(Q.free, p) \in Seq(Pages) /\ IsInjective(Append(Q.free, p))
          /\ ToSet(Append(Q.free, p)) = ToSet(Q.free) \cup {p}
      BY <2>2, <2>5, <3>2, <3>3, AppendIs, PushNew
    <3>5. /\ T.free = Append(Q.free, p) /\ T.allocated = Q.allocated \ {p} /\ T.pins = Q.pins
          /\ T \in Pool
      BY <2>5, <3>2, <3>4 DEF Pool
    <3> HIDE DEF T
    <3>6. Stack(T) BY <2>2, <2>5, <3>2, <3>3, <3>4, <3>5 DEF Stack
    <3>7. T.allocated = P.allocated \ Back(m + 1) BY <2>4, <2>5, <3>3, <3>5
    <3>8. QED BY <2>5, <3>1, <3>5, <3>6, <3>7
  <2>7. CASE ~Returnable(Q, p)
    <3>1. g[m + 1] = Q BY <2>3, <2>7 DEF ReturnPage
    <3>2. P.allocated \ Back(m + 1) = P.allocated \ Back(m)
      BY <2>4, <2>5, <2>7 DEF Returnable
    <3>3. QED BY <2>1, <2>5, <3>1, <3>2 DEF Q
  <2>8. QED BY <2>6, <2>7
<1>5. Right(n)
  <2> HIDE DEF N
  <2>1. Nat \subseteq N BY <1>3, <1>4, NaturalInduction
  <2>2. QED BY <1>1, <2>1 DEF N
<1>6. Back(n) = {p \in ToSet(pages) : P.pins[p] = 0}
  <2>1. \A p : p \in ToSet(pages) <=> p \in Pages /\ \E k \in 1 .. n : pages[k] = p
    BY <1>1, ToSetIs
  <2>2. QED BY <2>1
<1>7. QED BY <1>2, <1>5, <1>6

\* The entries that list a page are finitely many, and none exactly if it has no pin.
LEMMA ListingIs ==
  ASSUME NEW E \in SUBSET Entry, NEW p
  PROVE  /\ IsFiniteSet(Listing(E, p)) /\ Cardinality(Listing(E, p)) \in Nat
         /\ (Cardinality(Listing(E, p)) = 0) <=> (\A e \in E : ~Lists(e, p))
<1>1. \A e \in E : e.id \in Requests BY DEF Entry
<1>2. Listing(E, p) \in SUBSET Requests BY <1>1 DEF Listing
<1>3. IsFiniteSet(Listing(E, p)) BY <1>2, CacheConfig, FS_Subset
<1>4. Cardinality(Listing(E, p)) \in Nat
      /\ (Cardinality(Listing(E, p)) = 0 <=> Listing(E, p) = {})
  BY <1>3, FS_CardinalityType, FS_EmptySet
<1>5. Listing(E, p) = {} <=> \A e \in E : ~Lists(e, p) BY DEF Listing
<1>6. QED BY <1>3, <1>4, <1>5

\* Of the requests that hold an entry likewise.
LEMMA HoldersAre ==
  ASSUME NEW R, NEW x
  PROVE  /\ IsFiniteSet(Holders(R, x)) /\ Cardinality(Holders(R, x)) \in Nat
         /\ (Cardinality(Holders(R, x)) = 0) <=> (\A r \in Live(R) : x \notin R[r].lease)
<1>1. Holders(R, x) \in SUBSET Requests BY DEF Holders, Live
<1>2. IsFiniteSet(Holders(R, x)) BY <1>1, CacheConfig, FS_Subset
<1>3. Cardinality(Holders(R, x)) \in Nat
      /\ (Cardinality(Holders(R, x)) = 0 <=> Holders(R, x) = {})
  BY <1>2, FS_CardinalityType, FS_EmptySet
<1>4. Holders(R, x) = {} <=> \A r \in Live(R) : x \notin R[r].lease BY DEF Holders
<1>5. QED BY <1>2, <1>3, <1>4

-----------------------------------------------------------------------------
(* Eviction.                                                               *)

\* An idle entry goes: its pins go with it, and its pages unless others list them.
LEMMA EvictKeeps ==
  ASSUME NEW P, NEW E, NEW R, NEW h, NEW st, NEW rc, Good(P, E, R, h, st, rc),
         NEW e \in E, e.refs = 0
  PROVE  Good(release_physical_pages(unpin_pages(P, e.pages), e.pages), E \ {e}, R, h, st, rc)
<1> DEFINE U == unpin_pages(P, e.pages)
           Q == release_physical_pages(U, e.pages)
           F == E \ {e}
<1>0. /\ Types(P, E, R, h, st, rc) /\ Stack(P) /\ Pins(P, E) /\ Owners(P, E, R)
      /\ Counted(E, R) /\ Held(E, R) /\ Holdings(E, R, h) /\ Snapshots(E, R, st, rc)
  BY DEF Good
<1>1. P \in Pool /\ E \in SUBSET Entry /\ F \in SUBSET Entry /\ e \in Entry
      /\ P.pins \in [Pages -> Nat] /\ P.allocated \in SUBSET Pages
  BY <1>0 DEF Types, Pool
<1>2. e.pages \in Seq(Pages) /\ ToSet(e.pages) \in SUBSET Pages
  <2>1. e.pages \in Seq(Pages) BY <1>1 DEF Entry
  <2>2. QED BY <2>1, ToSetIs
<1>3. /\ U \in Pool /\ U.free = P.free /\ U.allocated = P.allocated
      /\ \A p \in Pages : U.pins[p] = IF Lists(e, p) /\ P.pins[p] > 0 THEN P.pins[p] - 1
                                                                      ELSE P.pins[p]
  <2> DEFINE pins == [p \in Pages |-> IF p \in ToSet(e.pages) /\ P.pins[p] > 0 THEN P.pins[p] - 1
                                                                              ELSE P.pins[p]]
  <2>1. pins \in [Pages -> Nat] BY <1>1
  <2>2. U = [P EXCEPT !.pins = pins] BY DEF unpin_pages
  <2>3. \A p \in Pages : pins[p] = IF Lists(e, p) /\ P.pins[p] > 0 THEN P.pins[p] - 1
                                                                   ELSE P.pins[p]
    BY DEF Lists
  <2> HIDE DEF pins, U
  <2>4. U \in Pool /\ U.free = P.free /\ U.allocated = P.allocated /\ U.pins = pins
    BY <1>1, <2>1, <2>2 DEF Pool
  <2>5. QED BY <2>3, <2>4
<1> HIDE DEF U
<1>4. Pins(U, F)
  <2> SUFFICES ASSUME NEW p \in Pages PROVE U.pins[p] = Cardinality(Listing(F, p)) BY DEF Pins
  <2>1. P.pins[p] = Cardinality(Listing(E, p)) BY <1>0 DEF Pins
  <2>2. IsFiniteSet(Listing(E, p)) /\ Cardinality(Listing(E, p)) \in Nat
        /\ (Cardinality(Listing(E, p)) = 0 <=> \A f \in E : ~Lists(f, p))
    BY <1>1, ListingIs
  <2>3. CASE Lists(e, p)
    <3>1. Listing(F, p) = Listing(E, p) \ {e.id} BY <1>0 DEF Listing, Held, Unique
    <3>2. e.id \in Listing(E, p) BY <2>3 DEF Listing
    <3>3. Cardinality(Listing(F, p)) = Cardinality(Listing(E, p)) - 1
      <4> DEFINE L == Listing(E, p)
                 x == e.id
      <4> HIDE DEF L, x
      <4>1. IsFiniteSet(L) /\ x \in L BY <2>2, <3>2 DEF L, x
      <4>2. Cardinality(L \ {x}) = Cardinality(L) - 1 BY <4>1, FS_RemoveElement
      <4>3. QED BY <3>1, <4>2 DEF L, x
    <3>4. P.pins[p] > 0 BY <2>1, <2>2, <2>3
    <3>5. QED BY <1>3, <2>1, <2>3, <3>3, <3>4
  <2>4. CASE ~Lists(e, p)
    <3>1. Listing(F, p) = Listing(E, p) BY <2>4 DEF Listing
    <3>2. QED BY <1>3, <2>1, <2>4, <3>1
  <2>5. QED BY <2>3, <2>4
<1>5. Stack(U) BY <1>0, <1>3 DEF Stack
<1>6. /\ Q \in Pool /\ Stack(Q) /\ Q.pins = U.pins
      /\ Q.allocated = P.allocated \ {p \in ToSet(e.pages) : U.pins[p] = 0}
  BY <1>2, <1>3, <1>5, ReleaseIs
<1> HIDE DEF Q
<1>7. \A p \in Pages : U.pins[p] = 0 <=> \A f \in F : ~Lists(f, p)
  BY <1>1, <1>4, ListingIs DEF Pins
<1>8. \A p \in Pages : p \in Q.allocated <=>
        p \in P.allocated /\ ~(Lists(e, p) /\ \A f \in F : ~Lists(f, p))
  BY <1>6, <1>7 DEF Lists
<1>9. Q.allocated \in SUBSET Pages BY <1>6 DEF Pool
<1> HIDE DEF F
<1>10. \A f : f \in F <=> f \in E /\ f # e BY DEF F
<1>11. Owners(Q, F, R)
  <2>1. \A f \in F : \A p \in Pages : Lists(f, p) => p \in Q.allocated
    BY <1>0, <1>8, <1>10 DEF Owners
  <2>2. ASSUME NEW r \in Live(R), NEW p \in Pages, Owns(R[r], p)
        PROVE  /\ p \in Q.allocated /\ \A f \in F : ~Lists(f, p)
               /\ \A q \in Live(R) : Owns(R[q], p) => q = r
    <3>1. /\ p \in P.allocated /\ \A f \in E : ~Lists(f, p)
          /\ \A q \in Live(R) : Owns(R[q], p) => q = r
      BY <1>0, <2>2 DEF Owners
    <3>2. QED BY <1>8, <1>10, <3>1
  <2>3. ASSUME NEW p \in Q.allocated
        PROVE  (\E f \in F : Lists(f, p)) \/ (\E r \in Live(R) : Owns(R[r], p))
    <3>1. p \in Pages /\ p \in P.allocated /\ ~(Lists(e, p) /\ \A f \in F : ~Lists(f, p))
      BY <1>8, <1>9
    <3>2. (\E f \in E : Lists(f, p)) \/ (\E r \in Live(R) : Owns(R[r], p))
      BY <1>0, <3>1 DEF Owners
    <3>3. QED BY <1>10, <3>1, <3>2
  <2>4. QED BY <2>1, <2>2, <2>3 DEF Owners
<1>12. Counted(F, R) /\ Held(F, R)
  <2>1. \A r \in Live(R) : e.id \notin R[r].lease
    <3>1. Cardinality(Holders(R, e.id)) = 0 BY <1>0 DEF Counted
    <3>2. QED BY <3>1, HoldersAre
  <2>2. \A r \in Live(R) : \A f \in E : f.id \in R[r].lease => f \in F BY <1>10, <2>1
  <2>3. QED BY <1>0, <1>10, <2>2 DEF Counted, Held, Unique, Named, Covered
<1>13. Holdings(F, R, h) BY <1>0, <1>10 DEF Holdings
<1>14. Snapshots(F, R, st, rc) BY <1>0, <1>10 DEF Snapshots
<1>15. Types(Q, F, R, h, st, rc) BY <1>0, <1>1, <1>6 DEF Types
<1>16. Pins(Q, F) BY <1>4, <1>6 DEF Pins
<1>17. Good(Q, F, R, h, st, rc)
  BY <1>6, <1>11, <1>12, <1>13, <1>14, <1>15, <1>16 DEF Good
<1>18. QED BY <1>17 DEF Q, U, F

\* A pool and a list of entries between the steps of an operation.
Caches == [pool : Pool, cache : Seq(Entry)]
Sound(C, R, h, st, rc) ==
  /\ C \in Caches /\ Listed(C.cache)
  /\ Good(C.pool, ToSet(C.cache), R, h, st, rc)
IdleNames(C) == NamesAt(C.cache, {j \in 1 .. Len(C.cache) : C.cache[j].refs = 0})

\* Idle entries are counted by their names.
LEMMA IdleIs ==
  ASSUME NEW C \in Caches, Listed(C.cache)
  PROVE  /\ Idle(C) = Cardinality(IdleNames(C)) /\ Idle(C) \in Nat /\ IsFiniteSet(IdleNames(C))
         /\ Idle(C) = 0 => \A e \in ToSet(C.cache) : e.refs # 0
<1> DEFINE s == C.cache
           I == {i \in 1 .. Len(s) : s[i].refs = 0}
<1>1. s \in Seq(Entry) /\ DOMAIN s = 1 .. Len(s) BY DEF Caches
<1>2. Idle(C) = Cardinality(I) BY <1>1 DEF Idle, Evictable
<1>3. IdleNames(C) = NamesAt(s, I) BY DEF IdleNames
<1> HIDE DEF s
<1>4. I \in SUBSET (1 .. Len(s)) OBVIOUS
<1>5. Listed(s) BY DEF s
<1>6. IsFiniteSet(I) /\ Cardinality(I) = Cardinality(NamesAt(s, I))
  <2> HIDE DEF I
  <2>1. QED BY <1>4, <1>5, PlacesAreNames
<1>7. Cardinality(I) \in Nat /\ (Cardinality(I) = 0 => I = {})
  BY <1>6, FS_CardinalityType, FS_EmptySet
<1>8. \A i \in 1 .. Len(s) : s[i].id \in Requests
  <2>1. \A e \in Entry : e.id \in Requests BY DEF Entry
  <2>2. QED BY <1>1, <2>1
<1>9. IdleNames(C) \in SUBSET Requests BY <1>3, <1>8 DEF NamesAt
<1>10. IsFiniteSet(IdleNames(C)) BY <1>9, CacheConfig, FS_Subset
<1>11. ASSUME Idle(C) = 0, NEW e \in ToSet(s) PROVE e.refs # 0
  <2>1. PICK i \in 1 .. Len(s) : s[i] = e BY <1>1, ToSetIs
  <2>2. I = {} BY <1>2, <1>7, <1>11
  <2>3. QED BY <2>1, <2>2
<1>12. QED BY <1>2, <1>3, <1>6, <1>7, <1>10, <1>11 DEF s

\* One eviction takes an idle entry, if there is one.
LEMMA EvictOneKeeps ==
  ASSUME NEW C, NEW R, NEW h, NEW st, NEW rc, Sound(C, R, h, st, rc)
  PROVE  /\ Sound(EvictOne(C), R, h, st, rc)
         /\ ToSet(EvictOne(C).cache) \in SUBSET ToSet(C.cache)
         /\ Idle(C) = 0 => EvictOne(C) = C
         /\ Idle(C) # 0 => Idle(EvictOne(C)) = Idle(C) - 1
<1> DEFINE s == C.cache
           I == {i \in 1 .. Len(s) : Evictable(s[i])}
           i == SelectInSeq(s, Evictable)
           D == EvictOne(C)
<1>1. C \in Caches /\ s \in Seq(Entry) /\ Listed(s) /\ Good(C.pool, ToSet(s), R, h, st, rc)
  BY DEF Sound, Caches
<1>2. i = IF I # {} THEN Min(I) ELSE 0 BY DEF SelectInSeq
<1>3. \A j : j \in I <=> j \in 1 .. Len(s) /\ s[j].refs = 0 BY DEF Evictable
<1>4. D = IF i = 0 THEN C
          ELSE [cache |-> RemoveAt(s, i),
                pool |-> release_physical_pages(unpin_pages(C.pool, s[i].pages), s[i].pages)]
  BY DEF EvictOne
<1> HIDE DEF i, s, I, D
<1>5. IdleNames(C) = {s[j].id : j \in I} BY <1>3 DEF IdleNames, NamesAt, s
<1>6. Idle(C) = Cardinality(IdleNames(C)) /\ Idle(C) \in Nat /\ IsFiniteSet(IdleNames(C))
  BY <1>1, IdleIs DEF s
<1>7. CASE I = {}
  <2>1. D = C BY <1>2, <1>4, <1>7
  <2>2. Idle(C) = 0 BY <1>5, <1>6, <1>7, FS_EmptySet
  <2>3. QED BY <1>1, <2>1, <2>2 DEF D, s
<1>8. CASE I # {}
  <2>1. I \in SUBSET Nat BY <1>3
  <2>2. i \in I BY <1>2, <1>8, <2>1, MinIs
  <2>3. i \in 1 .. Len(s) /\ i # 0 /\ s[i].refs = 0 BY <1>3, <2>2
  <2> DEFINE e == s[i]
             Q == release_physical_pages(unpin_pages(C.pool, e.pages), e.pages)
             t == RemoveAt(s, i)
  <2>4. e \in ToSet(s) BY <1>1, <2>3, ToSetIs
  <2>5. Good(Q, ToSet(s) \ {e}, R, h, st, rc) BY <1>1, <2>3, <2>4, EvictKeeps
  <2>6. Listed(t) /\ ToSet(t) = ToSet(s) \ {e} BY <1>1, <2>3, RemoveAtIs
  <2>7. D = [cache |-> t, pool |-> Q] BY <1>4, <2>3
  <2> HIDE DEF Q, t
  <2>8. D.cache = t /\ D.pool = Q BY <2>7
  <2>9. D \in Caches BY <2>5, <2>6, <2>7 DEF Caches, Good, Types, Listed
  <2>10. Sound(D, R, h, st, rc) BY <2>5, <2>6, <2>8, <2>9 DEF Sound
  <2>11. Idle(D) = Idle(C) - 1
    <3>1. IdleNames(D) = IdleNames(C) \ {e.id}
      <4>1. \A x : x \in IdleNames(C) <=> \E f \in ToSet(s) : f.refs = 0 /\ f.id = x
        BY <1>1, ToSetIs DEF IdleNames, NamesAt, s
      <4>2. t \in Seq(Entry) BY <2>6 DEF Listed
      <4>3. \A x : x \in IdleNames(D) <=> \E f \in ToSet(t) : f.refs = 0 /\ f.id = x
        BY <2>8, <4>2, ToSetIs DEF IdleNames, NamesAt
      <4>4. \A f \in ToSet(s) : f.id = e.id => f = e BY <1>1, <2>4, NamesDiffer
      <4> HIDE DEF e
      <4>5. QED BY <2>6, <4>1, <4>3, <4>4
    <3>2. e.id \in IdleNames(C) BY <1>5, <2>2
    <3>3. Idle(D) = Cardinality(IdleNames(D)) BY <2>6, <2>8, <2>9, IdleIs
    <3>4. QED BY <1>6, <3>1, <3>2, <3>3, FS_RemoveElement
  <2>12. Idle(C) # 0
    <3>1. IdleNames(C) # {} BY <1>5, <1>8
    <3>2. QED BY <1>6, <3>1, FS_EmptySet
  <2>13. QED BY <2>6, <2>8, <2>10, <2>11, <2>12 DEF D, s
<1>9. QED BY <1>7, <1>8

\* The eviction loop and its run.
EvictRun(C, n, g) == g = [k \in 0 .. n |-> IF k = 0 THEN C ELSE EvictOne(g[k - 1])]
Evicting(C, n) == CHOOSE g : EvictRun(C, n, g)

LEMMA EvictingRuns ==
  ASSUME NEW D, NEW C \in D, NEW n \in Nat, \A B \in D : EvictOne(B) \in D
  PROVE  \E g : EvictRun(C, n, g)
<1> DEFINE F == [k \in 1 .. n |-> [B \in D |-> EvictOne(B)]]
<1>1. Loops(F, n, D) BY DEF Loops
<1>2. PICK g \in [0 .. n -> D] : g[0] = C /\ \A k \in 1 .. n : g[k] = F[k][g[k - 1]]
  <2> HIDE DEF F
  <2>1. HasRun(F, n, D, C) BY <1>1, LoopRuns
  <2>2. QED BY <2>1 DEF HasRun
<1>3. ASSUME NEW k \in 0 .. n PROVE g[k] = IF k = 0 THEN C ELSE EvictOne(g[k - 1])
  <2>1. CASE k = 0 BY <1>2, <2>1
  <2>2. CASE k # 0
    <3>1. k \in 1 .. n /\ k - 1 \in 0 .. n BY <2>2
    <3>2. g[k - 1] \in D BY <1>2, <3>1
    <3>3. F[k][g[k - 1]] = EvictOne(g[k - 1]) BY <3>1, <3>2
    <3>4. QED BY <1>2, <2>2, <3>1, <3>3
  <2>3. QED BY <2>1, <2>2
<1>4. EvictRun(C, n, g) BY <1>2, <1>3 DEF EvictRun
<1>5. QED BY <1>4

\* Any number of evictions: the invariant is kept, only entries go, and as many idle ones
\* as there are.
LEMMA EvictionsKeep ==
  ASSUME NEW C, NEW R, NEW h, NEW st, NEW rc, Sound(C, R, h, st, rc), NEW n \in Nat
  PROVE  LET D == prefix_cache_evict_lru(C, n) IN
         /\ Sound(D, R, h, st, rc) /\ ToSet(D.cache) \in SUBSET ToSet(C.cache)
         /\ n <= Idle(C) => Idle(D) = Idle(C) - n
         /\ n = 0 => D = C
<1> DEFINE g == Evicting(C, n)
           S == {B \in Caches : Sound(B, R, h, st, rc)}
           Right(m) == /\ Sound(g[m], R, h, st, rc) /\ ToSet(g[m].cache) \in SUBSET ToSet(C.cache)
                       /\ m <= Idle(C) => Idle(g[m]) = Idle(C) - m
           N == {m \in Nat : m <= n => Right(m)}
<1>1. \A B \in S : EvictOne(B) \in S BY EvictOneKeeps DEF Sound
<1>2. C \in S BY DEF Sound
<1>3. \E f : EvictRun(C, n, f)
  <2> HIDE DEF S
  <2>1. QED BY <1>1, <1>2, EvictingRuns
<1>4. EvictRun(C, n, g) BY <1>3 DEF Evicting
<1>5. prefix_cache_evict_lru(C, n) = g[n] BY DEF prefix_cache_evict_lru, Evicting, EvictRun
<1> HIDE DEF g, S
<1>6. \A k \in 0 .. n : g[k] = IF k = 0 THEN C ELSE EvictOne(g[k - 1]) BY <1>4 DEF EvictRun
<1>7. g[0] = C /\ Idle(C) \in Nat BY <1>6, IdleIs DEF Sound
<1>8. 0 \in N BY <1>7
<1>9. ASSUME NEW m \in Nat, m \in N PROVE m + 1 \in N
  <2> SUFFICES ASSUME m + 1 <= n PROVE Right(m + 1) OBVIOUS
  <2>1. Right(m) BY <1>9
  <2>2. m + 1 \in 0 .. n /\ m + 1 # 0 /\ (m + 1) - 1 = m OBVIOUS
  <2>3. g[m + 1] = EvictOne(g[m]) BY <1>6, <2>2
  <2>4. /\ Sound(g[m + 1], R, h, st, rc)
        /\ ToSet(g[m + 1].cache) \in SUBSET ToSet(g[m].cache)
        /\ Idle(g[m]) # 0 => Idle(g[m + 1]) = Idle(g[m]) - 1
    BY <2>1, <2>3, EvictOneKeeps
  <2>5. ASSUME m + 1 <= Idle(C) PROVE Idle(g[m + 1]) = Idle(C) - (m + 1)
    <3>1. Idle(g[m]) = Idle(C) - m BY <1>7, <2>1, <2>5
    <3>2. QED BY <1>7, <2>4, <2>5, <3>1
  <2>6. QED BY <2>1, <2>4, <2>5
<1>10. Right(n)
  <2> HIDE DEF N
  <2>1. Nat \subseteq N BY <1>8, <1>9, NaturalInduction
  <2>2. QED BY <2>1 DEF N
<1>11. QED BY <1>5, <1>7, <1>10

\* The evictions for the budgets: afterwards they are kept, or no entry is idle.
LEMMA WithinBudgetsKeeps ==
  ASSUME NEW C, NEW R, NEW h, NEW st, NEW rc, Sound(C, R, h, st, rc)
  PROVE  /\ Sound(WithinBudgets(C), R, h, st, rc)
         /\ WithinBudget(WithinBudgets(C)) \/ \A e \in ToSet(WithinBudgets(C).cache) : e.refs # 0
<1> DEFINE M == {n \in 0 .. Idle(C) : WithinBudget(prefix_cache_evict_lru(C, n))}
           S == M \cup {Idle(C)}
           D == prefix_cache_evict_lru(C, Min(S))
<1>1. Idle(C) \in Nat BY IdleIs DEF Sound
<1>2. S \in SUBSET Nat /\ S # {} BY <1>1
<1>3. WithinBudgets(C) = D BY DEF WithinBudgets
<1>4. Min(S) \in S /\ Min(S) \in Nat
  <2> HIDE DEF S
  <2>1. QED BY <1>2, MinIs
<1>5. Sound(D, R, h, st, rc) /\ (Min(S) <= Idle(C) => Idle(D) = Idle(C) - Min(S))
  <2> HIDE DEF S
  <2>1. QED BY <1>4, EvictionsKeep
<1>6. CASE Min(S) \in M BY <1>3, <1>5, <1>6
<1>7. CASE Min(S) = Idle(C)
  <2> HIDE DEF D, S, M
  <2>1. Idle(D) = 0 BY <1>1, <1>5, <1>7
  <2>2. D \in Caches /\ Listed(D.cache) BY <1>5 DEF Sound
  <2>3. \A e \in ToSet(D.cache) : e.refs # 0 BY <2>1, <2>2, IdleIs
  <2>4. QED BY <1>3, <1>5, <2>3
<1>8. QED BY <1>4, <1>6, <1>7

-----------------------------------------------------------------------------
(* Snapshots.                                                              *)

\* Entries that differ in their references or their snapshot only.
Like(e, f) == f.id = e.id /\ f.pages = e.pages /\ f.prefix = e.prefix
Alike(e, f) == Like(e, f) /\ f.refs = e.refs
Recount(e, f) == Like(e, f) /\ f.gpu = e.gpu /\ f.host = e.host /\ f.copying = e.copying

\* The pool, the names and the pages do not see the difference.
LEMMA LikeKeeps ==
  ASSUME NEW P, NEW E, NEW R, NEW h, NEW F, Pins(P, E), Owners(P, E, R), Held(E, R),
         Holdings(E, R, h),
         \A f \in F : \E e \in E : Like(e, f), \A e \in E : \E f \in F : Like(e, f),
         Unique(F)
  PROVE  Pins(P, F) /\ Owners(P, F, R) /\ Held(F, R) /\ Holdings(F, R, h)
<1>1. \A e \in E : \A f \in F : Like(e, f) => \A p : Lists(f, p) <=> Lists(e, p)
  BY DEF Like, Lists
<1>2. \A p : Listing(F, p) = Listing(E, p)
  <2> SUFFICES ASSUME NEW p PROVE Listing(F, p) = Listing(E, p) OBVIOUS
  <2>1. \A x : x \in Listing(E, p) <=> \E e \in E : Lists(e, p) /\ e.id = x BY DEF Listing
  <2>2. \A x : x \in Listing(F, p) <=> \E e \in F : Lists(e, p) /\ e.id = x BY DEF Listing
  <2>3. \A x : x \in Listing(F, p) <=> x \in Listing(E, p) BY <1>1, <2>1, <2>2 DEF Like
  <2>4. QED BY <2>3
<1>3. Pins(P, F) BY <1>2 DEF Pins
<1>4. Owners(P, F, R) BY <1>1 DEF Owners
<1>5. Held(F, R)
  <2>1. \A e \in F : /\ R[e.id].status # "new"
                     /\ e.id \in Live(R) => Len(R[e.id].table) >= CommitLength(e.id)
    BY DEF Held, Named, Like
  <2>2. ASSUME NEW r \in Live(R)
        PROVE  /\ \A x \in R[r].lease : \E e \in F : e.id = x
               /\ \A k \in 1 .. R[r].borrowed :
                    \E e \in F : e.id \in R[r].lease /\ Lists(e, R[r].table[k])
               /\ Len(R[r].table) < CommitLength(r) =>
                    \A e \in F : e.id \in R[r].lease => Len(e.pages) <= Len(R[r].table)
    <3>1. \A x \in R[r].lease : \E e \in F : e.id = x BY DEF Held, Covered, Like
    <3>2. ASSUME NEW k \in 1 .. R[r].borrowed
          PROVE  \E e \in F : e.id \in R[r].lease /\ Lists(e, R[r].table[k])
      <4>1. PICK e \in E : e.id \in R[r].lease /\ Lists(e, R[r].table[k]) BY DEF Held, Covered
      <4>2. PICK f \in F : Like(e, f) OBVIOUS
      <4>3. QED BY <1>1, <4>1, <4>2 DEF Like
    <3>3. Len(R[r].table) < CommitLength(r) =>
            \A e \in F : e.id \in R[r].lease => Len(e.pages) <= Len(R[r].table)
      BY DEF Held, Covered, Like
    <3>4. QED BY <3>1, <3>2, <3>3
  <2>3. QED BY <2>1, <2>2 DEF Held, Named, Covered
<1>6. Holdings(F, R, h)
  <2>1. ASSUME NEW f \in F
        PROVE  /\ Len(f.pages) >= 1 /\ Len(f.prefix) = Len(f.pages)
               /\ \A k \in 1 .. Len(f.pages) : h[f.pages[k]] = SubSeq(f.prefix, 1, k)
    <3>1. PICK e \in E : Like(e, f) OBVIOUS
    <3>2. f.pages = e.pages /\ f.prefix = e.prefix BY <3>1 DEF Like
    <3>3. /\ Len(e.pages) >= 1 /\ Len(e.prefix) = Len(e.pages)
          /\ \A k \in 1 .. Len(e.pages) : h[e.pages[k]] = SubSeq(e.prefix, 1, k)
      BY DEF Holdings
    <3>4. QED BY <3>2, <3>3
  <2>2. QED BY <2>1 DEF Holdings
<1>7. QED BY <1>3, <1>4, <1>5, <1>6

\* The same for a list whose entries change place by place.
LEMMA RestageKeeps ==
  ASSUME NEW P, NEW s, NEW R, NEW h, NEW st, NEW rc, Listed(s), Good(P, ToSet(s), R, h, st, rc),
         NEW t \in Seq(Entry), Len(t) = Len(s), \A i \in 1 .. Len(s) : Alike(s[i], t[i]),
         NEW rd \in Buffers \cup {None}, Snapshots(ToSet(t), R, st, rd)
  PROVE  Listed(t) /\ Good(P, ToSet(t), R, h, st, rd)
<1> DEFINE E == ToSet(s)
           F == ToSet(t)
<1>1. s \in Seq(Entry) BY DEF Listed
<1>2. Listed(t) BY DEF Listed, Alike, Like
<1>3. \A f \in F : \E e \in E : Alike(e, f)
  <2> SUFFICES ASSUME NEW f \in F PROVE \E e \in E : Alike(e, f) OBVIOUS
  <2>1. PICK i \in 1 .. Len(t) : t[i] = f BY ToSetIs
  <2>2. s[i] \in E BY <1>1, <2>1, ToSetIs
  <2>3. QED BY <2>1, <2>2
<1>4. \A e \in E : \E f \in F : Alike(e, f)
  <2> SUFFICES ASSUME NEW e \in E PROVE \E f \in F : Alike(e, f) OBVIOUS
  <2>1. PICK i \in 1 .. Len(s) : s[i] = e BY <1>1, ToSetIs
  <2>2. t[i] \in F BY <2>1, ToSetIs
  <2>3. QED BY <2>1, <2>2
<1>5. Unique(F) BY <1>2, NamesDiffer DEF Unique
<1>6. F \in SUBSET Entry BY ToSetIs
<1> HIDE DEF E, F
<1>7. Pins(P, F) /\ Owners(P, F, R) /\ Held(F, R) /\ Holdings(F, R, h)
  <2>1. (\A f \in F : \E e \in E : Like(e, f)) /\ (\A e \in E : \E f \in F : Like(e, f))
    BY <1>3, <1>4 DEF Alike
  <2>2. Pins(P, E) /\ Owners(P, E, R) /\ Held(E, R) /\ Holdings(E, R, h) BY DEF Good, E
  <2>3. QED BY <1>5, <2>1, <2>2, LikeKeeps
<1>8. Counted(F, R) BY <1>3 DEF Good, Counted, Alike, Like, E
<1>9. Good(P, F, R, h, st, rd) BY <1>6, <1>7, <1>8 DEF Good, Types, F
<1>10. QED BY <1>2, <1>9 DEF F

\* Idle snapshots start their copy to the host.
LEMMA StageKeeps ==
  ASSUME NEW P, NEW s, NEW R, NEW h, NEW st, NEW rc, Listed(s), Good(P, ToSet(s), R, h, st, rc)
  PROVE  LET t == prefix_cache_stage_cold(s, R) IN
         Listed(t) /\ Good(P, ToSet(t), R, h, st, rc) /\ Len(t) = Len(s)
         /\ \A i \in 1 .. Len(s) : Alike(s[i], t[i])
<1> DEFINE t == prefix_cache_stage_cold(s, R)
<1>1. s \in Seq(Entry) /\ DOMAIN s = 1 .. Len(s) /\ Len(s) \in Nat BY DEF Listed
<1>2. DOMAIN t = 1 .. Len(s)
      /\ \A i \in 1 .. Len(s) : \/ t[i] = s[i]
                                \/ t[i] = [s[i] EXCEPT !.copying = TRUE] /\ s[i].gpu # None
  BY <1>1 DEF prefix_cache_stage_cold
<1> HIDE DEF t
<1>3. ASSUME NEW i \in 1 .. Len(s)
      PROVE  /\ t[i] \in Entry /\ Alike(s[i], t[i]) /\ t[i].gpu = s[i].gpu /\ t[i].host = s[i].host
             /\ t[i].copying => s[i].copying \/ s[i].gpu # None
  <2>1. s[i] \in Entry BY <1>1
  <2>2. CASE t[i] = s[i] BY <2>1, <2>2 DEF Alike, Like
  <2>3. CASE t[i] = [s[i] EXCEPT !.copying = TRUE] /\ s[i].gpu # None
    BY <2>1, <2>3 DEF Alike, Like, Entry
  <2>4. QED BY <1>2, <2>2, <2>3
<1>4. t \in Seq(Entry) /\ Len(t) = Len(s)
  <2>1. t = [i \in 1 .. Len(s) |-> t[i]]
    <3>1. t = [i \in DOMAIN s |-> t[i]] BY DEF t, prefix_cache_stage_cold
    <3>2. QED BY <1>1, <3>1
  <2>2. QED BY <1>1, <1>3, <2>1
<1>5. \A f \in ToSet(t) : \E e \in ToSet(s) :
        /\ Alike(e, f) /\ f.gpu = e.gpu /\ f.host = e.host
        /\ f.copying => e.copying \/ e.gpu # None
  <2> SUFFICES ASSUME NEW f \in ToSet(t)
               PROVE  \E e \in ToSet(s) : /\ Alike(e, f) /\ f.gpu = e.gpu /\ f.host = e.host
                                          /\ f.copying => e.copying \/ e.gpu # None
    OBVIOUS
  <2>1. PICK i \in 1 .. Len(t) : t[i] = f BY <1>4, ToSetIs
  <2>2. s[i] \in ToSet(s) BY <1>1, <1>4, <2>1, ToSetIs
  <2>3. QED BY <1>3, <1>4, <2>1, <2>2
<1>6. Listed(t) BY <1>3, <1>4 DEF Listed, Alike, Like
<1>7. Snapshots(ToSet(t), R, st, rc)
  <2>1. Snapshots(ToSet(s), R, st, rc) BY DEF Good
  <2>2. ASSUME NEW e \in ToSet(t), NEW f \in ToSet(t), e.gpu # None, e.gpu = f.gpu PROVE e = f
    <3>1. PICK d \in ToSet(s) : Alike(d, e) /\ e.gpu = d.gpu BY <1>5
    <3>2. PICK g \in ToSet(s) : Alike(g, f) /\ f.gpu = g.gpu BY <1>5
    <3>3. d = g BY <2>1, <2>2, <3>1, <3>2 DEF Snapshots
    <3>4. e.id = f.id BY <3>1, <3>2, <3>3 DEF Alike, Like
    <3>5. QED BY <1>6, <3>4, NamesDiffer
  <2>3. ASSUME NEW f \in ToSet(t)
        PROVE  /\ f.copying => f.gpu # None
               /\ f.host = None \/ f.host = f.prefix
               /\ f.prefix = IF f.gpu # None THEN st[f.gpu] ELSE f.host
    <3>1. PICK e \in ToSet(s) : /\ Alike(e, f) /\ f.gpu = e.gpu /\ f.host = e.host
                                /\ f.copying => e.copying \/ e.gpu # None
      BY <1>5
    <3>2. f.prefix = e.prefix BY <3>1 DEF Alike, Like
    <3>3. /\ e.copying => e.gpu # None
          /\ e.host = None \/ e.host = e.prefix
          /\ e.prefix = IF e.gpu # None THEN st[e.gpu] ELSE e.host
      BY <2>1 DEF Snapshots
    <3>4. QED BY <3>1, <3>2, <3>3
  <2>4. rc # None => (\A f \in ToSet(t) : f.gpu # rc) /\ ~Borrowed(rc, R)
    BY <1>5, <2>1 DEF Snapshots
  <2>5. QED BY <2>1, <2>2, <2>3, <2>4 DEF Snapshots
<1>8. rc \in Buffers \cup {None} BY DEF Good, Types
<1>9. QED BY <1>3, <1>4, <1>7, <1>8, RestageKeeps DEF t

\* Complete copies give their buffer up; one of the buffers is kept.
LEMMA ReapKeeps ==
  ASSUME NEW P, NEW s, NEW R, NEW h, NEW st, NEW rc, Listed(s), Good(P, ToSet(s), R, h, st, rc),
         \A e \in ToSet(s) : Reapable(e, R) => state[e.gpu] = st[e.gpu]
  PROVE  LET t == prefix_cache_reap_host_copies(s, R) IN
         Listed(t) /\ Good(P, ToSet(t), R, h, st, Recycled(rc, s, R))
<1> DEFINE t == prefix_cache_reap_host_copies(s, R)
           rd == Recycled(rc, s, R)
           I == {j \in 1 .. Len(s) : Reapable(s[j], R)}
           i == SelectInSeq(s, LAMBDA e : Reapable(e, R))
<1>1. s \in Seq(Entry) /\ DOMAIN s = 1 .. Len(s) /\ Len(s) \in Nat BY DEF Listed
<1>2. DOMAIN t = 1 .. Len(s) /\ t = [j \in 1 .. Len(s) |-> t[j]]
      /\ \A j \in 1 .. Len(s) : t[j] = IF Reapable(s[j], R) THEN Offloaded(s[j]) ELSE s[j]
  BY <1>1 DEF prefix_cache_reap_host_copies
<1>3. i = IF I # {} THEN Min(I) ELSE 0 BY DEF SelectInSeq
<1>4. rd = IF rc # None \/ i = 0 THEN rc ELSE s[i].gpu BY DEF Recycled
<1>5. rc # None \/ I = {} \/ \E e \in ToSet(s) : Reapable(e, R) /\ rd = e.gpu
  <2> HIDE DEF rd, i
  <2>1. I \in SUBSET Nat OBVIOUS
  <2>2. ASSUME I # {}, rc = None PROVE \E e \in ToSet(s) : Reapable(e, R) /\ rd = e.gpu
    <3>1. i \in I BY <1>3, <2>1, <2>2, MinIs
    <3>2. i # 0 /\ rd = s[i].gpu BY <1>4, <2>2, <3>1
    <3>3. s[i] \in ToSet(s) BY <1>1, <3>1, ToSetIs
    <3>4. QED BY <3>1, <3>2, <3>3
  <2>3. QED BY <2>2
<1>6. rc # None \/ I = {} => rd = rc
  <2> HIDE DEF rd, i
  <2>1. QED BY <1>3, <1>4
<1> HIDE DEF t, rd, I, i
<1>7. Types(P, ToSet(s), R, h, st, rc) /\ Snapshots(ToSet(s), R, st, rc) BY DEF Good
<1>8. ASSUME NEW e \in ToSet(s)
      PROVE  /\ e \in Entry /\ e.prefix \in Texts
             /\ e.copying => e.gpu # None
             /\ e.host = None \/ e.host = e.prefix
             /\ e.prefix = IF e.gpu # None THEN st[e.gpu] ELSE e.host
  <2>1. e \in Entry BY <1>7 DEF Types
  <2>2. e.prefix \in Texts BY <2>1 DEF Entry
  <2>3. QED BY <1>7, <2>1, <2>2 DEF Snapshots
<1>9. ASSUME NEW e \in ToSet(s), Reapable(e, R)
      PROVE  /\ Offloaded(e) \in Entry /\ Alike(e, Offloaded(e)) /\ Offloaded(e).gpu = None
             /\ Offloaded(e).copying = FALSE /\ Offloaded(e).host = e.prefix /\ e.gpu # None
  <2>1. e.copying /\ e.gpu # None BY <1>8, <1>9 DEF Reapable
  <2>2. (IF e.host = None THEN state[e.gpu] ELSE e.host) = e.prefix BY <1>8, <1>9, <2>1
  <2>3. Offloaded(e) = [e EXCEPT !.host = e.prefix, !.gpu = None, !.copying = FALSE]
    BY <2>2 DEF Offloaded
  <2>4. QED BY <1>8, <2>1, <2>3 DEF Entry, Alike, Like
<1>10. \A j \in 1 .. Len(s) : t[j] \in Entry /\ Alike(s[j], t[j])
  <2> SUFFICES ASSUME NEW j \in 1 .. Len(s) PROVE t[j] \in Entry /\ Alike(s[j], t[j]) OBVIOUS
  <2>1. s[j] \in ToSet(s) /\ s[j] \in Entry BY <1>1, ToSetIs
  <2>2. CASE Reapable(s[j], R) BY <1>2, <1>9, <2>1, <2>2
  <2>3. CASE ~Reapable(s[j], R) BY <1>2, <2>1, <2>3 DEF Alike, Like
  <2>4. QED BY <2>2, <2>3
<1>11. t \in Seq(Entry) /\ Len(t) = Len(s) BY <1>1, <1>2, <1>10
<1>12. ASSUME NEW f \in ToSet(t)
       PROVE  \E e \in ToSet(s) : /\ Alike(e, f)
                                  /\ f = IF Reapable(e, R) THEN Offloaded(e) ELSE e
  <2>1. PICK j \in 1 .. Len(t) : t[j] = f BY <1>11, ToSetIs
  <2>2. s[j] \in ToSet(s) BY <1>1, <1>11, <2>1, ToSetIs
  <2>3. QED BY <1>2, <1>10, <1>11, <2>1, <2>2
<1>13. Listed(t) BY <1>10, <1>11 DEF Listed, Alike, Like
<1>14. ASSUME NEW f \in ToSet(t)
       PROVE  /\ f.copying => f.gpu # None
              /\ f.host = None \/ f.host = f.prefix
              /\ f.prefix = IF f.gpu # None THEN st[f.gpu] ELSE f.host
              /\ f.gpu # None => f \in ToSet(s) /\ ~Reapable(f, R)
  <2>1. PICK e \in ToSet(s) : /\ Alike(e, f) /\ f = IF Reapable(e, R) THEN Offloaded(e) ELSE e
    BY <1>12
  <2>2. CASE Reapable(e, R)
    <3>1. f = Offloaded(e) /\ f.prefix = e.prefix BY <2>1, <2>2 DEF Alike, Like
    <3>2. f.gpu = None /\ f.copying = FALSE /\ f.host = e.prefix BY <1>9, <2>2, <3>1
    <3>3. QED BY <3>1, <3>2
  <2>3. CASE ~Reapable(e, R)
    <3>1. f = e BY <2>1, <2>3
    <3>2. QED BY <1>8, <2>3, <3>1
  <2>4. QED BY <2>2, <2>3
<1>15. rd # None => (\A f \in ToSet(t) : f.gpu # rd) /\ ~Borrowed(rd, R)
  <2>1. CASE rc # None \/ I = {}
    <3>1. rd = rc BY <1>6, <2>1
    <3>2. QED BY <1>7, <1>14, <3>1 DEF Snapshots
  <2>2. CASE ~(rc # None \/ I = {})
    <3>1. PICK e \in ToSet(s) : Reapable(e, R) /\ rd = e.gpu BY <1>5, <2>2
    <3>2. ~Borrowed(rd, R) /\ rd # None BY <1>9, <3>1 DEF Reapable
    <3>3. \A f \in ToSet(s) : f.gpu = rd => f = e BY <1>7, <3>1, <3>2 DEF Snapshots
    <3>4. \A f \in ToSet(t) : f.gpu # rd BY <1>14, <3>1, <3>2, <3>3
    <3>5. QED BY <3>2, <3>4
  <2>3. QED BY <2>1, <2>2
<1>16. \A e, f \in ToSet(t) : e.gpu # None /\ e.gpu = f.gpu => e = f BY <1>7, <1>14 DEF Snapshots
<1>17. Snapshots(ToSet(t), R, st, rd) BY <1>7, <1>14, <1>15, <1>16 DEF Snapshots
<1>18. rd \in Buffers \cup {None}
  <2>1. rc \in Buffers \cup {None} BY <1>7 DEF Types
  <2>2. \A e \in ToSet(s) : e.gpu \in Buffers \cup {None} BY <1>8 DEF Entry
  <2>3. QED BY <1>5, <1>6, <2>1, <2>2
<1>19. QED BY <1>10, <1>11, <1>17, <1>18, RestageKeeps DEF t, rd

\* The cache keeps its budgets, unless every entry is in use.
InUse(s) == \A e \in ToSet(s) : e.refs # 0
Tight(P, s) == WithinBudget([pool |-> P, cache |-> s]) \/ InUse(s)
Fits == Tight(pool, cache)

\* Only the pins, the number of entries and their references count.
LEMMA SameFits ==
  ASSUME NEW P, NEW s, NEW Q, NEW t, Tight(P, s), Q.pins = P.pins, Len(t) = Len(s),
         InUse(s) => InUse(t)
  PROVE  Tight(Q, t)
<1>1. CASE InUse(s) BY <1>1 DEF Tight
<1>2. CASE WithinBudget([pool |-> P, cache |-> s])
  <2>1. WithinBudget([pool |-> Q, cache |-> t]) BY <1>2 DEF WithinBudget
  <2>2. QED BY <2>1 DEF Tight
<1>3. QED BY <1>1, <1>2 DEF Tight

LEMMA WithinIs ==
  ASSUME NEW C \in Caches
  PROVE  Tight(C.pool, C.cache) <=> WithinBudget(C) \/ InUse(C.cache)
<1>1. C = [pool |-> C.pool, cache |-> C.cache] BY DEF Caches
<1>2. QED BY <1>1 DEF Tight

\* With fewer entries it keeps them too.
LEMMA FewerFit ==
  ASSUME NEW C, NEW D, NEW R, NEW h, NEW st, NEW rc, Sound(C, R, h, st, rc),
         Sound(D, R, h, st, rc), ToSet(D.cache) \in SUBSET ToSet(C.cache),
         Tight(C.pool, C.cache)
  PROVE  Tight(D.pool, D.cache)
<1> DEFINE s == C.cache
           t == D.cache
<1>1. C \in Caches /\ D \in Caches /\ Listed(s) /\ Listed(t) BY DEF Sound
<1>2. CASE InUse(s) BY <1>2 DEF InUse, Tight
<1>3. CASE WithinBudget(C)
  <2>1. Len(t) <= Len(s) /\ Len(t) \in Nat /\ Len(s) \in Nat
    <3>1. /\ Len(t) \in Nat /\ Len(s) \in Nat
          /\ \A k \in 1 .. Len(s) : s[k] \in ToSet(s)
          /\ \A x \in ToSet(s) : \E k \in 1 .. Len(s) : s[k] = x
          /\ \A k \in 1 .. Len(t) : t[k] \in ToSet(t)
      BY <1>1, ToSetIs DEF Listed
    <3> DEFINE I == NamesAt(s, 1 .. Len(s))
               J == NamesAt(t, 1 .. Len(t))
    <3>2. J \subseteq I BY <3>1 DEF NamesAt
    <3>3. /\ Cardinality(1 .. Len(s)) = Cardinality(I) /\ Cardinality(1 .. Len(s)) = Len(s)
          /\ Cardinality(1 .. Len(t)) = Cardinality(J) /\ Cardinality(1 .. Len(t)) = Len(t)
      <4>1. (1 .. Len(s)) \in SUBSET (1 .. Len(s)) /\ (1 .. Len(t)) \in SUBSET (1 .. Len(t))
        OBVIOUS
      <4>2. Cardinality(1 .. Len(s)) = Len(s) /\ Cardinality(1 .. Len(t)) = Len(t)
        <5>1. ASSUME NEW n \in Nat PROVE Cardinality(1 .. n) = n BY FS_Interval
        <5>2. QED BY <3>1, <5>1
      <4>3. QED BY <1>1, <4>1, <4>2, PlacesAreNames
    <3>4. IsFiniteSet(I)
      <4>1. \A e \in ToSet(s) : e.id \in Requests BY DEF Sound, Good, Types, Entry
      <4>2. I \subseteq Requests BY <3>1, <4>1 DEF NamesAt
      <4>3. QED BY <4>2, CacheConfig, FS_Subset
    <3> HIDE DEF I, J
    <3>5. Cardinality(J) <= Cardinality(I) BY <3>2, <3>4, FS_Subset
    <3>6. QED BY <3>1, <3>3, <3>5
  <2> DEFINE U == {p \in Pages : C.pool.pins[p] > 0}
             V == {p \in Pages : D.pool.pins[p] > 0}
  <2>2. V \subseteq U
    <3> SUFFICES ASSUME NEW p \in Pages, D.pool.pins[p] > 0 PROVE C.pool.pins[p] > 0 OBVIOUS
    <3>1. /\ C.pool.pins[p] = Cardinality(Listing(ToSet(s), p))
          /\ D.pool.pins[p] = Cardinality(Listing(ToSet(t), p))
      BY DEF Sound, Good, Pins
    <3>2. ToSet(s) \in SUBSET Entry /\ ToSet(t) \in SUBSET Entry BY DEF Sound, Good, Types
    <3>3. PICK e \in ToSet(t) : Lists(e, p) BY <3>1, <3>2, ListingIs
    <3>4. Cardinality(Listing(ToSet(s), p)) # 0 /\ Cardinality(Listing(ToSet(s), p)) \in Nat
      BY <3>2, <3>3, ListingIs
    <3>5. QED BY <3>1, <3>4
  <2>3. Cardinality(V) <= Cardinality(U) /\ Cardinality(U) \in Nat /\ Cardinality(V) \in Nat
    <3>1. IsFiniteSet(U) /\ IsFiniteSet(V) BY CacheConfig, FS_Subset
    <3> HIDE DEF U, V
    <3>2. QED BY <2>2, <3>1, FS_Subset, FS_CardinalityType
  <2>4. /\ PageBudget = 0 \/ Cardinality(U) <= PageBudget
        /\ EntryBudget = 0 \/ Len(s) <= EntryBudget
    BY <1>3 DEF WithinBudget
  <2>5. PageBudget \in Nat /\ EntryBudget \in Nat BY CacheConfig
  <2>6. WithinBudget(D)
    <3>1. PageBudget = 0 \/ Cardinality(V) <= PageBudget
      <4> HIDE DEF U, V
      <4>1. QED BY <2>3, <2>4, <2>5
    <3>2. EntryBudget = 0 \/ Len(t) <= EntryBudget
      <4> HIDE DEF s, t
      <4>1. QED BY <2>1, <2>4, <2>5
    <3>3. QED BY <3>1, <3>2 DEF WithinBudget
  <2>7. QED BY <1>1, <2>6, WithinIs
<1>4. QED BY <1>1, <1>2, <1>3, WithinIs

\* A state after prefix_cache_enforce_budgets.
LEMMA EnforceKeeps ==
  ASSUME NEW C, NEW R, NEW h, NEW st, NEW rc, Sound(C, R, h, st, rc),
         prefix_cache_enforce_budgets(C, R)
  PROVE  Listed(cache') /\ Good(pool', ToSet(cache'), R, h, st, rc) /\ Fits'
<1> DEFINE D == WithinBudgets(C)
<1>1. Sound(D, R, h, st, rc) BY WithinBudgetsKeeps
<1>2. pool' = D.pool /\ cache' = prefix_cache_stage_cold(D.cache, R)
  BY DEF prefix_cache_enforce_budgets
<1> HIDE DEF D
<1>3. Listed(D.cache) /\ Good(D.pool, ToSet(D.cache), R, h, st, rc) BY <1>1 DEF Sound
<1>4. WithinBudget(D) \/ InUse(D.cache) BY WithinBudgetsKeeps DEF D, InUse
<1>5. Tight(D.pool, D.cache) BY <1>1, <1>4, WithinIs DEF Sound
<1>6. /\ Listed(cache') /\ Good(pool', ToSet(cache'), R, h, st, rc)
      /\ Len(cache') = Len(D.cache) /\ \A i \in 1 .. Len(D.cache) : Alike(D.cache[i], cache'[i])
  BY <1>2, <1>3, StageKeeps
<1>7. InUse(D.cache) => InUse(cache')
  <2> SUFFICES ASSUME InUse(D.cache), NEW f \in ToSet(cache') PROVE f.refs # 0 BY DEF InUse
  <2>1. cache' \in Seq(Entry) /\ D.cache \in Seq(Entry) BY <1>3, <1>6 DEF Listed
  <2>2. PICK i \in 1 .. Len(cache') : cache'[i] = f BY <2>1, ToSetIs
  <2>3. D.cache[i] \in ToSet(D.cache) /\ Alike(D.cache[i], f) BY <1>6, <2>1, <2>2, ToSetIs
  <2>4. QED BY <2>3 DEF InUse, Alike
<1>8. Tight(pool', cache') BY <1>2, <1>5, <1>6, <1>7, SameFits
<1>9. QED BY <1>6, <1>8 DEF Fits

-----------------------------------------------------------------------------
(* References.                                                             *)

\* The references of entries change, and are exact again for the requests R.
LEMMA RecountKeeps ==
  ASSUME NEW P, NEW E, NEW R, NEW h, NEW st, NEW rc, NEW F \in SUBSET Entry,
         Types(P, E, R, h, st, rc), Stack(P), Pins(P, E), Owners(P, E, R), Held(E, R),
         Holdings(E, R, h), Snapshots(E, R, st, rc), Counted(F, R),
         \A f \in F : \E e \in E : Recount(e, f), \A e \in E : \E f \in F : Recount(e, f),
         Unique(F)
  PROVE  Good(P, F, R, h, st, rc)
<1>1. Pins(P, F) /\ Owners(P, F, R) /\ Held(F, R) /\ Holdings(F, R, h)
  <2>1. (\A f \in F : \E e \in E : Like(e, f)) /\ (\A e \in E : \E f \in F : Like(e, f))
    BY DEF Recount
  <2>2. QED BY <2>1, LikeKeeps
<1>2. Types(P, F, R, h, st, rc) BY DEF Types
<1>3. ASSUME NEW e \in F, NEW f \in F, e.gpu # None, e.gpu = f.gpu PROVE e = f
  <2>1. PICK d \in E : Recount(d, e) OBVIOUS
  <2>2. PICK g \in E : Recount(g, f) OBVIOUS
  <2>3. d = g
    <3>1. d.gpu = e.gpu /\ g.gpu = f.gpu BY <2>1, <2>2 DEF Recount
    <3>2. QED BY <1>3, <3>1 DEF Snapshots
  <2>4. e.id = f.id BY <2>1, <2>2, <2>3 DEF Recount, Like
  <2>5. QED BY <2>4 DEF Unique
<1>4. ASSUME NEW f \in F
      PROVE  /\ f.copying => f.gpu # None
             /\ f.host = None \/ f.host = f.prefix
             /\ f.prefix = IF f.gpu # None THEN st[f.gpu] ELSE f.host
  <2>1. PICK e \in E : Recount(e, f) OBVIOUS
  <2>2. f.prefix = e.prefix /\ f.gpu = e.gpu /\ f.host = e.host /\ f.copying = e.copying
    BY <2>1 DEF Recount, Like
  <2>3. /\ e.copying => e.gpu # None
        /\ e.host = None \/ e.host = e.prefix
        /\ e.prefix = IF e.gpu # None THEN st[e.gpu] ELSE e.host
    BY DEF Snapshots
  <2>4. QED BY <2>2, <2>3
<1>5. rc # None => (\A f \in F : f.gpu # rc) /\ ~Borrowed(rc, R) BY DEF Snapshots, Recount
<1>6. Snapshots(F, R, st, rc) BY <1>3, <1>4, <1>5 DEF Snapshots
<1>7. QED BY <1>1, <1>2, <1>6 DEF Good

\* The pages a request gives back are those it owns.
LEMMA OwnedIs ==
  ASSUME NEW q \in Request, q.borrowed <= Len(q.table)
  PROVE  /\ OwnedPages(q) \in Seq(Pages)
         /\ \A p : p \in ToSet(OwnedPages(q)) <=> Owns(q, p)
<1> DEFINE a == q.borrowed + 1
           b == Len(q.table)
           o == SubSeq(q.table, a, b)
<1>1. q.table \in Seq(Pages) /\ q.borrowed \in Nat BY DEF Request
<1>2. b \in Nat /\ a \in 1 .. b + 1 /\ b \in 0 .. b /\ a <= b + 1 BY <1>1
<1>3. OwnedPages(q) = o BY DEF OwnedPages
<1> HIDE DEF a
<1>4. /\ o \in Seq(Pages) /\ Len(o) = b - a + 1
      /\ \A i \in 1 .. b - a + 1 : o[i] = q.table[i + a - 1]
  BY <1>1, <1>2, SubSeqIs
<1> HIDE DEF o, b
<1>5. ASSUME NEW p, NEW k \in a .. b, q.table[k] = p PROVE p \in ToSet(o)
  <2>1. k - a + 1 \in 1 .. b - a + 1 /\ (k - a + 1) + a - 1 = k BY <1>2
  <2>2. o[k - a + 1] = p BY <1>4, <1>5, <2>1
  <2>3. QED BY <1>4, <2>1, <2>2, ToSetIs
<1>6. ASSUME NEW p \in ToSet(o) PROVE \E k \in a .. b : q.table[k] = p
  <2>1. PICK i \in 1 .. b - a + 1 : o[i] = p BY <1>4, ToSetIs
  <2>2. i + a - 1 \in a .. b BY <1>2, <2>1
  <2>3. QED BY <1>4, <2>1, <2>2
<1>7. \A p : p \in ToSet(o) <=> Owns(q, p) BY <1>5, <1>6 DEF Owns, a, b
<1>8. QED BY <1>3, <1>4, <1>7

\* The end of a request as the requests see it.
Ended(R, r, status) == [R EXCEPT ![r] = [New EXCEPT !.status = status]]
LEMMA EndedIs ==
  ASSUME NEW R \in [Requests -> Request], NEW r \in Live(R), NEW status \in {"done", "exhausted"}
  PROVE  LET S == Ended(R, r, status) IN
         /\ S \in [Requests -> Request] /\ Live(S) = Live(R) \ {r}
         /\ \A q \in Requests : q # r => S[q] = R[q]
         /\ S[r].status # "new" /\ S[r].snapshot = None /\ S[r].table = <<>> /\ S[r].borrowed = 0
         /\ \A x : Holders(S, x) = Holders(R, x) \ {r}
<1> DEFINE S == Ended(R, r, status)
<1>1. r \in Requests BY DEF Live
<1>2. <<>> \in Texts BY DEF Texts
<1>3. [New EXCEPT !.status = status] \in Request
  <2>1. <<>> \in Seq(Pages) OBVIOUS
  <2>2. QED BY <1>2, <2>1 DEF New, Request
<1>4. S \in [Requests -> Request] BY <1>1, <1>3 DEF Ended
<1>5. S[r] = [New EXCEPT !.status = status] /\ \A q \in Requests : q # r => S[q] = R[q]
  BY <1>1 DEF Ended
<1> HIDE DEF S
<1>6. /\ S[r].status = status /\ S[r].snapshot = None /\ S[r].table = <<>>
      /\ S[r].borrowed = 0
  BY <1>5 DEF New
<1>7. status # "new" /\ status # "active" OBVIOUS
<1>8. Live(S) = Live(R) \ {r} BY <1>1, <1>5, <1>6, <1>7 DEF Live
<1>9. \A x : Holders(S, x) = Holders(R, x) \ {r} BY <1>5, <1>8 DEF Holders, Live
<1>10. QED BY <1>4, <1>5, <1>6, <1>7, <1>8, <1>9 DEF S

\* A request ends: its pages go back, and the entries it held are held by one less.
LEMMA EndKeeps ==
  ASSUME NEW P, NEW E, NEW R, NEW h, NEW st, NEW rc, Good(P, E, R, h, st, rc),
         NEW r \in Live(R), NEW status \in {"done", "exhausted"}, NEW F \in SUBSET Entry,
         \A f \in F : \E e \in E :
           Recount(e, f) /\ f.refs = IF e.id \in R[r].lease THEN e.refs - 1 ELSE e.refs,
         \A e \in E : \E f \in F : Recount(e, f), Unique(F)
  PROVE  Good(release_physical_pages(P, OwnedPages(R[r])), F, Ended(R, r, status), h, st, rc)
<1> DEFINE S == Ended(R, r, status)
           Q == release_physical_pages(P, OwnedPages(R[r]))
<1>0. /\ Types(P, E, R, h, st, rc) /\ Stack(P) /\ Pins(P, E) /\ Owners(P, E, R)
      /\ Counted(E, R) /\ Held(E, R) /\ Holdings(E, R, h) /\ Snapshots(E, R, st, rc)
  BY DEF Good
<1>1. /\ P \in Pool /\ E \in SUBSET Entry /\ R \in [Requests -> Request]
      /\ P.pins \in [Pages -> Nat] /\ P.allocated \in SUBSET Pages
  BY <1>0 DEF Types, Pool
<1>2. /\ S \in [Requests -> Request] /\ Live(S) = Live(R) \ {r}
      /\ \A q \in Requests : q # r => S[q] = R[q]
      /\ S[r].status # "new" /\ S[r].snapshot = None /\ S[r].table = <<>> /\ S[r].borrowed = 0
      /\ \A x : Holders(S, x) = Holders(R, x) \ {r}
  BY <1>1, EndedIs
<1> HIDE DEF S
<1>3. r \in Requests /\ R[r] \in Request /\ R[r].borrowed <= Len(R[r].table)
  BY <1>0, <1>1 DEF Live, Holdings
<1>4. /\ OwnedPages(R[r]) \in Seq(Pages)
      /\ \A p : p \in ToSet(OwnedPages(R[r])) <=> Owns(R[r], p)
  BY <1>3, OwnedIs
<1>5. /\ Q \in Pool /\ Stack(Q) /\ Q.pins = P.pins
      /\ Q.allocated = P.allocated \ {p \in ToSet(OwnedPages(R[r])) : P.pins[p] = 0}
  BY <1>0, <1>1, <1>4, ReleaseIs
<1> HIDE DEF Q
<1>6. \A p \in Pages : Owns(R[r], p) => P.pins[p] = 0
  <2> SUFFICES ASSUME NEW p \in Pages, Owns(R[r], p) PROVE P.pins[p] = 0 OBVIOUS
  <2>1. \A e \in E : ~Lists(e, p) BY <1>0 DEF Owners
  <2>2. Cardinality(Listing(E, p)) = 0 BY <1>1, <2>1, ListingIs
  <2>3. QED BY <1>0, <2>2 DEF Pins
<1>7. \A p \in Pages : p \in Q.allocated <=> p \in P.allocated /\ ~Owns(R[r], p)
  BY <1>4, <1>5, <1>6
<1>8. Q.allocated \in SUBSET Pages BY <1>5 DEF Pool
<1>9. \A q \in Live(S) : q \in Live(R) /\ q # r /\ q \in Requests /\ S[q] = R[q]
  BY <1>2 DEF Live
<1>10. Owners(Q, E, S)
  <2>1. \A e \in E : \A p \in Pages : Lists(e, p) => p \in Q.allocated
    BY <1>0, <1>7 DEF Owners
  <2>2. ASSUME NEW q \in Live(S), NEW p \in Pages, Owns(S[q], p)
        PROVE  /\ p \in Q.allocated /\ \A e \in E : ~Lists(e, p)
               /\ \A x \in Live(S) : Owns(S[x], p) => x = q
    <3>1. Owns(R[q], p) /\ q \in Live(R) /\ q # r BY <1>9, <2>2
    <3>2. /\ p \in P.allocated /\ \A e \in E : ~Lists(e, p)
          /\ \A x \in Live(R) : Owns(R[x], p) => x = q
      BY <1>0, <3>1 DEF Owners
    <3>3. QED BY <1>7, <1>9, <3>1, <3>2
  <2>3. ASSUME NEW p \in Q.allocated
        PROVE  (\E e \in E : Lists(e, p)) \/ (\E q \in Live(S) : Owns(S[q], p))
    <3>1. p \in Pages /\ p \in P.allocated /\ ~Owns(R[r], p) BY <1>7, <1>8
    <3>2. (\E e \in E : Lists(e, p)) \/ (\E q \in Live(R) : Owns(R[q], p))
      BY <1>0, <3>1 DEF Owners
    <3>3. QED BY <1>2, <1>9, <3>1, <3>2
  <2>4. QED BY <2>1, <2>2, <2>3 DEF Owners
<1>11. Held(E, S)
  <2>1. \A e \in E : e.id \in Requests BY <1>1 DEF Entry
  <2>2. ASSUME NEW e \in E
        PROVE  /\ S[e.id].status # "new"
               /\ e.id \in Live(S) => Len(S[e.id].table) >= CommitLength(e.id)
    BY <1>0, <1>2, <1>9, <2>1 DEF Held, Named
  <2>3. ASSUME NEW q \in Live(S)
        PROVE  /\ \A x \in S[q].lease : \E e \in E : e.id = x
               /\ \A k \in 1 .. S[q].borrowed :
                    \E e \in E : e.id \in S[q].lease /\ Lists(e, S[q].table[k])
               /\ Len(S[q].table) < CommitLength(q) =>
                    \A e \in E : e.id \in S[q].lease => Len(e.pages) <= Len(S[q].table)
    BY <1>0, <1>9 DEF Held, Covered
  <2>4. Unique(E) BY <1>0 DEF Held
  <2>5. Named(E, S) BY <2>2 DEF Named
  <2>6. Covered(E, S) BY <2>3 DEF Covered
  <2>7. Fresh(S)
    <3>1. Fresh(R) BY <1>0 DEF Held
    <3>2. QED BY <1>2, <3>1 DEF Fresh
  <2>8. QED BY <2>4, <2>5, <2>6, <2>7 DEF Held
<1>12. Holdings(E, S, h)
  <2>1. \A q \in Live(S) :
          /\ S[q].borrowed <= Len(S[q].table) /\ Len(S[q].table) <= Len(Prompt[q])
          /\ \A k \in 1 .. Len(S[q].table) : h[S[q].table[k]] = Prefix(q, k)
          /\ S[q].hit < Len(Prompt[q]) /\ S[q].restored = Prefix(q, S[q].hit)
    BY <1>0, <1>9 DEF Holdings
  <2>2. QED BY <1>0, <2>1 DEF Holdings
<1>13. Snapshots(E, S, st, rc)
  <2>1. rc # None => ~Borrowed(rc, S) BY <1>0, <1>2 DEF Snapshots, Borrowed
  <2>2. ASSUME NEW q \in Requests, S[q].snapshot # None
        PROVE  q \in Live(S) /\ \E n \in 1 .. Len(Prompt[q]) : st[S[q].snapshot] = Prefix(q, n)
    <3>1. q # r /\ S[q] = R[q] BY <1>2, <2>2
    <3>2. QED BY <1>0, <1>2, <2>2, <3>1 DEF Snapshots
  <2>3. QED BY <1>0, <2>1, <2>2 DEF Snapshots
<1>14. Counted(F, S)
  <2> SUFFICES ASSUME NEW f \in F PROVE f.refs = Cardinality(Holders(S, f.id)) BY DEF Counted
  <2>1. PICK e \in E : Recount(e, f) /\ f.refs = IF e.id \in R[r].lease THEN e.refs - 1 ELSE e.refs
    OBVIOUS
  <2>2. f.id = e.id BY <2>1 DEF Recount, Like
  <2>3. e.refs = Cardinality(Holders(R, e.id)) BY <1>0 DEF Counted
  <2>4. IsFiniteSet(Holders(R, e.id)) /\ Cardinality(Holders(R, e.id)) \in Nat BY HoldersAre
  <2>5. CASE e.id \in R[r].lease
    <3>1. r \in Holders(R, e.id) BY <2>5 DEF Holders
    <3>2. Cardinality(Holders(R, e.id) \ {r}) = Cardinality(Holders(R, e.id)) - 1
      BY <2>4, <3>1, FS_RemoveElement
    <3>3. QED BY <1>2, <2>1, <2>2, <2>3, <2>5, <3>2
  <2>6. CASE e.id \notin R[r].lease
    <3>1. Holders(R, e.id) \ {r} = Holders(R, e.id) BY <2>6 DEF Holders
    <3>2. QED BY <1>2, <2>1, <2>2, <2>3, <2>6, <3>1
  <2>7. QED BY <2>5, <2>6
<1>15. Pins(Q, E) BY <1>0, <1>5 DEF Pins
<1>16. Types(Q, E, S, h, st, rc) BY <1>0, <1>2, <1>5 DEF Types
<1>17. \A f \in F : \E e \in E : Recount(e, f) OBVIOUS
<1>18. Good(Q, F, S, h, st, rc)
  BY <1>5, <1>10, <1>11, <1>12, <1>13, <1>14, <1>15, <1>16, <1>17, RecountKeeps
<1>19. QED BY <1>18 DEF Q, S

\* complete_continuous_active, whatever evictions came before it.
LEMMA CompleteKeeps ==
  ASSUME NEW C, Sound(C, req, holds, state, recycled), NEW r \in Live(req),
         NEW status \in {"done", "exhausted"}, Complete(r, status, C)
  PROVE  /\ Listed(cache') /\ Good(pool', ToSet(cache'), req', holds, state, recycled')
         /\ Tight(C.pool, C.cache) => Fits'
<1> DEFINE R == Ended(req, r, status)
           Q == release_physical_pages(C.pool, OwnedPages(req[r]))
           s == C.cache
           ids == req[r].lease
           d == [i \in DOMAIN s |-> IF s[i].id \in ids THEN [s[i] EXCEPT !.refs = @ - 1] ELSE s[i]]
           B == [pool |-> Q, cache |-> prefix_cache_reap_host_copies(d, R)]
<1>1. req' = R BY DEF Complete, Ended
<1>2. IF ids = {} THEN pool' = Q /\ cache' = s /\ recycled' = recycled
      ELSE recycled' = Recycled(recycled, d, R) /\ prefix_cache_enforce_budgets(B, R)
  BY DEF Complete, Ended, prefix_cache_release
<1> HIDE DEF R, Q, B
<1>3. Listed(s) /\ s \in Seq(Entry) /\ Good(C.pool, ToSet(s), req, holds, state, recycled)
  BY DEF Sound, Listed
<1>4. Counted(ToSet(s), req) /\ Unique(ToSet(s)) /\ ToSet(s) \in SUBSET Entry
  BY <1>3 DEF Good, Held, Types
<1> HIDE DEF s, ids
<1>5. CASE ids = {}
  <2>1. pool' = Q /\ cache' = s /\ recycled' = recycled BY <1>2, <1>5
  <2>2. \A e \in ToSet(s) : Recount(e, e) /\ e.id \notin req[r].lease
    BY <1>5 DEF Recount, Like, ids
  <2>3. Good(Q, ToSet(s), R, holds, state, recycled)
    BY <1>3, <1>4, <2>2, EndKeeps DEF Q, R
  <2>4. Q.pins = C.pool.pins
    <3>1. C.pool \in Pool /\ Stack(C.pool) /\ req \in [Requests -> Request] /\ r \in Requests
      BY <1>3 DEF Good, Types, Live
    <3>2. req[r].borrowed <= Len(req[r].table) BY <1>3 DEF Good, Holdings
    <3>3. OwnedPages(req[r]) \in Seq(Pages) BY <3>1, <3>2, OwnedIs
    <3>4. QED BY <3>1, <3>3, ReleaseIs DEF Q
  <2>5. Tight(C.pool, s) => Tight(pool', cache') BY <2>1, <2>4, SameFits
  <2>6. QED BY <1>1, <1>3, <2>1, <2>3, <2>5 DEF Fits, s
<1>6. CASE ids # {}
  <2>1. recycled' = Recycled(recycled, d, R) /\ prefix_cache_enforce_budgets(B, R)
    BY <1>2, <1>6
  <2>2. DOMAIN s = 1 .. Len(s) /\ Len(s) \in Nat BY <1>3
  <2>3. DOMAIN d = 1 .. Len(s) /\ d = [i \in 1 .. Len(s) |-> d[i]]
        /\ \A i \in 1 .. Len(s) :
             d[i] = IF s[i].id \in ids THEN [s[i] EXCEPT !.refs = @ - 1] ELSE s[i]
    BY <2>2
  <2> HIDE DEF d
  <2>4. ASSUME NEW i \in 1 .. Len(s)
        PROVE  /\ s[i] \in ToSet(s) /\ d[i] \in Entry /\ Recount(s[i], d[i])
               /\ d[i].refs = IF s[i].id \in req[r].lease THEN s[i].refs - 1 ELSE s[i].refs
    <3>1. s[i] \in ToSet(s) /\ s[i] \in Entry BY <1>3, ToSetIs
    <3>2. CASE s[i].id \in ids
      <4>1. d[i] = [s[i] EXCEPT !.refs = @ - 1] BY <2>3, <3>2
      <4>2. s[i].refs \in Nat /\ s[i].refs # 0
        <5>1. s[i].refs = Cardinality(Holders(req, s[i].id)) BY <1>4, <3>1 DEF Counted
        <5>2. QED BY <3>2, <5>1, HoldersAre DEF ids
      <4>3. QED BY <3>1, <3>2, <4>1, <4>2 DEF Entry, Recount, Like, ids
    <3>3. CASE s[i].id \notin ids
      <4>1. d[i] = s[i] BY <2>3, <3>3
      <4>2. QED BY <3>1, <3>3, <4>1 DEF Recount, Like, ids
    <3>4. QED BY <3>2, <3>3
  <2>5. d \in Seq(Entry) /\ Len(d) = Len(s) BY <2>2, <2>3, <2>4
  <2>6. Listed(d) BY <1>3, <2>4, <2>5 DEF Listed, Recount, Like
  <2>7. ASSUME NEW f \in ToSet(d)
        PROVE  \E e \in ToSet(s) :
                 Recount(e, f) /\ f.refs = IF e.id \in req[r].lease THEN e.refs - 1 ELSE e.refs
    <3>1. PICK i \in 1 .. Len(d) : d[i] = f BY <2>5, ToSetIs
    <3>2. QED BY <2>4, <2>5, <3>1
  <2>8. ASSUME NEW e \in ToSet(s) PROVE \E f \in ToSet(d) : Recount(e, f)
    <3>1. PICK i \in 1 .. Len(s) : s[i] = e BY <1>3, ToSetIs
    <3>2. d[i] \in ToSet(d) BY <2>5, <3>1, ToSetIs
    <3>3. QED BY <2>4, <3>1, <3>2
  <2>9. Unique(ToSet(d)) /\ ToSet(d) \in SUBSET Entry BY <2>5, <2>6, ToSetIs, NamesDiffer DEF Unique
  <2>10. Good(Q, ToSet(d), R, holds, state, recycled)
    BY <1>3, <2>7, <2>8, <2>9, EndKeeps DEF Q, R
  <2> DEFINE t == prefix_cache_reap_host_copies(d, R)
  <2>11. Listed(t) /\ Good(Q, ToSet(t), R, holds, state, recycled')
    BY <2>1, <2>6, <2>10, ReapKeeps
  <2>12. B.pool = Q /\ B.cache = t BY DEF B
  <2> HIDE DEF t
  <2>13. B \in Caches
    <3>1. Q \in Pool /\ t \in Seq(Entry) BY <2>11 DEF Good, Types, Listed
    <3>2. QED BY <3>1 DEF B, t, Caches
  <2>14. Sound(B, R, holds, state, recycled') BY <2>11, <2>12, <2>13 DEF Sound
  <2>15. QED BY <1>1, <2>1, <2>14, EnforceKeeps
<1>7. QED BY <1>5, <1>6

-----------------------------------------------------------------------------
(* Prefill.                                                                *)

\* The pages of the table of a live request are allocated.
LEMMA TablesAllocated ==
  ASSUME NEW P, NEW E, NEW R, NEW h, NEW st, NEW rc, Good(P, E, R, h, st, rc),
         NEW r \in Live(R), NEW k \in 1 .. Len(R[r].table)
  PROVE  R[r].table[k] \in Pages /\ R[r].table[k] \in P.allocated
<1>1. /\ Types(P, E, R, h, st, rc) /\ Owners(P, E, R) /\ Held(E, R) BY DEF Good
<1>2. R[r] \in Request BY <1>1 DEF Types, Live
<1>3. R[r].table \in Seq(Pages) /\ R[r].borrowed \in Nat BY <1>2 DEF Request
<1>4. R[r].table[k] \in Pages /\ Len(R[r].table) \in Nat BY <1>3
<1>5. CASE k <= R[r].borrowed
  <2>1. k \in 1 .. R[r].borrowed BY <1>3, <1>5
  <2>2. PICK e \in E : Lists(e, R[r].table[k]) BY <1>1, <2>1 DEF Held, Covered
  <2>3. QED BY <1>1, <1>4, <2>2 DEF Owners
<1>6. CASE ~(k <= R[r].borrowed)
  <2>1. k \in R[r].borrowed + 1 .. Len(R[r].table) BY <1>3, <1>4, <1>6
  <2>2. Owns(R[r], R[r].table[k]) BY <2>1 DEF Owns
  <2>3. QED BY <1>1, <1>4, <2>2 DEF Owners
<1>7. QED BY <1>5, <1>6

\* A prefix of a prompt is a text.
LEMMA PrefixIs ==
  ASSUME NEW r \in Requests, NEW n \in 0 .. Len(Prompt[r])
  PROVE  /\ Prefix(r, n) \in Texts /\ Len(Prefix(r, n)) = n /\ Len(Prompt[r]) \in Nat
         /\ \A k \in 0 .. n : SubSeq(Prefix(r, n), 1, k) = Prefix(r, k)
<1> DEFINE S == ToSet(Prompt[r])
           q == Prompt[r]
<1>1. q \in Seq(S) BY CacheConfig
<1> HIDE DEF S, q
<1>2. Len(q) \in Nat BY <1>1
<1>3. Prefix(r, n) \in Texts BY DEF Texts
<1> DEFINE a == SubSeq(q, 1, n)
<1>4. a = Prefix(r, n) /\ n \in 0 .. Len(q) /\ Prefix(r, n) = SubSeq(q, 1, n) BY DEF Prefix, q
<1>5. a \in Seq(S) /\ Len(a) = n - 1 + 1 /\ \A i \in 1 .. n - 1 + 1 : a[i] = q[i + 1 - 1]
  <2>1. 1 \in 1 .. Len(q) + 1 /\ 1 <= n + 1 BY <1>2, <1>4
  <2>2. QED BY <1>1, <1>4, <2>1, SubSeqIs
<1>6. n - 1 + 1 = n /\ \A i \in Int : i + 1 - 1 = i OBVIOUS
<1>7. a \in Seq(S) /\ Len(a) = n /\ \A i \in 1 .. n : a[i] = q[i] BY <1>5, <1>6
<1> HIDE DEF a
<1>8. ASSUME NEW k \in 0 .. n PROVE SubSeq(a, 1, k) = Prefix(r, k)
  <2> DEFINE b == SubSeq(a, 1, k)
             c == SubSeq(q, 1, k)
  <2>1. k \in 0 .. Len(q) /\ k \in 0 .. Len(a) /\ 1 \in 1 .. Len(q) + 1 /\ 1 \in 1 .. Len(a) + 1
        /\ 1 <= k + 1
    BY <1>2, <1>4, <1>7
  <2>2. b \in Seq(S) /\ Len(b) = k - 1 + 1 /\ \A i \in 1 .. k - 1 + 1 : b[i] = a[i + 1 - 1]
    BY <1>7, <2>1, SubSeqIs
  <2>3. c \in Seq(S) /\ Len(c) = k - 1 + 1 /\ \A i \in 1 .. k - 1 + 1 : c[i] = q[i + 1 - 1]
    BY <1>1, <2>1, SubSeqIs
  <2>4. k - 1 + 1 = k /\ \A i \in Int : i + 1 - 1 = i OBVIOUS
  <2>5. c = Prefix(r, k) BY DEF Prefix, q
  <2> HIDE DEF b, c
  <2>6. Len(b) = Len(c) /\ \A i \in 1 .. Len(b) : b[i] = c[i]
    BY <1>7, <2>2, <2>3, <2>4
  <2>7. b = c BY <2>2, <2>3, <2>6, SeqEqual
  <2>8. QED BY <2>5, <2>7 DEF b
<1>9. QED BY <1>2, <1>3, <1>4, <1>7, <1>8 DEF q

\* The pool gives its top page, the page table of r grows by it and the page holds the
\* prefix that ends there.
Taken(P) == [P EXCEPT !.free = Front(@), !.allocated = @ \cup {Last(P.free)}]
Grown(R, r, p) == [R EXCEPT ![r].table = Append(R[r].table, p)]
LEMMA GrownIs ==
  ASSUME NEW R \in [Requests -> Request], NEW r \in Requests, NEW p \in Pages
  PROVE  LET S == Grown(R, r, p) IN
         /\ S \in [Requests -> Request] /\ Live(S) = Live(R)
         /\ \A q \in Requests : q # r => S[q] = R[q]
         /\ S[r].table = Append(R[r].table, p) /\ S[r].borrowed = R[r].borrowed
         /\ S[r].lease = R[r].lease /\ S[r].status = R[r].status
         /\ S[r].snapshot = R[r].snapshot /\ S[r].hit = R[r].hit /\ S[r].restored = R[r].restored
<1> DEFINE S == Grown(R, r, p)
           q == R[r]
           a == Append(q.table, p)
<1>1. q \in Request /\ q.table \in Seq(Pages) BY DEF Request
<1>2. a \in Seq(Pages) BY <1>1, AppendIs
<1> HIDE DEF a
<1>3. [q EXCEPT !.table = a] \in Request BY <1>1, <1>2 DEF Request
<1>4. S = [R EXCEPT ![r] = [q EXCEPT !.table = a]] BY DEF Grown, a
<1> HIDE DEF S
<1>5. S[r] = [q EXCEPT !.table = a] /\ \A x \in Requests : x # r => S[x] = R[x] BY <1>4
<1>6. S \in [Requests -> Request] BY <1>3, <1>4
<1>7. /\ S[r].table = a /\ S[r].borrowed = q.borrowed /\ S[r].lease = q.lease
      /\ S[r].status = q.status /\ S[r].snapshot = q.snapshot /\ S[r].hit = q.hit
      /\ S[r].restored = q.restored
  BY <1>1, <1>5 DEF Request
<1>8. Live(S) = Live(R) BY <1>5, <1>7 DEF Live
<1>9. QED BY <1>5, <1>6, <1>7, <1>8 DEF S, a

LEMMA TakeKeeps ==
  ASSUME NEW P, NEW E, NEW R, NEW h, NEW st, NEW rc, Good(P, E, R, h, st, rc),
         P.free # <<>>, NEW r \in Live(R), Len(R[r].table) < Len(Prompt[r])
  PROVE  LET p == Last(P.free) IN
         /\ p \in Pages /\ p \notin P.allocated /\ Len(R[r].table) \in Nat
         /\ Good(Taken(P), E, Grown(R, r, p),
                 [h EXCEPT ![p] = Prefix(r, Len(R[r].table) + 1)], st, rc)
<1> DEFINE p == Last(P.free)
           T == Taken(P)
           S == Grown(R, r, p)
           n == Len(R[r].table)
           g == [h EXCEPT ![p] = Prefix(r, n + 1)]
<1>0. /\ Types(P, E, R, h, st, rc) /\ Stack(P) /\ Pins(P, E) /\ Owners(P, E, R)
      /\ Counted(E, R) /\ Held(E, R) /\ Holdings(E, R, h) /\ Snapshots(E, R, st, rc)
  BY DEF Good
<1>1. /\ P \in Pool /\ E \in SUBSET Entry /\ R \in [Requests -> Request]
      /\ P.pins \in [Pages -> Nat] /\ P.allocated \in SUBSET Pages /\ P.free \in Seq(Pages)
      /\ h \in [Pages -> Texts]
  BY <1>0 DEF Types, Pool
<1>2. /\ p \in Pages /\ p \in ToSet(P.free) /\ Front(P.free) \in Seq(Pages)
      /\ IsInjective(Front(P.free)) /\ ToSet(Front(P.free)) = ToSet(P.free) \ {p}
  BY <1>0, <1>1, FrontLast DEF Stack
<1>3. p \notin P.allocated BY <1>0, <1>2 DEF Stack
<1>4. /\ T.free = Front(P.free) /\ T.allocated = P.allocated \cup {p} /\ T.pins = P.pins
      /\ T \in Pool
  BY <1>1, <1>2 DEF Taken, Pool
<1> HIDE DEF T, p
<1>5. Stack(T) BY <1>0, <1>2, <1>4 DEF Stack
<1>6. Pins(T, E) BY <1>0, <1>4 DEF Pins
<1>7. r \in Requests /\ R[r] \in Request BY <1>1 DEF Live
<1>8. /\ R[r].table \in Seq(Pages) /\ R[r].borrowed \in Nat /\ n \in Nat /\ R[r].borrowed <= n
      /\ R[r].lease \in SUBSET Requests
  <2>1. /\ R[r].table \in Seq(Pages) /\ R[r].borrowed \in Nat /\ R[r].lease \in SUBSET Requests
    BY <1>7 DEF Request
  <2>2. QED BY <1>0, <2>1 DEF Holdings
<1>9. /\ S \in [Requests -> Request] /\ Live(S) = Live(R)
      /\ \A q \in Requests : q # r => S[q] = R[q]
      /\ S[r].table = Append(R[r].table, p) /\ S[r].borrowed = R[r].borrowed
      /\ S[r].lease = R[r].lease /\ S[r].status = R[r].status
      /\ S[r].snapshot = R[r].snapshot /\ S[r].hit = R[r].hit /\ S[r].restored = R[r].restored
  BY <1>1, <1>2, <1>7, GrownIs, ZenonT(60)
<1> HIDE DEF S
<1>10. /\ Len(S[r].table) = n + 1 /\ S[r].table[n + 1] = p
       /\ \A k \in 1 .. n : S[r].table[k] = R[r].table[k]
  BY <1>2, <1>8, <1>9, AppendIs
<1> HIDE DEF n
<1>11. Owns(S[r], p) /\ \A x : Owns(S[r], x) <=> Owns(R[r], x) \/ x = p
  <2>1. n + 1 \in S[r].borrowed + 1 .. Len(S[r].table) BY <1>8, <1>9, <1>10
  <2>2. Owns(S[r], p) BY <1>10, <2>1 DEF Owns
  <2>3. ASSUME NEW x, NEW k \in R[r].borrowed + 1 .. n, R[r].table[k] = x PROVE Owns(S[r], x)
    <3>1. k \in S[r].borrowed + 1 .. Len(S[r].table) /\ k \in 1 .. n BY <1>8, <1>9, <1>10
    <3>2. QED BY <1>10, <2>3, <3>1 DEF Owns
  <2>4. ASSUME NEW x, NEW k \in S[r].borrowed + 1 .. n + 1, S[r].table[k] = x, x # p
        PROVE  k \in R[r].borrowed + 1 .. n /\ R[r].table[k] = x
    <3>1. k # n + 1 BY <1>10, <2>4
    <3>2. k \in 1 .. n /\ k \in R[r].borrowed + 1 .. n BY <1>8, <1>9, <3>1
    <3>3. QED BY <1>10, <2>4, <3>2
  <2>5. QED BY <1>10, <2>2, <2>3, <2>4 DEF Owns, n
<1>12. \A q \in Live(R) : q \in Requests BY DEF Live
<1>13. Owners(T, E, S)
  <2>1. \A e \in E : \A x \in Pages : Lists(e, x) => x \in T.allocated BY <1>0, <1>4 DEF Owners
  <2>2. ASSUME NEW q \in Live(S), NEW x \in Pages, Owns(S[q], x)
        PROVE  /\ x \in T.allocated /\ \A e \in E : ~Lists(e, x)
               /\ \A y \in Live(S) : Owns(S[y], x) => y = q
    <3>1. CASE x = p
      <4>1. \A e \in E : ~Lists(e, x) BY <1>0, <1>2, <1>3, <3>1 DEF Owners
      <4>2. \A y \in Live(R) : y # r => ~Owns(S[y], x)
        BY <1>0, <1>2, <1>3, <1>9, <1>12, <3>1 DEF Owners
      <4>3. q = r BY <1>9, <2>2, <4>2
      <4>4. QED BY <1>4, <1>9, <3>1, <4>1, <4>2, <4>3
    <3>2. CASE x # p
      <4>1. \A y \in Live(S) : Owns(S[y], x) => Owns(R[y], x) /\ y \in Live(R)
        BY <1>9, <1>11, <1>12, <3>2
      <4>2. Owns(R[q], x) /\ q \in Live(R) BY <2>2, <4>1
      <4>3. /\ x \in P.allocated /\ \A e \in E : ~Lists(e, x)
            /\ \A y \in Live(R) : Owns(R[y], x) => y = q
        BY <1>0, <4>2 DEF Owners
      <4>4. QED BY <1>4, <4>1, <4>3
    <3>3. QED BY <3>1, <3>2
  <2>3. ASSUME NEW x \in T.allocated
        PROVE  (\E e \in E : Lists(e, x)) \/ (\E q \in Live(S) : Owns(S[q], x))
    <3>1. CASE x = p BY <1>9, <1>11, <3>1
    <3>2. CASE x # p
      <4>1. x \in P.allocated BY <1>4, <3>2
      <4>2. (\E e \in E : Lists(e, x)) \/ (\E q \in Live(R) : Owns(R[q], x))
        BY <1>0, <4>1 DEF Owners
      <4>3. \A q \in Live(R) : Owns(R[q], x) => Owns(S[q], x) BY <1>9, <1>11, <1>12
      <4>4. QED BY <1>9, <4>2, <4>3
    <3>3. QED BY <3>1, <3>2
  <2>4. QED BY <2>1, <2>2, <2>3 DEF Owners
<1>14. Counted(E, S)
  <2>1. \A x : Holders(S, x) = Holders(R, x) BY <1>9, <1>12 DEF Holders
  <2>2. QED BY <1>0, <2>1 DEF Counted
<1>15. Unique(E) BY <1>0 DEF Held
<1>16. Named(E, S)
  <2>1. \A e \in E : e.id \in Requests BY <1>1 DEF Entry
  <2>2. \A e \in E : R[e.id].status # "new"
                     /\ (e.id \in Live(R) => Len(R[e.id].table) >= CommitLength(e.id))
    BY <1>0 DEF Held, Named
  <2>3. CommitLength(r) \in Int
    <3>1. Len(Prompt[r]) \in Nat /\ Guard \in Nat BY <1>7, CacheConfig, PrefixIs
    <3>2. QED BY <3>1 DEF CommitLength
  <2>4. ASSUME NEW e \in E
        PROVE  /\ S[e.id].status # "new"
               /\ e.id \in Live(S) => Len(S[e.id].table) >= CommitLength(e.id)
    <3>1. CASE e.id = r BY <1>8, <1>9, <1>10, <2>2, <2>3, <3>1, SMTT(30) DEF n
    <3>2. CASE e.id # r BY <1>9, <2>1, <2>2, <3>2
    <3>3. QED BY <3>1, <3>2
  <2>5. QED BY <2>4 DEF Named
<1>17. Covered(E, S)
  <2> SUFFICES ASSUME NEW q \in Live(S)
               PROVE  /\ \A x \in S[q].lease : \E e \in E : e.id = x
                      /\ \A k \in 1 .. S[q].borrowed :
                           \E e \in E : e.id \in S[q].lease /\ Lists(e, S[q].table[k])
                      /\ Len(S[q].table) < CommitLength(q) =>
                           \A e \in E : e.id \in S[q].lease => Len(e.pages) <= Len(S[q].table)
    BY DEF Covered
  <2>1. /\ \A x \in R[q].lease : \E e \in E : e.id = x
        /\ \A k \in 1 .. R[q].borrowed :
             \E e \in E : e.id \in R[q].lease /\ Lists(e, R[q].table[k])
        /\ Len(R[q].table) < CommitLength(q) =>
             \A e \in E : e.id \in R[q].lease => Len(e.pages) <= Len(R[q].table)
    BY <1>0, <1>9 DEF Held, Covered
  <2>2. CASE q # r
    <3>1. S[q] = R[q] BY <1>9, <1>12, <2>2
    <3>2. QED BY <2>1, <3>1
  <2>3. CASE q = r
    <3>1. \A k \in 1 .. S[q].borrowed : k \in 1 .. n BY <1>8, <1>9, <2>3
    <3>2. \A k \in 1 .. S[q].borrowed : S[q].table[k] = R[q].table[k] BY <1>10, <2>3, <3>1
    <3>3. \A k \in 1 .. S[q].borrowed :
            \E e \in E : e.id \in S[q].lease /\ Lists(e, S[q].table[k])
      BY <1>9, <2>1, <2>3, <3>2
    <3>4. ASSUME Len(S[q].table) < CommitLength(q), NEW e \in E, e.id \in S[q].lease
          PROVE  Len(e.pages) <= Len(S[q].table)
      <4>1. CommitLength(r) \in Int
        <5>1. Len(Prompt[r]) \in Nat /\ Guard \in Nat BY <1>7, CacheConfig, PrefixIs
        <5>2. QED BY <5>1 DEF CommitLength
      <4>2. Len(R[q].table) < CommitLength(q) BY <1>8, <1>10, <2>3, <3>4, <4>1 DEF n
      <4>3. Len(e.pages) <= n BY <1>9, <2>1, <2>3, <3>4, <4>2 DEF n
      <4>4. e.pages \in Seq(Pages) BY <1>1 DEF Entry
      <4>5. Len(e.pages) \in Nat BY <4>4
      <4>6. QED BY <1>8, <1>10, <2>3, <4>3, <4>5
    <3>5. QED BY <1>9, <2>1, <2>3, <3>3, <3>4
  <2>4. QED BY <2>2, <2>3
<1>18. Held(E, S)
  <2>1. Fresh(R) /\ R[r].status # "new" BY <1>0 DEF Held, Live
  <2>2. Fresh(S) BY <1>9, <2>1 DEF Fresh
  <2>3. QED BY <1>15, <1>16, <1>17, <2>2 DEF Held
<1>19. n + 1 \in 0 .. Len(Prompt[r]) /\ Prefix(r, n + 1) \in Texts
  <2>1. Len(Prompt[r]) \in Nat BY <1>7, PrefixIs
  <2>2. n + 1 \in 0 .. Len(Prompt[r]) BY <1>8, <2>1 DEF n
  <2>3. QED BY <1>7, <2>2, PrefixIs
<1>20. g \in [Pages -> Texts] /\ g[p] = Prefix(r, n + 1) /\ \A x \in Pages : x # p => g[x] = h[x]
  BY <1>1, <1>2, <1>19
<1> HIDE DEF g
<1>21. Holdings(E, S, g)
  <2>1. ASSUME NEW e \in E
        PROVE  /\ Len(e.pages) >= 1 /\ Len(e.prefix) = Len(e.pages)
               /\ \A k \in 1 .. Len(e.pages) : g[e.pages[k]] = SubSeq(e.prefix, 1, k)
    <3>1. e.pages \in Seq(Pages) BY <1>1 DEF Entry
    <3>2. ASSUME NEW k \in 1 .. Len(e.pages) PROVE g[e.pages[k]] = SubSeq(e.prefix, 1, k)
      <4>1. e.pages[k] \in Pages /\ Lists(e, e.pages[k]) BY <3>1, ToSetIs DEF Lists
      <4>2. e.pages[k] \in P.allocated BY <1>0, <4>1 DEF Owners
      <4>3. h[e.pages[k]] = SubSeq(e.prefix, 1, k) BY <1>0 DEF Holdings
      <4>4. QED BY <1>3, <1>20, <4>1, <4>2, <4>3
    <3>3. Len(e.pages) >= 1 /\ Len(e.prefix) = Len(e.pages) BY <1>0 DEF Holdings
    <3>4. QED BY <3>2, <3>3
  <2>2. ASSUME NEW q \in Live(S)
        PROVE  /\ S[q].borrowed <= Len(S[q].table) /\ Len(S[q].table) <= Len(Prompt[q])
               /\ \A k \in 1 .. Len(S[q].table) : g[S[q].table[k]] = Prefix(q, k)
               /\ S[q].hit < Len(Prompt[q]) /\ S[q].restored = Prefix(q, S[q].hit)
    <3>0. q \in Live(R) /\ q \in Requests BY <1>9, <1>12
    <3>1. /\ R[q].borrowed <= Len(R[q].table) /\ Len(R[q].table) <= Len(Prompt[q])
          /\ \A k \in 1 .. Len(R[q].table) : h[R[q].table[k]] = Prefix(q, k)
          /\ R[q].hit < Len(Prompt[q]) /\ R[q].restored = Prefix(q, R[q].hit)
      BY <1>0, <3>0 DEF Holdings
    <3>2. ASSUME NEW k \in 1 .. Len(R[q].table) PROVE g[R[q].table[k]] = Prefix(q, k)
      <4>1. R[q].table[k] \in Pages /\ R[q].table[k] \in P.allocated
        BY <3>0, TablesAllocated
      <4>2. QED BY <1>3, <1>20, <3>1, <4>1
    <3>3. CASE q # r
      <4>1. S[q] = R[q] BY <1>9, <3>0, <3>3
      <4>2. QED BY <3>1, <3>2, <4>1
    <3>4. CASE q = r
      <4>1. ASSUME NEW k \in 1 .. n + 1 PROVE g[S[q].table[k]] = Prefix(q, k)
        <5>1. CASE k = n + 1 BY <1>10, <1>20, <3>4, <5>1
        <5>2. CASE k # n + 1
          <6>1. k \in 1 .. n BY <1>8, <5>2
          <6>2. QED BY <1>10, <3>2, <3>4, <6>1 DEF n
        <5>3. QED BY <5>1, <5>2
      <4>2. S[q].borrowed <= n + 1 /\ n + 1 <= Len(Prompt[q]) BY <1>8, <1>9, <1>19, <3>4
      <4>3. QED BY <1>9, <1>10, <3>1, <3>4, <4>1, <4>2
    <3>5. QED BY <3>3, <3>4
  <2>3. QED BY <2>1, <2>2 DEF Holdings
<1>22. Snapshots(E, S, st, rc)
  <2>1. \A q \in Requests : S[q].snapshot = R[q].snapshot BY <1>9
  <2>2. QED BY <1>0, <1>9, <2>1 DEF Snapshots, Borrowed
<1>23. Types(T, E, S, g, st, rc) BY <1>0, <1>4, <1>9, <1>20 DEF Types
<1>24. Good(T, E, S, g, st, rc)
  BY <1>5, <1>6, <1>13, <1>14, <1>18, <1>21, <1>22, <1>23 DEF Good
<1>25. QED BY <1>2, <1>3, <1>8, <1>24 DEF T, S, g, p, n

-----------------------------------------------------------------------------
(* The buffer of a new snapshot.                                           *)

\* There are more buffers than requests can name in two ways.
LEMMA SpareBuffer ==
  ASSUME NEW S, NEW f \in [Requests -> S], NEW g \in [Requests -> S]
  PROVE  \E b \in Buffers : \A r \in Requests : f[r] # b /\ g[r] # b
<1> DEFINE A == {f[r] : r \in Requests}
           B == {g[r] : r \in Requests}
<1>1. IsFiniteSet(Requests) /\ IsFiniteSet(Buffers) /\ Cardinality(Buffers) > 2 * Cardinality(Requests)
  BY CacheConfig
<1>2. f \in Surjection(Requests, A) /\ g \in Surjection(Requests, B) BY DEF Surjection
<1> HIDE DEF A, B
<1>3. IsFiniteSet(A) /\ Cardinality(A) <= Cardinality(Requests) BY <1>1, <1>2, FS_Surjection
<1>4. IsFiniteSet(B) /\ Cardinality(B) <= Cardinality(Requests) BY <1>1, <1>2, FS_Surjection
<1>5. /\ IsFiniteSet(A \cup B) /\ IsFiniteSet(A \cap B)
      /\ Cardinality(A \cup B) = Cardinality(A) + Cardinality(B) - Cardinality(A \cap B)
  <2>1. A \cap B \in SUBSET A OBVIOUS
  <2>2. QED BY <1>3, <1>4, <2>1, FS_Union, FS_Subset
<1>6. /\ Cardinality(A) \in Nat /\ Cardinality(B) \in Nat /\ Cardinality(A \cap B) \in Nat
      /\ Cardinality(Requests) \in Nat /\ Cardinality(Buffers) \in Nat
  BY <1>1, <1>3, <1>4, <1>5, FS_CardinalityType
<1>7. Cardinality(A \cup B) < Cardinality(Buffers) BY <1>1, <1>3, <1>4, <1>5, <1>6
<1>8. ~(Buffers \subseteq A \cup B)
  <2> SUFFICES ASSUME Buffers \subseteq A \cup B PROVE FALSE OBVIOUS
  <2> DEFINE U == A \cup B
  <2>1. Buffers \in SUBSET U /\ IsFiniteSet(U) BY <1>5
  <2> HIDE DEF U
  <2>2. Cardinality(Buffers) <= Cardinality(U) BY <2>1, FS_Subset
  <2>3. Cardinality(U) \in Nat BY <2>1, FS_CardinalityType
  <2>4. QED BY <1>6, <1>7, <2>2, <2>3 DEF U
<1>9. PICK b \in Buffers : b \notin A \cup B BY <1>8
<1>10. QED BY <1>9 DEF A, B

\* The next buffer is neither an entry's nor a borrower's.
LEMMA NextBufferIs ==
  ASSUME IInv
  PROVE  /\ NextBuffer \in Buffers /\ NextBuffer # None /\ ~Borrowed(NextBuffer, req)
         /\ \A e \in ToSet(cache) : e.gpu # NextBuffer
<1> DEFINE E == ToSet(cache)
           S == Buffers \cup {None}
           Has(x) == \E e \in E : e.id = x
           f == [x \in Requests |-> IF Has(x) THEN (CHOOSE e \in E : e.id = x).gpu ELSE None]
           g == [x \in Requests |-> req[x].snapshot]
           Spare(b) == (\A i \in DOMAIN cache : cache[i].gpu # b) /\ ~Borrowed(b, req)
<1>1. /\ cache \in Seq(Entry) /\ DOMAIN cache = 1 .. Len(cache)
      /\ Types(pool, E, req, holds, state, recycled) /\ Unique(E)
      /\ Snapshots(E, req, state, recycled)
  BY DEF IInv, Listed, Good, Held
<1>2. recycled \in S /\ E \in SUBSET Entry /\ req \in [Requests -> Request] BY <1>1 DEF Types
<1>3. \A e \in E : e.gpu \in S /\ e.id \in Requests BY <1>2 DEF Entry
<1>4. \A e \in E : f[e.id] = e.gpu
  <2> SUFFICES ASSUME NEW e \in E PROVE f[e.id] = e.gpu OBVIOUS
  <2> DEFINE d == CHOOSE d \in E : d.id = e.id
  <2>1. d \in E /\ d.id = e.id OBVIOUS
  <2>2. d = e BY <1>1, <2>1 DEF Unique
  <2>3. Has(e.id) /\ e.id \in Requests BY <1>3
  <2>4. f[e.id] = d.gpu BY <2>3
  <2>5. QED BY <2>2, <2>4
<1>5. f \in [Requests -> S]
  <2>1. \A x \in Requests : Has(x) => (CHOOSE e \in E : e.id = x) \in E OBVIOUS
  <2>2. QED BY <1>3, <2>1
<1>6. g \in [Requests -> S]
  <2>1. \A q \in Request : q.snapshot \in S BY DEF Request
  <2>2. QED BY <1>2, <2>1
<1>7. \E b \in Buffers : \A r \in Requests : f[r] # b /\ g[r] # b
  <2> HIDE DEF f, g, S
  <2>1. QED BY <1>5, <1>6, SpareBuffer
<1>8. PICK b \in Buffers : \A r \in Requests : f[r] # b /\ g[r] # b BY <1>7
<1>9. \A r \in Requests : req[r].snapshot # b BY <1>8
<1> HIDE DEF f, g
<1>10. \A i \in 1 .. Len(cache) : cache[i] \in E BY <1>1, ToSetIs
<1>11. Spare(b)
  <2>1. \A e \in E : e.gpu # b BY <1>3, <1>4, <1>8
  <2>2. QED BY <1>1, <1>9, <1>10, <2>1 DEF Borrowed
<1>12. \A e \in E : \E i \in 1 .. Len(cache) : cache[i] = e BY <1>1, ToSetIs
<1> HIDE DEF E
<1>13. CASE recycled # None
  <2>1. NextBuffer = recycled /\ recycled \in Buffers BY <1>2, <1>13 DEF NextBuffer
  <2>2. QED BY <1>1, <1>13, <2>1 DEF Snapshots, E
<1>14. CASE recycled = None
  <2> DEFINE c == CHOOSE c \in Buffers : Spare(c)
  <2>1. NextBuffer = c BY <1>14 DEF NextBuffer
  <2>2. c \in Buffers /\ Spare(c) BY <1>11
  <2> HIDE DEF c
  <2>3. c # None BY <2>2, CacheConfig
  <2>4. \A e \in E : e.gpu # c BY <1>1, <1>12, <2>2
  <2>5. QED BY <2>1, <2>2, <2>3, <2>4 DEF E
<1>15. QED BY <1>13, <1>14

-----------------------------------------------------------------------------
(* The start of a request.                                                 *)

\* A request starts with nothing but, perhaps, a borrowed snapshot.
Begun(R, r, sn) == [R EXCEPT ![r] = [New EXCEPT !.status = "active", !.snapshot = sn]]
LEMMA BegunIs ==
  ASSUME NEW R \in [Requests -> Request], NEW r \in Requests, R[r].status = "new",
         NEW sn \in Buffers \cup {None}
  PROVE  LET S == Begun(R, r, sn) IN
         /\ S \in [Requests -> Request] /\ Live(S) = Live(R) \cup {r} /\ r \notin Live(R)
         /\ \A q \in Requests : q # r => S[q] = R[q]
         /\ S[r].table = <<>> /\ S[r].borrowed = 0 /\ S[r].lease = {} /\ S[r].status = "active"
         /\ S[r].snapshot = sn /\ S[r].hit = 0 /\ S[r].restored = <<>>
<1> DEFINE S == Begun(R, r, sn)
           b == [New EXCEPT !.status = "active", !.snapshot = sn]
<1>1. <<>> \in Texts BY DEF Texts
<1>2. b \in Request
  <2>1. <<>> \in Seq(Pages) OBVIOUS
  <2>2. QED BY <1>1, <2>1 DEF New, Request
<1>3. /\ b.table = <<>> /\ b.borrowed = 0 /\ b.lease = {} /\ b.status = "active"
      /\ b.snapshot = sn /\ b.hit = 0 /\ b.restored = <<>>
  BY DEF New
<1>4. S = [R EXCEPT ![r] = b] BY DEF Begun
<1> HIDE DEF S, b
<1>5. S \in [Requests -> Request] /\ S[r] = b /\ \A q \in Requests : q # r => S[q] = R[q]
  BY <1>2, <1>4
<1>6. Live(S) = Live(R) \cup {r} /\ r \notin Live(R) BY <1>3, <1>5 DEF Live
<1>7. QED BY <1>3, <1>5, <1>6 DEF S

LEMMA BeginKeeps ==
  ASSUME NEW P, NEW E, NEW R, NEW h, NEW st, NEW rc, Good(P, E, R, h, st, rc),
         NEW r \in Requests, R[r].status = "new", NEW sn \in Buffers \cup {None},
         sn # None => sn # rc /\ \E n \in 1 .. Len(Prompt[r]) : st[sn] = Prefix(r, n)
  PROVE  Good(P, E, Begun(R, r, sn), h, st, rc) /\ \A e \in E : e.id # r
<1> DEFINE S == Begun(R, r, sn)
<1>0. /\ Types(P, E, R, h, st, rc) /\ Stack(P) /\ Pins(P, E) /\ Owners(P, E, R)
      /\ Counted(E, R) /\ Held(E, R) /\ Holdings(E, R, h) /\ Snapshots(E, R, st, rc)
  BY DEF Good
<1>1. R \in [Requests -> Request] /\ E \in SUBSET Entry BY <1>0 DEF Types
<1>2. /\ S \in [Requests -> Request] /\ Live(S) = Live(R) \cup {r} /\ r \notin Live(R)
      /\ \A q \in Requests : q # r => S[q] = R[q]
      /\ S[r].table = <<>> /\ S[r].borrowed = 0 /\ S[r].lease = {} /\ S[r].status = "active"
      /\ S[r].snapshot = sn /\ S[r].hit = 0 /\ S[r].restored = <<>>
  BY <1>1, BegunIs
<1> HIDE DEF S
<1>3. \A e \in E : e.id # r BY <1>0 DEF Held, Named
<1>4. \A q \in Live(R) : q \in Requests /\ q # r /\ S[q] = R[q] BY <1>2 DEF Live
<1>5. \A p : ~Owns(S[r], p)
  <2>1. Len(S[r].table) = 0 BY <1>2
  <2>2. QED BY <1>2, <2>1 DEF Owns
<1>6. \A q \in Live(S) : \A p : Owns(S[q], p) => q \in Live(R) /\ Owns(R[q], p)
  BY <1>2, <1>4, <1>5
<1>7. Owners(P, E, S)
  <2>1. ASSUME NEW q \in Live(S), NEW p \in Pages, Owns(S[q], p)
        PROVE  /\ p \in P.allocated /\ \A e \in E : ~Lists(e, p)
               /\ \A x \in Live(S) : Owns(S[x], p) => x = q
    <3>1. q \in Live(R) /\ Owns(R[q], p) BY <1>6, <2>1
    <3>2. /\ p \in P.allocated /\ \A e \in E : ~Lists(e, p)
          /\ \A x \in Live(R) : Owns(R[x], p) => x = q
      BY <1>0, <3>1 DEF Owners
    <3>3. QED BY <1>6, <3>2
  <2>2. ASSUME NEW p \in P.allocated
        PROVE  (\E e \in E : Lists(e, p)) \/ (\E q \in Live(S) : Owns(S[q], p))
    <3>1. (\E e \in E : Lists(e, p)) \/ (\E q \in Live(R) : Owns(R[q], p)) BY <1>0 DEF Owners
    <3>2. QED BY <1>2, <1>4, <3>1
  <2>3. QED BY <1>0, <2>1, <2>2 DEF Owners
<1>8. Counted(E, S)
  <2>1. \A x : Holders(S, x) = Holders(R, x) BY <1>2, <1>4 DEF Holders
  <2>2. QED BY <1>0, <2>1 DEF Counted
<1>9. Named(E, S)
  <2>1. \A e \in E : e.id \in Requests BY <1>1 DEF Entry
  <2>2. \A e \in E : S[e.id] = R[e.id] /\ (e.id \in Live(S) => e.id \in Live(R))
    BY <1>2, <1>3, <2>1
  <2>3. QED BY <1>0, <2>2 DEF Held, Named
<1>10. Covered(E, S)
  <2> SUFFICES ASSUME NEW q \in Live(S)
               PROVE  /\ \A x \in S[q].lease : \E e \in E : e.id = x
                      /\ \A k \in 1 .. S[q].borrowed :
                           \E e \in E : e.id \in S[q].lease /\ Lists(e, S[q].table[k])
                      /\ Len(S[q].table) < CommitLength(q) =>
                           \A e \in E : e.id \in S[q].lease => Len(e.pages) <= Len(S[q].table)
    BY DEF Covered
  <2>1. CASE q = r BY <1>2, <2>1
  <2>2. CASE q # r
    <3>1. q \in Live(R) /\ S[q] = R[q] BY <1>2, <1>4, <2>2
    <3>2. QED BY <1>0, <3>1 DEF Held, Covered
  <2>3. QED BY <2>1, <2>2
<1>11. Held(E, S)
  <2>1. Fresh(R) /\ Unique(E) BY <1>0 DEF Held
  <2>2. Fresh(S) BY <1>2, <2>1 DEF Fresh
  <2>3. QED BY <1>9, <1>10, <2>1, <2>2 DEF Held
<1>12. Holdings(E, S, h)
  <2>1. ASSUME NEW q \in Live(S)
        PROVE  /\ S[q].borrowed <= Len(S[q].table) /\ Len(S[q].table) <= Len(Prompt[q])
               /\ \A k \in 1 .. Len(S[q].table) : h[S[q].table[k]] = Prefix(q, k)
               /\ S[q].hit < Len(Prompt[q]) /\ S[q].restored = Prefix(q, S[q].hit)
    <3>1. CASE q = r
      <4>1. Len(S[q].table) = 0 BY <1>2, <3>1
      <4>2. Len(Prompt[r]) \in Nat /\ Len(Prompt[r]) # 0
        <5>1. Prompt[r] \in Seq(ToSet(Prompt[r])) /\ Prompt[r] # <<>> BY CacheConfig
        <5>2. QED BY <5>1
      <4>3. Prefix(r, 0) = <<>>
        <5>1. SubSeq(Prompt[r], 1, 0) = <<>> OBVIOUS
        <5>2. QED BY <5>1 DEF Prefix
      <4>4. QED BY <1>2, <3>1, <4>1, <4>2, <4>3
    <3>2. CASE q # r
      <4>1. q \in Live(R) /\ S[q] = R[q] BY <1>2, <1>4, <3>2
      <4>2. QED BY <1>0, <4>1 DEF Holdings
    <3>3. QED BY <3>1, <3>2
  <2>2. QED BY <1>0, <2>1 DEF Holdings
<1>13. Snapshots(E, S, st, rc)
  <2>1. rc # None => ~Borrowed(rc, S) BY <1>0, <1>2 DEF Snapshots, Borrowed
  <2>2. ASSUME NEW q \in Requests, S[q].snapshot # None
        PROVE  q \in Live(S) /\ \E n \in 1 .. Len(Prompt[q]) : st[S[q].snapshot] = Prefix(q, n)
    <3>1. CASE q = r BY <1>2, <2>2, <3>1
    <3>2. CASE q # r
      <4>1. S[q] = R[q] BY <1>2, <3>2
      <4>2. QED BY <1>0, <1>2, <2>2, <4>1 DEF Snapshots
    <3>3. QED BY <3>1, <3>2
  <2>3. QED BY <1>0, <2>1, <2>2 DEF Snapshots
<1>14. Types(P, E, S, h, st, rc) BY <1>0, <1>2 DEF Types
<1>15. Good(P, E, S, h, st, rc)
  BY <1>0, <1>7, <1>8, <1>11, <1>12, <1>13, <1>14 DEF Good
<1>16. QED BY <1>3, <1>15 DEF S

\* A snapshot is brought back from the host into a buffer that nobody refers to.
OnDevice(e, b) == [e EXCEPT !.gpu = b]
Put(st, b, c) == [st EXCEPT ![b] = c]
LEMMA RestoreKeeps ==
  ASSUME NEW P, NEW E, NEW R, NEW h, NEW st, NEW rc, Good(P, E, R, h, st, rc),
         NEW e \in E, e.gpu = None, NEW b \in Buffers, ~Borrowed(b, R), \A d \in E : d.gpu # b
  PROVE  LET f == OnDevice(e, b) IN
         /\ f \in Entry /\ f.id = e.id /\ f.pages = e.pages /\ f.prefix = e.prefix
         /\ f.gpu = b /\ ~f.copying /\ f.refs = e.refs
         /\ Good(P, (E \ {e}) \cup {f}, R, h, Put(st, b, e.host), None)
<1> DEFINE f == OnDevice(e, b)
           F == (E \ {e}) \cup {f}
           su == Put(st, b, e.host)
<1>0. /\ Types(P, E, R, h, st, rc) /\ Stack(P) /\ Pins(P, E) /\ Owners(P, E, R)
      /\ Counted(E, R) /\ Held(E, R) /\ Holdings(E, R, h) /\ Snapshots(E, R, st, rc)
  BY DEF Good
<1>1. E \in SUBSET Entry /\ e \in Entry /\ st \in [Buffers -> Texts] BY <1>0 DEF Types
<1>2. b # None BY CacheConfig
<1>3. /\ e.copying => e.gpu # None
      /\ e.prefix = IF e.gpu # None THEN st[e.gpu] ELSE e.host
  BY <1>0 DEF Snapshots
<1>4. e.host = e.prefix /\ ~e.copying BY <1>3
<1>5. f \in Entry /\ Alike(e, f) /\ f.gpu = b /\ f.host = e.host /\ f.copying = e.copying
  BY <1>1 DEF Entry, Alike, Like, OnDevice
<1>6. f.id = e.id /\ f.pages = e.pages /\ f.prefix = e.prefix /\ f.refs = e.refs
  BY <1>5 DEF Alike, Like
<1>7. su \in [Buffers -> Texts] /\ su[b] = e.prefix /\ \A x \in Buffers : x # b => su[x] = st[x]
  <2>1. e.prefix \in Texts BY <1>1 DEF Entry
  <2>2. QED BY <1>1, <1>4, <2>1 DEF Put
<1> HIDE DEF f, su
<1>8. F \in SUBSET Entry BY <1>1, <1>5
<1>9. \A d \in F : d = f \/ (d \in E /\ d # e) OBVIOUS
<1>10. Unique(F) BY <1>0, <1>6, <1>9 DEF Held, Unique
<1>11. (\A d \in F : \E g \in E : Alike(g, d)) /\ (\A g \in E : \E d \in F : Alike(g, d))
  BY <1>5 DEF Alike, Like
<1> HIDE DEF F
<1>12. (\A d \in F : \E g \in E : Like(g, d)) /\ (\A g \in E : \E d \in F : Like(g, d))
  BY <1>11 DEF Alike
<1>13. Pins(P, F) /\ Owners(P, F, R) /\ Held(F, R) /\ Holdings(F, R, h)
  BY <1>0, <1>10, <1>12, LikeKeeps, ZenonT(60)
<1>14. Counted(F, R) BY <1>0, <1>11 DEF Counted, Alike, Like
<1>15. Snapshots(F, R, su, None)
  <2>1. ASSUME NEW d \in F, NEW g \in F, d.gpu # None, d.gpu = g.gpu PROVE d = g
    BY <1>0, <1>5, <1>9, <2>1 DEF Snapshots
  <2>2. ASSUME NEW d \in F
        PROVE  /\ d.copying => d.gpu # None
               /\ d.host = None \/ d.host = d.prefix
               /\ d.prefix = IF d.gpu # None THEN su[d.gpu] ELSE d.host
    <3>1. CASE d = f BY <1>2, <1>4, <1>5, <1>6, <1>7, <3>1
    <3>2. CASE d # f
      <4>1. d \in E BY <1>9, <3>2
      <4>2. /\ d.copying => d.gpu # None
            /\ d.host = None \/ d.host = d.prefix
            /\ d.prefix = IF d.gpu # None THEN st[d.gpu] ELSE d.host
        BY <1>0, <4>1 DEF Snapshots
      <4>3. d.gpu \in Buffers \cup {None} /\ d.gpu # b BY <1>1, <4>1 DEF Entry
      <4>4. QED BY <1>7, <4>2, <4>3
    <3>3. QED BY <3>1, <3>2
  <2>3. ASSUME NEW r \in Requests, R[r].snapshot # None
        PROVE  r \in Live(R) /\ \E n \in 1 .. Len(Prompt[r]) : su[R[r].snapshot] = Prefix(r, n)
    <3>1. R[r].snapshot # b BY DEF Borrowed
    <3>2. R[r] \in Request BY <1>0 DEF Types
    <3>3. R[r].snapshot \in Buffers BY <2>3, <3>2 DEF Request
    <3>4. su[R[r].snapshot] = st[R[r].snapshot] BY <1>7, <3>1, <3>3
    <3>5. QED BY <1>0, <2>3, <3>4 DEF Snapshots
  <2>4. QED BY <2>1, <2>2, <2>3 DEF Snapshots
<1>16. Types(P, F, R, h, su, None) BY <1>0, <1>7, <1>8 DEF Types, F
<1>17. Good(P, F, R, h, su, None) BY <1>0, <1>13, <1>14, <1>15, <1>16 DEF Good
<1>18. QED BY <1>4, <1>5, <1>6, <1>17 DEF f, F, su

\* A request takes a reference to an entry: the count of the entry follows.
Referred(e) == [e EXCEPT !.refs = @ + 1]
Uncounted(P, E, R, h, st, rc) ==
  /\ Types(P, E, R, h, st, rc) /\ Stack(P) /\ Pins(P, E) /\ Owners(P, E, R)
  /\ Held(E, R) /\ Holdings(E, R, h) /\ Snapshots(E, R, st, rc)
Leases(R, S, r, x) ==
  /\ r \in Live(R) /\ Live(S) = Live(R) /\ \A q \in Requests : q # r => S[q] = R[q]
  /\ x \notin R[r].lease /\ S[r].lease = R[r].lease \cup {x}
LEMMA LeaseKeeps ==
  ASSUME NEW P, NEW E, NEW R, NEW S, NEW h, NEW st, NEW rc, Counted(E, R),
         Uncounted(P, E, S, h, st, rc), NEW e \in E, NEW r, Leases(R, S, r, e.id)
  PROVE  LET f == Referred(e) IN
         f \in Entry /\ f.id = e.id /\ Good(P, (E \ {e}) \cup {f}, S, h, st, rc)
<1> DEFINE f == Referred(e)
           F == (E \ {e}) \cup {f}
<1>0. /\ Types(P, E, S, h, st, rc) /\ Stack(P) /\ Pins(P, E) /\ Owners(P, E, S)
      /\ Held(E, S) /\ Holdings(E, S, h) /\ Snapshots(E, S, st, rc)
      /\ r \in Live(R) /\ Live(S) = Live(R) /\ \A q \in Requests : q # r => S[q] = R[q]
      /\ e.id \notin R[r].lease /\ S[r].lease = R[r].lease \cup {e.id}
  BY DEF Uncounted, Leases
<1>1. E \in SUBSET Entry /\ e \in Entry BY <1>0 DEF Types
<1>2. e.refs \in Nat BY <1>1 DEF Entry
<1>3. f \in Entry /\ Recount(e, f) /\ f.refs = e.refs + 1 BY <1>1, <1>2 DEF Entry, Recount, Like, Referred
<1> HIDE DEF f
<1>4. f.id = e.id /\ \A d : Recount(d, d) BY <1>3 DEF Recount, Like
<1>5. F \in SUBSET Entry /\ \A d \in F : d = f \/ (d \in E /\ d # e) BY <1>1, <1>3
<1>6. Unique(E) BY <1>0 DEF Held
<1>7. Unique(F) BY <1>4, <1>5, <1>6 DEF Unique
<1>8. (\A d \in F : \E g \in E : Recount(g, d)) /\ (\A g \in E : \E d \in F : Recount(g, d))
  BY <1>3, <1>4
<1> HIDE DEF F
<1>9. \A q \in Live(R) : q \in Requests BY DEF Live
<1>10. Counted(F, S)
  <2> SUFFICES ASSUME NEW d \in F PROVE d.refs = Cardinality(Holders(S, d.id)) BY DEF Counted
  <2>1. CASE d = f
    <3>1. Holders(S, d.id) = Holders(R, e.id) \cup {r} BY <1>0, <1>4, <1>9, <2>1 DEF Holders
    <3>2. r \notin Holders(R, e.id) BY <1>0 DEF Holders
    <3>3. IsFiniteSet(Holders(R, e.id)) BY HoldersAre
    <3>4. Cardinality(Holders(S, d.id)) = Cardinality(Holders(R, e.id)) + 1
      BY <3>1, <3>2, <3>3, FS_AddElement
    <3>5. e.refs = Cardinality(Holders(R, e.id)) BY DEF Counted
    <3>6. QED BY <1>3, <2>1, <3>4, <3>5
  <2>2. CASE d # f
    <3>1. d \in E /\ d # e /\ d.id # e.id BY <1>5, <1>6, <2>2 DEF Unique
    <3>2. Holders(S, d.id) = Holders(R, d.id) BY <1>0, <1>9, <3>1 DEF Holders
    <3>3. QED BY <3>1, <3>2 DEF Counted
  <2>3. QED BY <2>1, <2>2
<1>11. Good(P, F, S, h, st, rc) BY <1>0, <1>5, <1>7, <1>8, <1>10, RecountKeeps
<1>12. QED BY <1>3, <1>4, <1>11 DEF F, f

\* The executor adopts the pages and the state of the entry.
Seeded(R, r, e, c) ==
  [R EXCEPT ![r] = [R[r] EXCEPT !.table = e.pages, !.borrowed = Len(e.pages), !.lease = {e.id},
                                !.hit = Len(e.pages), !.restored = c]]
LEMMA SeededIs ==
  ASSUME NEW R \in [Requests -> Request], NEW r \in Live(R), NEW e \in Entry
  PROVE  LET S == Seeded(R, r, e, e.prefix) IN
         /\ S \in [Requests -> Request] /\ Live(S) = Live(R)
         /\ \A q \in Requests : q # r => S[q] = R[q]
         /\ S[r].table = e.pages /\ S[r].borrowed = Len(e.pages) /\ S[r].lease = {e.id}
         /\ S[r].snapshot = R[r].snapshot /\ S[r].hit = Len(e.pages)
         /\ S[r].restored = e.prefix /\ S[r].status = R[r].status
<1> DEFINE S == Seeded(R, r, e, e.prefix)
           q == R[r]
           d == [q EXCEPT !.table = e.pages, !.borrowed = Len(e.pages), !.lease = {e.id},
                          !.hit = Len(e.pages), !.restored = e.prefix]
<1>1. r \in Requests /\ q \in Request BY DEF Live
<1>2. e.pages \in Seq(Pages) /\ e.id \in Requests /\ e.prefix \in Texts BY DEF Entry
<1>3. Len(e.pages) \in Nat BY <1>2
<1>4. d \in Request BY <1>1, <1>2, <1>3 DEF Request
<1>5. /\ d.table = e.pages /\ d.borrowed = Len(e.pages) /\ d.lease = {e.id}
      /\ d.snapshot = q.snapshot /\ d.hit = Len(e.pages) /\ d.restored = e.prefix
      /\ d.status = q.status
  BY <1>1 DEF Request
<1>6. S = [R EXCEPT ![r] = d] BY DEF Seeded
<1> HIDE DEF S, d
<1>7. S \in [Requests -> Request] /\ S[r] = d /\ \A x \in Requests : x # r => S[x] = R[x]
  BY <1>1, <1>4, <1>6
<1>8. Live(S) = Live(R) BY <1>1, <1>5, <1>7 DEF Live
<1>9. QED BY <1>5, <1>7, <1>8 DEF S

LEMMA SeedKeeps ==
  ASSUME NEW P, NEW E, NEW R, NEW h, NEW st, NEW rc, Good(P, E, R, h, st, rc),
         NEW r \in Live(R), R[r].lease = {}, R[r].table = <<>>, R[r].borrowed = 0,
         NEW e \in E, \A d \in E : d.id # r,
         Len(e.pages) < Len(Prompt[r]), e.prefix = Prefix(r, Len(e.pages))
  PROVE  LET f == Referred(e) IN
         /\ f \in Entry /\ f.id = e.id
         /\ Good(P, (E \ {e}) \cup {f}, Seeded(R, r, e, e.prefix), h, st, rc)
<1> DEFINE S == Seeded(R, r, e, e.prefix)
<1>0. /\ Types(P, E, R, h, st, rc) /\ Stack(P) /\ Pins(P, E) /\ Owners(P, E, R)
      /\ Counted(E, R) /\ Held(E, R) /\ Holdings(E, R, h) /\ Snapshots(E, R, st, rc)
  BY DEF Good
<1>1. R \in [Requests -> Request] /\ E \in SUBSET Entry /\ e \in Entry BY <1>0 DEF Types
<1>2. e.pages \in Seq(Pages) /\ Len(e.pages) \in Nat
  <2>1. e.pages \in Seq(Pages) BY <1>1 DEF Entry
  <2>2. QED BY <2>1
<1>3. /\ S \in [Requests -> Request] /\ Live(S) = Live(R)
      /\ \A q \in Requests : q # r => S[q] = R[q]
      /\ S[r].table = e.pages /\ S[r].borrowed = Len(e.pages) /\ S[r].lease = {e.id}
      /\ S[r].snapshot = R[r].snapshot /\ S[r].hit = Len(e.pages)
      /\ S[r].restored = e.prefix /\ S[r].status = R[r].status
  BY <1>1, SeededIs
<1> HIDE DEF S
<1>4. \A q \in Live(R) : q \in Requests /\ (q # r => S[q] = R[q]) BY <1>3 DEF Live
<1>5. \A p : ~Owns(S[r], p) /\ ~Owns(R[r], p)
  <2>1. Len(R[r].table) = 0 OBVIOUS
  <2>2. \A p : ~Owns(S[r], p) BY <1>2, <1>3 DEF Owns
  <2>3. \A p : ~Owns(R[r], p) BY <2>1 DEF Owns
  <2>4. QED BY <2>2, <2>3
<1>6. \A q \in Live(R) : \A p : Owns(S[q], p) <=> Owns(R[q], p) BY <1>4, <1>5
<1>7. Owners(P, E, S) BY <1>0, <1>3, <1>6 DEF Owners
<1>8. Named(E, S)
  <2>1. \A d \in E : d.id \in Requests BY <1>1 DEF Entry
  <2>2. \A d \in E : S[d.id] = R[d.id] BY <1>3, <2>1
  <2>3. QED BY <1>0, <1>3, <2>2 DEF Held, Named
<1>9. Covered(E, S)
  <2> SUFFICES ASSUME NEW q \in Live(S)
               PROVE  /\ \A x \in S[q].lease : \E d \in E : d.id = x
                      /\ \A k \in 1 .. S[q].borrowed :
                           \E d \in E : d.id \in S[q].lease /\ Lists(d, S[q].table[k])
                      /\ Len(S[q].table) < CommitLength(q) =>
                           \A d \in E : d.id \in S[q].lease => Len(d.pages) <= Len(S[q].table)
    BY DEF Covered
  <2>1. CASE q = r
    <3>1. \A k \in 1 .. Len(e.pages) : Lists(e, e.pages[k]) BY <1>2, ToSetIs DEF Lists
    <3>2. \A d \in E : d.id \in S[q].lease => d = e BY <1>0, <1>3, <2>1 DEF Held, Unique
    <3>3. QED BY <1>2, <1>3, <2>1, <3>1, <3>2
  <2>2. CASE q # r
    <3>1. q \in Live(R) /\ S[q] = R[q] BY <1>3, <1>4, <2>2
    <3>2. QED BY <1>0, <3>1 DEF Held, Covered
  <2>3. QED BY <2>1, <2>2
<1>10. Held(E, S)
  <2>1. Fresh(R) /\ Unique(E) /\ R[r].status # "new" BY <1>0 DEF Held, Live
  <2>2. Fresh(S) BY <1>3, <2>1 DEF Fresh
  <2>3. QED BY <1>8, <1>9, <2>1, <2>2 DEF Held
<1>11. Holdings(E, S, h)
  <2>1. ASSUME NEW q \in Live(S)
        PROVE  /\ S[q].borrowed <= Len(S[q].table) /\ Len(S[q].table) <= Len(Prompt[q])
               /\ \A k \in 1 .. Len(S[q].table) : h[S[q].table[k]] = Prefix(q, k)
               /\ S[q].hit < Len(Prompt[q]) /\ S[q].restored = Prefix(q, S[q].hit)
    <3>1. CASE q = r
      <4> DEFINE n == Len(e.pages)
      <4>1. r \in Requests /\ Len(Prompt[r]) \in Nat
        <5>1. r \in Requests BY DEF Live
        <5>2. Prompt[r] \in Seq(ToSet(Prompt[r])) BY <5>1, CacheConfig
        <5>3. QED BY <5>1, <5>2
      <4>2. n \in 0 .. Len(Prompt[r]) BY <1>2, <4>1
      <4>3. \A k \in 1 .. n : SubSeq(e.prefix, 1, k) = Prefix(r, k)
        <5>1. \A k \in 0 .. n : SubSeq(Prefix(r, n), 1, k) = Prefix(r, k)
          BY <4>1, <4>2, PrefixIs
        <5>2. QED BY <1>2, <5>1
      <4>4. \A k \in 1 .. n : h[e.pages[k]] = SubSeq(e.prefix, 1, k) BY <1>0 DEF Holdings
      <4>5. \A k \in 1 .. n : h[e.pages[k]] = Prefix(r, k) BY <4>3, <4>4
      <4>6. n <= Len(Prompt[r]) BY <4>2
      <4>7. QED BY <1>2, <1>3, <3>1, <4>5, <4>6
    <3>2. CASE q # r
      <4>1. q \in Live(R) /\ S[q] = R[q] BY <1>3, <1>4, <3>2
      <4>2. QED BY <1>0, <4>1 DEF Holdings
    <3>3. QED BY <3>1, <3>2
  <2>2. QED BY <1>0, <2>1 DEF Holdings
<1>12. Snapshots(E, S, st, rc)
  <2>1. \A q \in Requests : S[q].snapshot = R[q].snapshot BY <1>3
  <2>2. QED BY <1>0, <1>3, <2>1 DEF Snapshots, Borrowed
<1>13. Types(P, E, S, h, st, rc) BY <1>0, <1>3 DEF Types
<1>14. S[r].lease = R[r].lease \cup {e.id} /\ e.id \notin R[r].lease BY <1>3
<1> DEFINE f == Referred(e)
<1>15. f \in Entry /\ f.id = e.id /\ Good(P, (E \ {e}) \cup {f}, S, h, st, rc)
  <2>1. Uncounted(P, E, S, h, st, rc)
    BY <1>0, <1>7, <1>10, <1>11, <1>12, <1>13 DEF Uncounted
  <2>2. Leases(R, S, r, e.id) BY <1>3, <1>14 DEF Leases
  <2>3. QED BY <1>0, <2>1, <2>2, LeaseKeeps
<1>16. QED BY <1>15 DEF S

\* A request takes a reference to the entry that another one committed before it.
Leased(R, r, x) == [R EXCEPT ![r].lease = @ \cup {x}]
LEMMA SameKeeps ==
  ASSUME NEW P, NEW E, NEW R, NEW h, NEW st, NEW rc, Good(P, E, R, h, st, rc),
         NEW r \in Live(R), NEW e \in E, e.id \notin R[r].lease,
         Len(R[r].table) < CommitLength(r) => Len(e.pages) <= Len(R[r].table)
  PROVE  LET f == Referred(e) IN
         /\ f \in Entry /\ f.id = e.id
         /\ Good(P, (E \ {e}) \cup {f}, Leased(R, r, e.id), h, st, rc)
<1> DEFINE S == Leased(R, r, e.id)
           d == [R[r] EXCEPT !.lease = @ \cup {e.id}]
<1>0. /\ Types(P, E, R, h, st, rc) /\ Stack(P) /\ Pins(P, E) /\ Owners(P, E, R)
      /\ Counted(E, R) /\ Held(E, R) /\ Holdings(E, R, h) /\ Snapshots(E, R, st, rc)
  BY DEF Good
<1>1. R \in [Requests -> Request] /\ E \in SUBSET Entry /\ e \in Entry BY <1>0 DEF Types
<1>2. r \in Requests /\ R[r] \in Request /\ e.id \in Requests BY <1>1 DEF Live, Entry
<1>3. /\ d \in Request /\ d.lease = R[r].lease \cup {e.id} /\ d.table = R[r].table
      /\ d.borrowed = R[r].borrowed /\ d.status = R[r].status /\ d.snapshot = R[r].snapshot
      /\ d.hit = R[r].hit /\ d.restored = R[r].restored
  BY <1>2 DEF Request
<1>4. S = [R EXCEPT ![r] = d] BY DEF Leased
<1> HIDE DEF S, d
<1>5. S \in [Requests -> Request] /\ S[r] = d /\ \A q \in Requests : q # r => S[q] = R[q]
  BY <1>1, <1>2, <1>3, <1>4
<1>6. \A q \in Requests : /\ S[q].table = R[q].table /\ S[q].borrowed = R[q].borrowed
                          /\ S[q].status = R[q].status /\ S[q].snapshot = R[q].snapshot
                          /\ S[q].hit = R[q].hit /\ S[q].restored = R[q].restored
  BY <1>3, <1>5
<1>7. Live(S) = Live(R) /\ \A q \in Live(R) : q \in Requests BY <1>6 DEF Live
<1>8. \A q \in Live(R) : \A p : Owns(S[q], p) <=> Owns(R[q], p) BY <1>6, <1>7 DEF Owns
<1>9. Owners(P, E, S) BY <1>0, <1>7, <1>8 DEF Owners
<1>10. Named(E, S)
  <2>1. \A g \in E : g.id \in Requests BY <1>1 DEF Entry
  <2>2. ASSUME NEW g \in E
        PROVE  /\ S[g.id].status # "new"
               /\ g.id \in Live(S) => Len(S[g.id].table) >= CommitLength(g.id)
    BY <1>0, <1>6, <1>7, <2>1 DEF Held, Named
  <2>3. QED BY <2>2 DEF Named
<1>11. Covered(E, S)
  <2> SUFFICES ASSUME NEW q \in Live(S)
               PROVE  /\ \A x \in S[q].lease : \E g \in E : g.id = x
                      /\ \A k \in 1 .. S[q].borrowed :
                           \E g \in E : g.id \in S[q].lease /\ Lists(g, S[q].table[k])
                      /\ Len(S[q].table) < CommitLength(q) =>
                           \A g \in E : g.id \in S[q].lease => Len(g.pages) <= Len(S[q].table)
    BY DEF Covered
  <2>1. /\ \A x \in R[q].lease : \E g \in E : g.id = x
        /\ \A k \in 1 .. R[q].borrowed :
             \E g \in E : g.id \in R[q].lease /\ Lists(g, R[q].table[k])
        /\ Len(R[q].table) < CommitLength(q) =>
             \A g \in E : g.id \in R[q].lease => Len(g.pages) <= Len(R[q].table)
    BY <1>0, <1>7 DEF Held, Covered
  <2>2. CASE q = r
    <3>1. \A g \in E : g.id \in S[q].lease => g.id \in R[q].lease \/ g = e
      BY <1>0, <1>3, <1>5, <2>2 DEF Held, Unique
    <3>2. \A x \in S[q].lease : \E g \in E : g.id = x BY <1>3, <1>5, <2>1, <2>2
    <3>3. \A g : g.id \in R[q].lease => g.id \in S[q].lease BY <1>3, <1>5, <2>2
    <3>4. \A k \in 1 .. S[q].borrowed :
            \E g \in E : g.id \in S[q].lease /\ Lists(g, S[q].table[k])
      BY <1>3, <1>5, <2>1, <2>2, <3>3
    <3>5. S[q].table = R[q].table BY <1>3, <1>5, <2>2
    <3>6. QED BY <2>1, <2>2, <3>1, <3>2, <3>4, <3>5
  <2>3. CASE q # r
    <3>1. S[q] = R[q] BY <1>5, <1>7, <2>3
    <3>2. QED BY <2>1, <3>1
  <2>4. QED BY <2>2, <2>3
<1>12. Held(E, S)
  <2>1. Fresh(R) /\ Unique(E) /\ R[r].status # "new" BY <1>0 DEF Held, Live
  <2>2. Fresh(S) BY <1>5, <1>6, <1>7, <2>1 DEF Fresh
  <2>3. QED BY <1>10, <1>11, <2>1, <2>2 DEF Held
<1>13. Holdings(E, S, h)
  <2>1. ASSUME NEW q \in Live(S)
        PROVE  /\ S[q].borrowed <= Len(S[q].table) /\ Len(S[q].table) <= Len(Prompt[q])
               /\ \A k \in 1 .. Len(S[q].table) : h[S[q].table[k]] = Prefix(q, k)
               /\ S[q].hit < Len(Prompt[q]) /\ S[q].restored = Prefix(q, S[q].hit)
    BY <1>0, <1>6, <1>7 DEF Holdings
  <2>2. QED BY <1>0, <2>1 DEF Holdings
<1>14. Snapshots(E, S, st, rc) BY <1>0, <1>6, <1>7 DEF Snapshots, Borrowed
<1>15. Types(P, E, S, h, st, rc) BY <1>0, <1>5 DEF Types
<1>16. S[r].lease = R[r].lease \cup {e.id} BY <1>3, <1>5
<1> DEFINE f == Referred(e)
<1>17. f \in Entry /\ f.id = e.id /\ Good(P, (E \ {e}) \cup {f}, S, h, st, rc)
  <2>1. Uncounted(P, E, S, h, st, rc)
    BY <1>0, <1>9, <1>12, <1>13, <1>14, <1>15 DEF Uncounted
  <2>2. Leases(R, S, r, e.id) BY <1>5, <1>7, <1>16 DEF Leases
  <2>3. QED BY <1>0, <2>1, <2>2, LeaseKeeps
<1>18. QED BY <1>17 DEF S

-----------------------------------------------------------------------------
(* The commit of a prefix.                                                 *)

\* The request gives its pages to a new entry and holds it.
Given(R, r) == [R EXCEPT ![r].borrowed = Len(R[r].table), ![r].lease = @ \cup {r}]
NewEntry(R, r, b) ==
  [id |-> r, prefix |-> Prefix(r, Len(R[r].table)), pages |-> R[r].table, refs |-> 1,
   gpu |-> b, host |-> None, copying |-> FALSE]
LEMMA GivenIs ==
  ASSUME NEW R \in [Requests -> Request], NEW r \in Live(R)
  PROVE  LET S == Given(R, r) IN
         /\ S \in [Requests -> Request] /\ Live(S) = Live(R)
         /\ \A q \in Requests : q # r => S[q] = R[q]
         /\ \A q \in Requests : /\ S[q].table = R[q].table /\ S[q].status = R[q].status
                                /\ S[q].snapshot = R[q].snapshot /\ S[q].hit = R[q].hit
                                /\ S[q].restored = R[q].restored
         /\ S[r].borrowed = Len(R[r].table) /\ S[r].lease = R[r].lease \cup {r}
<1> DEFINE S == Given(R, r)
           q == R[r]
           d == [q EXCEPT !.borrowed = Len(q.table), !.lease = @ \cup {r}]
<1>1. r \in Requests /\ q \in Request BY DEF Live
<1>2. q.table \in Seq(Pages) /\ q.lease \in SUBSET Requests BY <1>1 DEF Request
<1>3. Len(q.table) \in Nat BY <1>2
<1>4. /\ d \in Request /\ d.table = q.table /\ d.status = q.status /\ d.snapshot = q.snapshot
      /\ d.hit = q.hit /\ d.restored = q.restored /\ d.borrowed = Len(q.table)
      /\ d.lease = q.lease \cup {r}
  BY <1>1, <1>2, <1>3 DEF Request
<1>5. S = [R EXCEPT ![r] = d] BY <1>1 DEF Given
<1> HIDE DEF S, d
<1>6. S \in [Requests -> Request] /\ S[r] = d /\ \A x \in Requests : x # r => S[x] = R[x]
  BY <1>1, <1>4, <1>5
<1>7. \A x \in Requests : /\ S[x].table = R[x].table /\ S[x].status = R[x].status
                          /\ S[x].snapshot = R[x].snapshot /\ S[x].hit = R[x].hit
                          /\ S[x].restored = R[x].restored
  BY <1>4, <1>6
<1>8. Live(S) = Live(R) BY <1>7 DEF Live
<1>9. QED BY <1>4, <1>6, <1>7, <1>8 DEF S

LEMMA CommitKeeps ==
  ASSUME NEW P, NEW E, NEW R, NEW h, NEW st, NEW rc, Good(P, E, R, h, st, rc),
         NEW r \in Live(R), Len(R[r].table) >= 1, Len(R[r].table) = CommitLength(r),
         \A e \in E : e.id # r,
         NEW b \in Buffers, ~Borrowed(b, R), \A e \in E : e.gpu # b
  PROVE  LET d == NewEntry(R, r, b) IN
         /\ d \in Entry /\ d.id = r
         /\ Good(pin_pages(P, R[r].table), E \cup {d}, Given(R, r), h,
                 Put(st, b, Prefix(r, Len(R[r].table))), None)
<1> DEFINE a == R[r].table
           n == Len(a)
           d == NewEntry(R, r, b)
           S == Given(R, r)
           Q == pin_pages(P, a)
           F == E \cup {d}
           su == Put(st, b, Prefix(r, n))
<1>0. /\ Types(P, E, R, h, st, rc) /\ Stack(P) /\ Pins(P, E) /\ Owners(P, E, R)
      /\ Counted(E, R) /\ Held(E, R) /\ Holdings(E, R, h) /\ Snapshots(E, R, st, rc)
  BY DEF Good
<1>1. /\ P \in Pool /\ E \in SUBSET Entry /\ R \in [Requests -> Request]
      /\ P.pins \in [Pages -> Nat] /\ P.allocated \in SUBSET Pages /\ st \in [Buffers -> Texts]
  BY <1>0 DEF Types, Pool
<1>2. r \in Requests /\ R[r] \in Request BY <1>1 DEF Live
<1>3. a \in Seq(Pages) /\ n \in Nat /\ n >= 1 /\ n <= Len(Prompt[r])
  <2>1. a \in Seq(Pages) BY <1>2 DEF Request
  <2>2. QED BY <1>0, <2>1 DEF Holdings
<1>4. /\ Prefix(r, n) \in Texts /\ Len(Prefix(r, n)) = n
      /\ \A k \in 0 .. n : SubSeq(Prefix(r, n), 1, k) = Prefix(r, k)
  <2>1. Len(Prompt[r]) \in Nat
    <3>1. Prompt[r] \in Seq(ToSet(Prompt[r])) BY <1>2, CacheConfig
    <3>2. QED BY <3>1
  <2>2. n \in 0 .. Len(Prompt[r]) BY <1>3, <2>1
  <2>3. QED BY <1>2, <2>2, PrefixIs
<1>5. /\ S \in [Requests -> Request] /\ Live(S) = Live(R)
      /\ \A q \in Requests : q # r => S[q] = R[q]
      /\ \A q \in Requests : /\ S[q].table = R[q].table /\ S[q].status = R[q].status
                             /\ S[q].snapshot = R[q].snapshot /\ S[q].hit = R[q].hit
                             /\ S[q].restored = R[q].restored
      /\ S[r].borrowed = n /\ S[r].lease = R[r].lease \cup {r}
  BY <1>1, GivenIs
<1> HIDE DEF S
<1>6. /\ d \in Entry /\ d.id = r /\ d.prefix = Prefix(r, n) /\ d.pages = a /\ d.refs = 1
      /\ d.gpu = b /\ d.host = None /\ ~d.copying
  <2>1. d = [id |-> r, prefix |-> Prefix(r, n), pages |-> a, refs |-> 1,
             gpu |-> b, host |-> None, copying |-> FALSE]
    BY DEF NewEntry
  <2> HIDE DEF d, n, a
  <2>2. QED BY <1>2, <1>3, <1>4, <2>1 DEF Entry
<1>7. b # None BY CacheConfig
<1>8. /\ Q \in Pool /\ Q.free = P.free /\ Q.allocated = P.allocated
      /\ \A p \in Pages : Q.pins[p] = IF Lists(d, p) THEN P.pins[p] + 1 ELSE P.pins[p]
  <2> DEFINE pins == [p \in Pages |-> IF p \in ToSet(a) THEN P.pins[p] + 1 ELSE P.pins[p]]
  <2>1. pins \in [Pages -> Nat] BY <1>1
  <2>2. Q = [P EXCEPT !.pins = pins] BY DEF pin_pages
  <2> HIDE DEF d, a
  <2>3. \A p \in Pages : pins[p] = IF Lists(d, p) THEN P.pins[p] + 1 ELSE P.pins[p]
    BY <1>6 DEF Lists
  <2> HIDE DEF pins, Q
  <2>4. Q \in Pool /\ Q.free = P.free /\ Q.allocated = P.allocated /\ Q.pins = pins
    BY <1>1, <2>1, <2>2 DEF Pool
  <2>5. QED BY <2>3, <2>4
<1>9. su \in [Buffers -> Texts] /\ su[b] = Prefix(r, n) /\ \A x \in Buffers : x # b => su[x] = st[x]
  BY <1>1, <1>4 DEF Put
<1> HIDE DEF d, Q, su
<1>10. Stack(Q) BY <1>0, <1>8 DEF Stack
<1>11. F \in SUBSET Entry /\ \A e : e \in F <=> e = d \/ e \in E BY <1>1, <1>6
<1> HIDE DEF F
<1>12. \A q \in Live(R) : q \in Requests BY DEF Live
<1>13. \A p : Lists(d, p) <=> \E k \in 1 .. n : a[k] = p
  <2>1. \A p : p \in ToSet(a) <=> \E k \in 1 .. n : a[k] = p BY <1>3, ToSetIs
  <2>2. QED BY <1>6, <2>1 DEF Lists
<1>14. \A p \in Pages : Lists(d, p) => p \in P.allocated
  <2> SUFFICES ASSUME NEW p \in Pages, Lists(d, p) PROVE p \in P.allocated OBVIOUS
  <2>1. PICK k \in 1 .. n : a[k] = p BY <1>13
  <2>2. QED BY <2>1, TablesAllocated
<1>15. Pins(Q, F)
  <2> SUFFICES ASSUME NEW p \in Pages PROVE Q.pins[p] = Cardinality(Listing(F, p)) BY DEF Pins
  <2>1. P.pins[p] = Cardinality(Listing(E, p)) BY <1>0 DEF Pins
  <2>2. IsFiniteSet(Listing(E, p)) BY <1>1, ListingIs
  <2>3. CASE Lists(d, p)
    <3>1. Listing(F, p) = Listing(E, p) \cup {r} BY <1>6, <1>11, <2>3 DEF Listing
    <3>2. r \notin Listing(E, p) BY DEF Listing
    <3>3. Cardinality(Listing(F, p)) = Cardinality(Listing(E, p)) + 1
      BY <2>2, <3>1, <3>2, FS_AddElement
    <3>4. QED BY <1>8, <2>1, <2>3, <3>3
  <2>4. CASE ~Lists(d, p)
    <3>1. Listing(F, p) = Listing(E, p) BY <1>11, <2>4 DEF Listing
    <3>2. QED BY <1>8, <2>1, <2>4, <3>1
  <2>5. QED BY <2>3, <2>4
<1>16. \A p : ~Owns(S[r], p)
  <2>1. Len(S[r].table) = n /\ S[r].borrowed = n BY <1>2, <1>5
  <2>2. QED BY <1>3, <2>1 DEF Owns
<1>17. \A p \in Pages : Lists(d, p) => (\E e \in E : Lists(e, p)) \/ Owns(R[r], p)
  <2> SUFFICES ASSUME NEW p \in Pages, Lists(d, p)
               PROVE  (\E e \in E : Lists(e, p)) \/ Owns(R[r], p)
    OBVIOUS
  <2>1. PICK k \in 1 .. n : a[k] = p BY <1>13
  <2>2. R[r].borrowed \in Nat BY <1>2 DEF Request
  <2>3. CASE k <= R[r].borrowed
    <3>1. k \in 1 .. R[r].borrowed BY <2>2, <2>3
    <3>2. QED BY <1>0, <2>1, <3>1 DEF Held, Covered
  <2>4. CASE ~(k <= R[r].borrowed)
    <3>1. k \in R[r].borrowed + 1 .. n BY <1>3, <2>2, <2>4
    <3>2. QED BY <2>1, <3>1 DEF Owns
  <2>5. QED BY <2>3, <2>4
<1>18. \A p \in Pages : Owns(R[r], p) => Lists(d, p)
  <2> SUFFICES ASSUME NEW p \in Pages, Owns(R[r], p) PROVE Lists(d, p) OBVIOUS
  <2>1. PICK k \in R[r].borrowed + 1 .. n : a[k] = p BY DEF Owns
  <2>2. R[r].borrowed \in Nat BY <1>2 DEF Request
  <2>3. k \in 1 .. n BY <1>3, <2>1, <2>2
  <2>4. QED BY <1>13, <2>1, <2>3
<1>19. Owners(Q, F, S)
  <2>1. \A e \in F : \A p \in Pages : Lists(e, p) => p \in Q.allocated
    BY <1>0, <1>8, <1>11, <1>14 DEF Owners
  <2>2. \A q \in Live(S) : q # r => S[q] = R[q] /\ q \in Live(R) BY <1>5, <1>12
  <2>3. ASSUME NEW q \in Live(S), NEW p \in Pages, Owns(S[q], p)
        PROVE  /\ p \in Q.allocated /\ \A e \in F : ~Lists(e, p)
               /\ \A x \in Live(S) : Owns(S[x], p) => x = q
    <3>1. q # r /\ q \in Live(R) /\ Owns(R[q], p) BY <1>16, <2>2, <2>3
    <3>2. /\ p \in P.allocated /\ \A e \in E : ~Lists(e, p)
          /\ \A x \in Live(R) : Owns(R[x], p) => x = q
      BY <1>0, <3>1 DEF Owners
    <3>3. ~Lists(d, p) BY <1>17, <3>1, <3>2
    <3>4. QED BY <1>8, <1>11, <1>16, <2>2, <3>2, <3>3
  <2>4. ASSUME NEW p \in Q.allocated
        PROVE  (\E e \in F : Lists(e, p)) \/ (\E q \in Live(S) : Owns(S[q], p))
    <3>1. p \in P.allocated /\ p \in Pages BY <1>1, <1>8
    <3>2. (\E e \in E : Lists(e, p)) \/ (\E q \in Live(R) : Owns(R[q], p))
      BY <1>0, <3>1 DEF Owners
    <3>3. CASE \E e \in E : Lists(e, p) BY <1>11, <3>3
    <3>4. CASE Owns(R[r], p) BY <1>11, <1>18, <3>1, <3>4
    <3>5. CASE \E q \in Live(R) : q # r /\ Owns(R[q], p) BY <1>5, <2>2, <3>5
    <3>6. QED BY <3>2, <3>3, <3>4, <3>5
  <2>5. QED BY <2>1, <2>3, <2>4 DEF Owners
<1>20. Counted(F, S)
  <2> SUFFICES ASSUME NEW e \in F PROVE e.refs = Cardinality(Holders(S, e.id)) BY DEF Counted
  <2>1. \A q \in Live(R) : r \notin R[q].lease BY <1>0 DEF Held, Covered
  <2>2. CASE e = d
    <3>1. Holders(S, e.id) = {r} BY <1>5, <1>6, <1>12, <2>1, <2>2 DEF Holders
    <3>2. QED BY <1>6, <2>2, <3>1, FS_Singleton
  <2>3. CASE e \in E
    <3>1. Holders(S, e.id) = Holders(R, e.id) BY <1>5, <1>12, <2>3 DEF Holders
    <3>2. QED BY <1>0, <2>3, <3>1 DEF Counted
  <2>4. QED BY <1>11, <2>2, <2>3
<1>21. Held(F, S)
  <2>1. Fresh(R) /\ Unique(E) /\ R[r].status # "new" BY <1>0 DEF Held, Live
  <2>2. Fresh(S) BY <1>2, <1>5, <2>1 DEF Fresh
  <2>3. Unique(F) BY <1>6, <1>11, <2>1 DEF Unique
  <2>4. Named(F, S)
    <3>1. \A e \in E : e.id \in Requests BY <1>1 DEF Entry
    <3>2. Len(S[r].table) >= CommitLength(r) BY <1>2, <1>3, <1>5
    <3>3. ASSUME NEW e \in F
          PROVE  /\ S[e.id].status # "new"
                 /\ e.id \in Live(S) => Len(S[e.id].table) >= CommitLength(e.id)
      <4>1. CASE e = d BY <1>2, <1>5, <1>6, <2>1, <3>2, <4>1
      <4>2. CASE e \in E BY <1>0, <1>5, <3>1, <4>2 DEF Held, Named
      <4>3. QED BY <1>11, <4>1, <4>2
    <3>4. QED BY <3>3 DEF Named
  <2>5. Covered(F, S)
    <3> SUFFICES ASSUME NEW q \in Live(S)
                 PROVE  /\ \A x \in S[q].lease : \E e \in F : e.id = x
                        /\ \A k \in 1 .. S[q].borrowed :
                             \E e \in F : e.id \in S[q].lease /\ Lists(e, S[q].table[k])
                        /\ Len(S[q].table) < CommitLength(q) =>
                             \A e \in F : e.id \in S[q].lease => Len(e.pages) <= Len(S[q].table)
      BY DEF Covered
    <3>1. /\ \A x \in R[q].lease : \E e \in E : e.id = x
          /\ \A k \in 1 .. R[q].borrowed :
               \E e \in E : e.id \in R[q].lease /\ Lists(e, R[q].table[k])
          /\ Len(R[q].table) < CommitLength(q) =>
               \A e \in E : e.id \in R[q].lease => Len(e.pages) <= Len(R[q].table)
      BY <1>0, <1>5 DEF Held, Covered
    <3>2. CASE q = r
      <4>1. \A k \in 1 .. n : Lists(d, a[k]) BY <1>13
      <4>2. ~(Len(S[q].table) < CommitLength(q)) BY <1>2, <1>3, <1>5, <3>2
      <4>3. \A x \in S[q].lease : \E e \in F : e.id = x BY <1>5, <1>6, <1>11, <3>1, <3>2
      <4>4. S[q].borrowed = n /\ S[q].table = a /\ d.id \in S[q].lease /\ d \in F
        BY <1>2, <1>5, <1>6, <1>11, <3>2
      <4>5. QED BY <4>1, <4>2, <4>3, <4>4
    <3>3. CASE q # r
      <4>1. S[q] = R[q] BY <1>5, <1>12, <3>3
      <4>2. r \notin R[q].lease BY <3>1
      <4>3. \A e \in F : e.id \in S[q].lease => e \in E BY <1>6, <1>11, <4>1, <4>2
      <4>4. QED BY <1>11, <3>1, <4>1, <4>3
    <3>4. QED BY <3>2, <3>3
  <2>6. QED BY <2>2, <2>3, <2>4, <2>5 DEF Held
<1>22. Holdings(F, S, h)
  <2>1. ASSUME NEW q \in Live(R)
        PROVE  /\ R[q].borrowed <= Len(R[q].table) /\ Len(R[q].table) <= Len(Prompt[q])
               /\ \A k \in 1 .. Len(R[q].table) : h[R[q].table[k]] = Prefix(q, k)
               /\ R[q].hit < Len(Prompt[q]) /\ R[q].restored = Prefix(q, R[q].hit)
    BY <1>0 DEF Holdings
  <2>2. ASSUME NEW q \in Live(S)
        PROVE  /\ S[q].borrowed <= Len(S[q].table) /\ Len(S[q].table) <= Len(Prompt[q])
               /\ \A k \in 1 .. Len(S[q].table) : h[S[q].table[k]] = Prefix(q, k)
               /\ S[q].hit < Len(Prompt[q]) /\ S[q].restored = Prefix(q, S[q].hit)
    <3>1. q \in Live(R) /\ q \in Requests BY <1>5, <1>12
    <3>2. S[q].borrowed <= Len(S[q].table)
      <4>1. CASE q = r BY <1>2, <1>3, <1>5, <4>1
      <4>2. CASE q # r BY <1>5, <2>1, <3>1, <4>2
      <4>3. QED BY <4>1, <4>2
    <3>3. /\ S[q].table = R[q].table /\ S[q].hit = R[q].hit /\ S[q].restored = R[q].restored
      BY <1>5, <3>1
    <3>4. QED BY <2>1, <3>1, <3>2, <3>3
  <2>3. \A k \in 1 .. n : h[a[k]] = SubSeq(Prefix(r, n), 1, k)
    <3>1. \A k \in 1 .. n : h[a[k]] = Prefix(r, k) BY <2>1
    <3>2. \A k \in 1 .. n : k \in 0 .. n BY <1>3
    <3>3. QED BY <1>4, <3>1, <3>2
  <2>4. ASSUME NEW e \in F
        PROVE  /\ Len(e.pages) >= 1 /\ Len(e.prefix) = Len(e.pages)
               /\ \A k \in 1 .. Len(e.pages) : h[e.pages[k]] = SubSeq(e.prefix, 1, k)
    <3>1. CASE e = d BY <1>3, <1>4, <1>6, <2>3, <3>1
    <3>2. CASE e \in E BY <1>0, <3>2 DEF Holdings
    <3>3. QED BY <1>11, <3>1, <3>2
  <2>5. QED BY <2>2, <2>4 DEF Holdings
<1>23. Snapshots(F, S, su, None)
  <2>1. ASSUME NEW e \in F, NEW f \in F, e.gpu # None, e.gpu = f.gpu PROVE e = f
    BY <1>0, <1>6, <1>11, <2>1 DEF Snapshots
  <2>2. ASSUME NEW e \in F
        PROVE  /\ e.copying => e.gpu # None
               /\ e.host = None \/ e.host = e.prefix
               /\ e.prefix = IF e.gpu # None THEN su[e.gpu] ELSE e.host
    <3>1. CASE e = d BY <1>6, <1>7, <1>9, <3>1
    <3>2. CASE e \in E
      <4>1. /\ e.copying => e.gpu # None
            /\ e.host = None \/ e.host = e.prefix
            /\ e.prefix = IF e.gpu # None THEN st[e.gpu] ELSE e.host
        BY <1>0, <3>2 DEF Snapshots
      <4>2. e.gpu \in Buffers \cup {None} /\ e.gpu # b BY <1>1, <3>2 DEF Entry
      <4>3. QED BY <1>9, <4>1, <4>2
    <3>3. QED BY <1>11, <3>1, <3>2
  <2>3. ASSUME NEW q \in Requests, S[q].snapshot # None
        PROVE  q \in Live(S) /\ \E m \in 1 .. Len(Prompt[q]) : su[S[q].snapshot] = Prefix(q, m)
    <3>1. S[q].snapshot = R[q].snapshot /\ R[q].snapshot # b BY <1>5 DEF Borrowed
    <3>2. R[q] \in Request BY <1>1
    <3>3. R[q].snapshot \in Buffers BY <2>3, <3>1, <3>2 DEF Request
    <3>4. su[S[q].snapshot] = st[R[q].snapshot] BY <1>9, <3>1, <3>3
    <3>5. QED BY <1>0, <1>5, <2>3, <3>1, <3>4 DEF Snapshots
  <2>4. QED BY <2>1, <2>2, <2>3 DEF Snapshots
<1>24. Types(Q, F, S, h, su, None) BY <1>0, <1>5, <1>8, <1>9, <1>11 DEF Types
<1>25. Good(Q, F, S, h, su, None)
  BY <1>10, <1>15, <1>19, <1>20, <1>21, <1>22, <1>23, <1>24 DEF Good
<1>26. QED BY <1>6, <1>25 DEF d, Q, S, F, su

-----------------------------------------------------------------------------
(* The actions.                                                            *)

\* A hit is an entry for a proper prefix of the prompt.
LEMMA LookupIs ==
  ASSUME Listed(cache), NEW r \in Requests, prefix_cache_lookup(r) # 0
  PROVE  LET i == prefix_cache_lookup(r) IN
         /\ i \in 1 .. Len(cache) /\ Len(cache[i].pages) < Len(Prompt[r])
         /\ cache[i].prefix = Prefix(r, Len(cache[i].pages))
<1> DEFINE fits == {i \in DOMAIN cache : /\ Len(Prompt[r]) >= 2
                                         /\ Len(cache[i].pages) <= Longest(r)
                                         /\ cache[i].prefix = Prefix(r, Len(cache[i].pages))}
           Most(i) == \A j \in fits : Len(cache[i].pages) >= Len(cache[j].pages)
           short == {Longest(r) - Len(cache[j].pages) : j \in fits}
<1>1. cache \in Seq(Entry) /\ DOMAIN cache = 1 .. Len(cache) BY DEF Listed
<1>2. Len(Prompt[r]) \in Nat
  <2>1. Prompt[r] \in Seq(ToSet(Prompt[r])) BY CacheConfig
  <2>2. QED BY <2>1
<1>3. \A j \in 1 .. Len(cache) : Len(cache[j].pages) \in Nat
  <2>1. \A e \in Entry : e.pages \in Seq(Pages) BY DEF Entry
  <2>2. \A j \in 1 .. Len(cache) : cache[j].pages \in Seq(Pages) BY <1>1, <2>1
  <2>3. QED BY <2>2
<1>4. prefix_cache_lookup(r) = IF fits = {} THEN 0 ELSE CHOOSE i \in fits : Most(i)
  BY DEF prefix_cache_lookup
<1>5. fits # {} BY <1>4
<1>6. Longest(r) = Len(Prompt[r]) - 1 BY DEF Longest
<1>7. \A j \in fits : j \in 1 .. Len(cache) /\ Longest(r) - Len(cache[j].pages) \in Nat
  BY <1>1, <1>2, <1>3, <1>6
<1>8. short \in SUBSET Nat /\ short # {} BY <1>5, <1>7
<1>9. PICK m \in short : \A x \in short : m <= x
  <2> HIDE DEF short
  <2>1. QED BY <1>8, MinIs
<1>10. PICK k \in fits : m = Longest(r) - Len(cache[k].pages) BY <1>9
<1>11. Most(k)
  <2> SUFFICES ASSUME NEW j \in fits PROVE Len(cache[k].pages) >= Len(cache[j].pages) OBVIOUS
  <2>1. Longest(r) - Len(cache[k].pages) <= Longest(r) - Len(cache[j].pages) BY <1>9, <1>10
  <2>2. Longest(r) \in Int /\ Len(cache[k].pages) \in Int /\ Len(cache[j].pages) \in Int
    BY <1>2, <1>3, <1>6, <1>7
  <2>3. QED BY <2>1, <2>2
<1> DEFINE i == CHOOSE i \in fits : Most(i)
<1>12. i \in fits BY <1>11
<1>13. prefix_cache_lookup(r) = i BY <1>4, <1>5
<1> HIDE DEF i
<1>14. /\ i \in 1 .. Len(cache) /\ Len(cache[i].pages) <= Longest(r)
       /\ cache[i].prefix = Prefix(r, Len(cache[i].pages))
  BY <1>1, <1>12
<1>15. Len(cache[i].pages) < Len(Prompt[r])
  <2>1. Len(cache[i].pages) \in Nat BY <1>3, <1>14
  <2>2. QED BY <1>2, <1>6, <1>14, <2>1
<1>16. QED BY <1>13, <1>14, <1>15

\* The used entry goes to the end of the list.
LEMMA RequeueIs ==
  ASSUME NEW s, Listed(s), NEW k \in 1 .. Len(s), NEW e \in Entry, e.id = s[k].id
  PROVE  /\ Listed(Append(RemoveAt(s, k), e))
         /\ ToSet(Append(RemoveAt(s, k), e)) = (ToSet(s) \ {s[k]}) \cup {e}
         /\ Len(Append(RemoveAt(s, k), e)) = Len(s)
<1>1. /\ Listed(RemoveAt(s, k)) /\ ToSet(RemoveAt(s, k)) = ToSet(s) \ {s[k]}
      /\ Len(RemoveAt(s, k)) = Len(s) - 1
  BY RemoveAtIs
<1>2. s[k] \in ToSet(s) BY ToSetIs DEF Listed
<1>3. \A f \in ToSet(RemoveAt(s, k)) : f.id # e.id BY <1>1, <1>2, NamesDiffer
<1>4. Len(Append(RemoveAt(s, k), e)) = Len(s)
  <2>1. RemoveAt(s, k) \in Seq(Entry) /\ Len(s) \in Nat BY <1>1 DEF Listed
  <2>2. Len(Append(RemoveAt(s, k), e)) = Len(RemoveAt(s, k)) + 1 BY <2>1, AppendIs
  <2>3. QED BY <1>1, <2>1, <2>2
<1>5. QED BY <1>1, <1>3, <1>4, ListNew

\* The state of the hit, brought back to the device if need be.
Content(c) == IF c.gpu # None THEN state[c.gpu] ELSE c.host
Kept(c) == IF c.gpu = None THEN None ELSE recycled
After(c) == [state EXCEPT ![Restored(c).gpu] = Content(c)]
LEMMA RestoredIs ==
  ASSUME IInv, NEW c \in ToSet(cache)
  PROVE  LET e == Restored(c) IN
         /\ e \in Entry /\ e.id = c.id /\ e.pages = c.pages /\ e.prefix = c.prefix
         /\ e.gpu \in Buffers /\ c.prefix = Content(c) /\ After(c)[e.gpu] = Content(c)
         /\ Kept(c) # e.gpu
         /\ Good(pool, (ToSet(cache) \ {c}) \cup {e}, req, holds, After(c), Kept(c))
         /\ \A d \in (ToSet(cache) \ {c}) \cup {e} :
              d.copying /\ d.gpu # None => state[d.gpu] = After(c)[d.gpu]
<1> DEFINE e == Restored(c)
           E == ToSet(cache)
<1>1. Good(pool, E, req, holds, state, recycled) BY DEF IInv
<1>2. Types(pool, E, req, holds, state, recycled) /\ Snapshots(E, req, state, recycled)
  BY <1>1 DEF Good
<1>3. E \in SUBSET Entry /\ c \in Entry /\ state \in [Buffers -> Texts] BY <1>2 DEF Types
<1>4. \A d \in E : d.gpu \in Buffers \cup {None} BY <1>3 DEF Entry
<1>5. c.prefix = Content(c) BY <1>2 DEF Snapshots, Content
<1>6. CASE c.gpu # None
  <2>1. e = c /\ Content(c) = state[c.gpu] /\ Kept(c) = recycled /\ c.gpu \in Buffers
    BY <1>4, <1>6 DEF Restored, Content, Kept
  <2>2. After(c) = state BY <1>3, <2>1 DEF After
  <2>3. (E \ {c}) \cup {e} = E BY <2>1
  <2>4. recycled # c.gpu BY <1>2, <1>6 DEF Snapshots
  <2>5. QED BY <1>1, <1>3, <1>5, <2>1, <2>2, <2>3, <2>4
<1>7. CASE c.gpu = None
  <2> DEFINE b == NextBuffer
             f == OnDevice(c, b)
  <2>1. b \in Buffers /\ b # None /\ ~Borrowed(b, req) /\ \A d \in E : d.gpu # b BY NextBufferIs
  <2>2. e = f /\ Content(c) = c.host /\ Kept(c) = None BY <1>7 DEF Restored, Content, Kept, OnDevice
  <2> HIDE DEF b
  <2>3. /\ f \in Entry /\ f.id = c.id /\ f.pages = c.pages /\ f.prefix = c.prefix
        /\ f.gpu = b /\ ~f.copying
        /\ Good(pool, (E \ {c}) \cup {f}, req, holds, Put(state, b, c.host), None)
    BY <1>1, <1>7, <2>1, RestoreKeeps
  <2> HIDE DEF f, e
  <2>4. After(c) = Put(state, b, c.host) BY <2>2, <2>3 DEF After, e, Put
  <2>5. After(c)[b] = Content(c) /\ \A x \in Buffers : x # b => After(c)[x] = state[x]
    BY <1>3, <2>1, <2>2, <2>4 DEF Put
  <2>6. \A d \in (E \ {c}) \cup {f} : d.copying /\ d.gpu # None => state[d.gpu] = After(c)[d.gpu]
    BY <1>4, <2>1, <2>3, <2>5
  <2>7. QED BY <1>5, <2>1, <2>2, <2>3, <2>4, <2>5, <2>6 DEF e
<1>8. QED BY <1>6, <1>7

\* A step of the invariant's parts is a step of the invariant.
LEMMA ColdKeeps ==
  ASSUME IInv, NEW r \in Requests, StartCold(r)
  PROVE  IInv' /\ (Fits => Fits')
<1>1. Good(pool, ToSet(cache), req, holds, state, recycled) /\ Listed(cache) BY DEF IInv
<1>2. req[r].status = "new" /\ req' = [req EXCEPT ![r].status = "active"]
      /\ pool' = pool /\ cache' = cache /\ recycled' = recycled /\ holds' = holds /\ state' = state
  BY DEF StartCold
<1>3. Fresh(req) /\ req \in [Requests -> Request] BY <1>1 DEF Good, Held, Types
<1>4. req[r] = New BY <1>2, <1>3 DEF Fresh
<1>5. [New EXCEPT !.status = "active"] = [New EXCEPT !.status = "active", !.snapshot = None]
  <2> DEFINE a == [New EXCEPT !.status = "active"]
             c == [New EXCEPT !.status = "active", !.snapshot = None]
             D == {"status", "table", "borrowed", "lease", "snapshot", "hit", "restored"}
  <2>1. a = [x \in D |-> a[x]] /\ c = [x \in D |-> c[x]] BY DEF New
  <2>2. /\ a.status = c.status /\ a.table = c.table /\ a.borrowed = c.borrowed
        /\ a.lease = c.lease /\ a.snapshot = c.snapshot /\ a.hit = c.hit
        /\ a.restored = c.restored
    BY DEF New
  <2> HIDE DEF a, c
  <2>3. \A x \in D : a[x] = c[x] BY <2>2
  <2> HIDE DEF D
  <2>4. [x \in D |-> a[x]] = [x \in D |-> c[x]] BY <2>3
  <2>5. QED BY <2>1, <2>4 DEF a, c
<1>6. req' = Begun(req, r, None) BY <1>2, <1>3, <1>4, <1>5 DEF Begun
<1>7. Good(pool, ToSet(cache), Begun(req, r, None), holds, state, recycled)
  BY <1>1, <1>2, BeginKeeps
<1>8. QED BY <1>1, <1>2, <1>6, <1>7 DEF IInv, Fits

LEMMA HitKeeps ==
  ASSUME IInv, NEW r \in Requests, NEW seeded \in BOOLEAN, StartHit(r, seeded)
  PROVE  IInv' /\ (Fits => Fits')
<1> DEFINE i == prefix_cache_lookup(r)
           c == cache[i]
           e == Restored(c)
           E == ToSet(cache)
           F == (E \ {c}) \cup {e}
           sn == IF HostPool THEN e.gpu ELSE None
           R == Begun(req, r, sn)
<1>1. /\ req[r].status = "new" /\ i # 0 /\ holds' = holds
      /\ state' = After(c)
      /\ req' = IF seeded THEN Seeded(R, r, e, Content(c)) ELSE R
      /\ IF seeded
         THEN cache' = Append(RemoveAt(cache, i), Referred(e)) /\ recycled' = Kept(c) /\ pool' = pool
         ELSE LET s == Append(RemoveAt(cache, i), e) IN
              /\ recycled' = Recycled(Kept(c), s, R)
              /\ prefix_cache_enforce_budgets(
                   [pool |-> pool, cache |-> prefix_cache_reap_host_copies(s, R)], R)
  <2> DEFINE content == IF c.gpu # None THEN state[c.gpu] ELSE c.host
             began == [New EXCEPT !.status = "active", !.snapshot = sn]
             seed == [began EXCEPT !.table = e.pages, !.borrowed = Len(e.pages), !.lease = {e.id},
                                   !.hit = Len(e.pages), !.restored = content]
             S == [req EXCEPT ![r] = IF seeded THEN seed ELSE began]
             kept == IF c.gpu = None THEN None ELSE recycled
  <2>1. /\ req[r].status = "new" /\ i # 0 /\ holds' = holds
        /\ state' = [state EXCEPT ![e.gpu] = content]
        /\ req' = S
        /\ IF seeded
           THEN cache' = Moved(i, [e EXCEPT !.refs = @ + 1]) /\ recycled' = kept /\ pool' = pool
           ELSE /\ recycled' = Recycled(kept, Moved(i, e), S)
                /\ prefix_cache_enforce_budgets(
                     [pool |-> pool, cache |-> prefix_cache_reap_host_copies(Moved(i, e), S)], S)
    BY DEF StartHit
  <2>2. req \in [Requests -> Request] BY DEF IInv, Good, Types
  <2>3. content = Content(c) /\ kept = Kept(c) BY DEF Content, Kept
  <2> HIDE DEF i, content, kept
  <2>4. R = [req EXCEPT ![r] = began] BY DEF Begun
  <2>5. R[r] = began BY <2>2, <2>4
  <2>6. Seeded(R, r, e, content) = [R EXCEPT ![r] = seed] BY <2>5 DEF Seeded
  <2> HIDE DEF began, seed, R
  <2>7. [R EXCEPT ![r] = seed] = [req EXCEPT ![r] = seed] BY <2>2, <2>4
  <2>8. S = IF seeded THEN Seeded(R, r, e, content) ELSE R BY <2>4, <2>6, <2>7
  <2>9. state' = After(c) BY <2>1, <2>3 DEF After
  <2> HIDE DEF S
  <2>10. CASE seeded BY <2>1, <2>3, <2>8, <2>9, <2>10 DEF Moved, Referred
  <2>11. CASE ~seeded
    <3>1. S = R /\ Moved(i, e) = Append(RemoveAt(cache, i), e) BY <2>8, <2>11 DEF Moved
    <3>2. QED BY <2>1, <2>3, <2>9, <2>11, <3>1
  <2>12. QED BY <2>10, <2>11
<1>2. Listed(cache) /\ cache \in Seq(Entry) BY DEF IInv, Listed
<1>3. /\ i \in 1 .. Len(cache) /\ Len(c.pages) < Len(Prompt[r])
      /\ c.prefix = Prefix(r, Len(c.pages))
  BY <1>1, <1>2, LookupIs
<1>4. c \in E BY <1>2, <1>3, ToSetIs
<1> HIDE DEF i, E
<1>5. /\ e \in Entry /\ e.id = c.id /\ e.pages = c.pages /\ e.prefix = c.prefix
      /\ e.gpu \in Buffers /\ c.prefix = Content(c) /\ After(c)[e.gpu] = Content(c)
      /\ Kept(c) # e.gpu
      /\ Good(pool, F, req, holds, After(c), Kept(c))
      /\ \A d \in F : d.copying /\ d.gpu # None => state[d.gpu] = After(c)[d.gpu]
  BY <1>4, RestoredIs DEF E
<1> HIDE DEF c, e
<1>6. e \in F /\ Len(e.pages) \in Nat /\ Len(e.pages) >= 1
  <2>1. e.pages \in Seq(Pages) BY <1>5 DEF Entry
  <2>2. e \in F OBVIOUS
  <2>3. QED BY <1>5, <2>1, <2>2 DEF Good, Holdings
<1>7. sn \in Buffers \cup {None}
      /\ (sn # None => sn # Kept(c) /\ \E n \in 1 .. Len(Prompt[r]) : After(c)[sn] = Prefix(r, n))
  <2>1. Len(Prompt[r]) \in Nat
    <3>1. Prompt[r] \in Seq(ToSet(Prompt[r])) BY CacheConfig
    <3>2. QED BY <3>1
  <2>2. Len(e.pages) \in 1 .. Len(Prompt[r]) BY <1>3, <1>5, <1>6, <2>1
  <2>3. After(c)[e.gpu] = Prefix(r, Len(e.pages)) BY <1>3, <1>5
  <2>4. QED BY <1>5, <2>2, <2>3
<1> HIDE DEF sn, F
<1>8. Good(pool, F, R, holds, After(c), Kept(c)) /\ \A d \in F : d.id # r
  BY <1>1, <1>5, <1>7, BeginKeeps
<1>9. req \in [Requests -> Request] BY DEF IInv, Good, Types
<1>10. Live(R) = Live(req) \cup {r} /\ R[r].table = <<>> /\ R[r].borrowed = 0 /\ R[r].lease = {}
  BY <1>1, <1>7, <1>9, BegunIs
<1> HIDE DEF R
<1>11. CASE seeded
  <2> DEFINE f == Referred(e)
  <2>1. r \in Live(R) BY <1>10
  <2>2. Len(e.pages) < Len(Prompt[r]) /\ e.prefix = Prefix(r, Len(e.pages)) BY <1>3, <1>5
  <2>3. /\ f \in Entry /\ f.id = e.id
        /\ Good(pool, (F \ {e}) \cup {f}, Seeded(R, r, e, e.prefix), holds, After(c), Kept(c))
    BY <1>6, <1>8, <1>10, <2>1, <2>2, SeedKeeps
  <2> HIDE DEF f
  <2>4. F \ {e} = E \ {c}
    <3>1. \A d \in E : d.id = c.id => d = c BY <1>2, <1>4, NamesDiffer DEF E
    <3>2. QED BY <1>5, <3>1 DEF F
  <2>5. req' = Seeded(R, r, e, e.prefix) BY <1>1, <1>5, <1>11
  <2>6. cache' = Append(RemoveAt(cache, i), f) /\ recycled' = Kept(c) /\ pool' = pool
    BY <1>1, <1>11 DEF f
  <2>7. f.id = cache[i].id /\ c = cache[i] BY <1>5, <2>3 DEF c
  <2>8. Listed(cache') /\ ToSet(cache') = (E \ {c}) \cup {f}
    BY <1>2, <1>3, <2>3, <2>6, <2>7, RequeueIs DEF E
  <2>9. Fits => Fits'
    <3>1. Len(cache') = Len(cache) BY <1>2, <1>3, <2>3, <2>6, <2>7, RequeueIs
    <3>2. InUse(cache) => InUse(cache')
      <4>1. f.refs # 0 BY <1>5, <2>3 DEF f, Referred, Entry
      <4>2. QED BY <2>8, <4>1 DEF InUse, E
    <3>3. QED BY <2>6, <3>1, <3>2, SameFits DEF Fits
  <2>10. QED BY <1>1, <2>3, <2>4, <2>5, <2>6, <2>8, <2>9 DEF IInv
<1>12. CASE ~seeded
  <2> DEFINE s == Append(RemoveAt(cache, i), e)
             t == prefix_cache_reap_host_copies(s, R)
             rd == Recycled(Kept(c), s, R)
  <2>1. c = cache[i] BY DEF c
  <2>2. Listed(s) /\ ToSet(s) = F BY <1>2, <1>3, <1>5, <2>1, RequeueIs DEF E, F
  <2>3. /\ recycled' = rd /\ req' = R /\ state' = After(c) /\ holds' = holds
        /\ prefix_cache_enforce_budgets([pool |-> pool, cache |-> t], R)
    BY <1>1, <1>12
  <2> HIDE DEF s
  <2>4. \A d \in ToSet(s) : Reapable(d, R) => state[d.gpu] = After(c)[d.gpu]
    <3>1. \A d \in F : d.copying => d.gpu # None BY <1>8 DEF Good, Snapshots
    <3>2. QED BY <1>5, <2>2, <3>1 DEF Reapable
  <2>5. Listed(t) /\ Good(pool, ToSet(t), R, holds, After(c), rd)
    BY <1>8, <2>2, <2>4, ReapKeeps
  <2> HIDE DEF t, rd
  <2> DEFINE B == [pool |-> pool, cache |-> t]
  <2>6. B.pool = pool /\ B.cache = t OBVIOUS
  <2>7. B \in Caches
    <3>1. pool \in Pool /\ t \in Seq(Entry) BY <2>5 DEF Good, Types, Listed
    <3>2. QED BY <3>1 DEF Caches
  <2> HIDE DEF B
  <2>8. Sound(B, R, holds, After(c), rd) BY <2>5, <2>6, <2>7 DEF Sound
  <2>9. prefix_cache_enforce_budgets(B, R) BY <2>3 DEF B
  <2>10. Listed(cache') /\ Good(pool', ToSet(cache'), R, holds, After(c), rd) /\ Fits'
    BY <2>8, <2>9, EnforceKeeps
  <2>11. QED BY <2>3, <2>10 DEF IInv
<1>13. QED BY <1>11, <1>12

\* The state between two steps is a pool and a list.
LEMMA NowSound ==
  ASSUME IInv
  PROVE  LET C == [pool |-> pool, cache |-> cache] IN
         Sound(C, req, holds, state, recycled) /\ C.pool = pool /\ C.cache = cache
<1>1. pool \in Pool /\ cache \in Seq(Entry) BY DEF IInv, Good, Types, Listed
<1>2. QED BY <1>1 DEF IInv, Sound, Caches

LEMMA FinishKeeps ==
  ASSUME IInv, NEW r \in Requests, Finish(r) PROVE IInv' /\ (Fits => Fits')
<1> DEFINE C == [pool |-> pool, cache |-> cache]
<1>1. /\ Sound(C, req, holds, state, recycled) /\ C.pool = pool /\ C.cache = cache
  BY NowSound
<1>2. /\ r \in Live(req) /\ Complete(r, "done", C) /\ holds' = holds /\ state' = state
  BY DEF Finish, Active, Live
<1> HIDE DEF C
<1>3. /\ Listed(cache') /\ Good(pool', ToSet(cache'), req', holds, state, recycled')
      /\ Tight(C.pool, C.cache) => Fits'
  BY <1>1, <1>2, CompleteKeeps
<1>4. QED BY <1>1, <1>2, <1>3 DEF IInv, Fits

\* Where a prefix is committed; the place is not the beginning.
LEMMA CommitLengthIs ==
  ASSUME NEW r \in Requests
  PROVE  CommitLength(r) \in Nat /\ Len(Prompt[r]) \in Nat
<1>1. Prompt[r] \in Seq(ToSet(Prompt[r])) /\ Guard \in Nat BY CacheConfig
<1>2. Len(Prompt[r]) \in Nat BY <1>1
<1>3. QED BY <1>1, <1>2 DEF CommitLength

\* The evictions before a page is taken: if none is left, every idle entry is gone.
LEMMA EvictionsAre ==
  ASSUME NEW C, NEW R, NEW h, NEW st, NEW rc, Sound(C, R, h, st, rc)
  PROVE  LET D == prefix_cache_evict_lru(C, Evictions(C)) IN
         /\ Sound(D, R, h, st, rc) /\ ToSet(D.cache) \in SUBSET ToSet(C.cache)
         /\ D.pool.free = <<>> => \A e \in ToSet(D.cache) : e.refs # 0
<1> DEFINE M == {n \in 0 .. Idle(C) : prefix_cache_evict_lru(C, n).pool.free # <<>>}
           S == M \cup {Idle(C)}
           m == Evictions(C)
           D == prefix_cache_evict_lru(C, m)
<1>1. Idle(C) \in Nat BY IdleIs DEF Sound
<1>2. S \in SUBSET Nat /\ S # {} BY <1>1
<1>3. m = Min(S) BY DEF Evictions
<1>4. m \in S /\ m \in Nat
  <2> HIDE DEF S
  <2>1. QED BY <1>2, <1>3, MinIs
<1>5. m <= Idle(C) /\ (m \in M \/ m = Idle(C)) BY <1>1, <1>4
<1> HIDE DEF m
<1>6. /\ Sound(D, R, h, st, rc) /\ ToSet(D.cache) \in SUBSET ToSet(C.cache)
      /\ Idle(D) = Idle(C) - m
  BY <1>4, <1>5, EvictionsKeep
<1>7. ASSUME D.pool.free = <<>> PROVE \A e \in ToSet(D.cache) : e.refs # 0
  <2>1. m = Idle(C) BY <1>5, <1>7
  <2> HIDE DEF D
  <2>2. Idle(D) = 0 BY <1>1, <1>6, <2>1
  <2>3. D \in Caches /\ Listed(D.cache) BY <1>6 DEF Sound
  <2>4. QED BY <2>2, <2>3, IdleIs
<1>8. QED BY <1>6, <1>7 DEF m

\* The page that a request takes, and what is committed with it.
LEMMA PrefillKeeps ==
  ASSUME IInv, NEW r \in Requests, Prefill(r) PROVE IInv' /\ (Fits => Fits')
<1> DEFINE C == [pool |-> pool, cache |-> cache]
           D == prefix_cache_evict_lru(C, Evictions(C))
           p == Last(D.pool.free)
           T == Taken(D.pool)
           table == Append(req[r].table, p)
           n == Len(table)
           E == ToSet(D.cache)
           S == Grown(req, r, p)
           g == [holds EXCEPT ![p] = Prefix(r, Len(req[r].table) + 1)]
<1>1. Sound(C, req, holds, state, recycled) /\ C.cache = cache /\ C.pool = pool BY NowSound
<1>2. /\ r \in Live(req) /\ Len(req[r].table) < Len(Prompt[r])
      /\ IF D.pool.free = <<>>
         THEN Complete(r, "exhausted", D) /\ holds' = holds /\ state' = state
         ELSE /\ holds' = [holds EXCEPT ![p] = Prefix(r, n)]
              /\ IF n = CommitLength(r) /\ CommitLength(r) > req[r].hit
                 THEN Commit(r, table, [pool |-> T, cache |-> D.cache])
                 ELSE /\ req' = [req EXCEPT ![r].table = table]
                      /\ pool' = T /\ cache' = D.cache /\ recycled' = recycled /\ state' = state
  BY DEF Prefill, Active, Live, Taken
<1> HIDE DEF C
<1>3. Sound(D, req, holds, state, recycled) /\ E \in SUBSET ToSet(cache)
  BY <1>1, EvictionsAre
<1> HIDE DEF D
<1>4. Fits => Tight(D.pool, D.cache) BY <1>1, <1>3, FewerFit DEF Fits
<1>5. CASE D.pool.free = <<>>
  <2>1. /\ Listed(cache') /\ Good(pool', ToSet(cache'), req', holds, state, recycled')
        /\ Tight(D.pool, D.cache) => Fits'
    BY <1>2, <1>3, <1>5, CompleteKeeps
  <2>2. QED BY <1>4, <1>2, <1>5, <2>1 DEF IInv
<1>6. CASE D.pool.free # <<>>
  <2>1. Listed(D.cache) /\ Good(D.pool, E, req, holds, state, recycled) BY <1>3 DEF Sound
  <2>2. /\ p \in Pages /\ Len(req[r].table) \in Nat
        /\ Good(T, E, S, g, state, recycled)
    BY <1>2, <1>6, <2>1, TakeKeeps
  <2>3. r \in Requests /\ req \in [Requests -> Request] BY <2>1 DEF Good, Types
  <2>4. req[r].table \in Seq(Pages)
    <3>1. req[r] \in Request BY <2>3
    <3>2. QED BY <3>1 DEF Request
  <2> HIDE DEF p
  <2>5. n = Len(req[r].table) + 1 /\ table \in Seq(Pages) BY <2>2, <2>4, AppendIs
  <2>6. /\ S \in [Requests -> Request] /\ Live(S) = Live(req)
        /\ \A q \in Requests : q # r => S[q] = req[q]
        /\ S[r].table = table /\ S[r].lease = req[r].lease /\ S[r].snapshot = req[r].snapshot
    BY <2>2, <2>3, GrownIs
  <2>7. S = [req EXCEPT ![r].table = table] BY DEF Grown
  <2>8. T.pins = D.pool.pins
    <3>1. D.pool \in Pool BY <2>1 DEF Good, Types
    <3>2. QED BY <3>1 DEF T, Taken, Pool
  <2>9. holds' = g BY <1>2, <1>6, <2>5
  <2> HIDE DEF S, T, g, table
  <2>10. CASE ~(n = CommitLength(r) /\ CommitLength(r) > req[r].hit)
    <3>1. /\ req' = S /\ pool' = T /\ cache' = D.cache /\ recycled' = recycled /\ state' = state
      BY <1>2, <1>6, <2>7, <2>10
    <3>2. Fits => Fits' BY <1>4, <2>8, <3>1, SameFits DEF Fits
    <3>3. QED BY <2>1, <2>2, <2>9, <3>1, <3>2 DEF IInv
  <2>11. CASE n = CommitLength(r) /\ CommitLength(r) > req[r].hit
    <3> DEFINE B == [pool |-> T, cache |-> D.cache]
               same == SelectInSeq(B.cache, LAMBDA e : e.prefix = Prefix(r, n))
               I == {j \in 1 .. Len(D.cache) : D.cache[j].prefix = Prefix(r, n)}
    <3>1. Commit(r, table, B) BY <1>2, <1>6, <2>11
    <3>2. same = IF I # {} THEN Min(I) ELSE 0 BY DEF SelectInSeq
    <3>3. I # {} => same \in I
      <4> HIDE DEF same
      <4>1. I \in SUBSET Nat OBVIOUS
      <4> HIDE DEF I
      <4>2. QED BY <3>2, <4>1, MinIs
    <3>4. D.cache \in Seq(Entry) BY <2>1 DEF Listed
    <3>5. Named(E, req) /\ Covered(E, req) BY <2>1 DEF Good, Held
    <3>6. Len(req[r].table) < CommitLength(r) BY <2>2, <2>5, <2>11
    <3>7. CASE same # 0
      <4> DEFINE e == D.cache[same]
      <4>1. same \in 1 .. Len(D.cache) /\ e.prefix = Prefix(r, n) BY <3>2, <3>3, <3>7
      <4>2. /\ cache' = Append(RemoveAt(D.cache, same), Referred(e))
            /\ req' = [req EXCEPT ![r].table = table, ![r].lease = @ \cup {e.id}]
            /\ pool' = T /\ recycled' = recycled /\ state' = state
        BY <3>1, <3>7 DEF Commit, Referred
      <4> HIDE DEF same
      <4>3. e \in E BY <3>4, <4>1, ToSetIs
      <4>4. req' = Leased(S, r, e.id)
        <5>1. [req EXCEPT ![r].table = table, ![r].lease = @ \cup {e.id}] =
              [[req EXCEPT ![r].table = table] EXCEPT ![r].lease = @ \cup {e.id}]
          OBVIOUS
        <5>2. QED BY <2>7, <4>2, <5>1 DEF Leased
      <4> HIDE DEF e
      <4>5. Len(e.pages) = n
        <5>1. Len(e.prefix) = Len(e.pages) BY <2>1, <4>3 DEF Good, Holdings
        <5>2. n \in 0 .. Len(Prompt[r]) BY <1>2, <2>2, <2>5, CommitLengthIs
        <5>3. Len(Prefix(r, n)) = n BY <5>2, PrefixIs
        <5>4. QED BY <4>1, <5>1, <5>3 DEF e
      <4>6. e.id \notin S[r].lease
        <5>1. e.id \in req[r].lease => Len(e.pages) <= Len(req[r].table)
          BY <1>2, <3>5, <3>6, <4>3 DEF Covered
        <5>2. QED BY <2>2, <2>5, <2>6, <4>5, <5>1
      <4>7. r \in Live(S) /\ Len(e.pages) <= Len(S[r].table) BY <1>2, <2>2, <2>5, <2>6, <4>5
      <4> DEFINE f == Referred(e)
      <4>8. /\ f \in Entry /\ f.id = e.id
            /\ Good(T, (E \ {e}) \cup {f}, Leased(S, r, e.id), g, state, recycled)
        BY <2>2, <4>3, <4>6, <4>7, SameKeeps
      <4> HIDE DEF f
      <4>9. cache' = Append(RemoveAt(D.cache, same), f) /\ e = D.cache[same] BY <4>2 DEF f, e
      <4>10. /\ Listed(cache') /\ ToSet(cache') = (E \ {e}) \cup {f}
             /\ Len(cache') = Len(D.cache)
        BY <2>1, <4>1, <4>8, <4>9, RequeueIs
      <4>11. Fits => Fits'
        <5>1. e \in Entry BY <2>1, <4>3 DEF Good, Types
        <5>2. f.refs # 0 BY <5>1 DEF f, Referred, Entry
        <5>3. InUse(D.cache) => InUse(cache') BY <4>10, <5>2 DEF InUse
        <5>4. QED BY <1>4, <2>8, <4>2, <4>10, <5>3, SameFits DEF Fits
      <4>12. QED BY <2>9, <4>2, <4>4, <4>8, <4>10, <4>11 DEF IInv
    <3>8. CASE same = 0
      <4> DEFINE b == NextBuffer
                 d == NewEntry(S, r, b)
                 R == Given(S, r)
                 K == [pool |-> pin_pages(T, table), cache |-> Append(D.cache, d)]
      <4>1. S[r].table = table /\ Len(S[r].table) = n BY <2>6
      <4>2. d = [id |-> r, prefix |-> Prefix(r, n), pages |-> table, refs |-> 1,
                 gpu |-> b, host |-> None, copying |-> FALSE]
        BY <4>1 DEF NewEntry
      <4>3. R = [req EXCEPT ![r].table = table, ![r].borrowed = n, ![r].lease = @ \cup {r}]
        BY <2>7, <4>1 DEF Given
      <4>4. d.prefix = Prefix(r, n) BY <4>2
      <4>5. /\ req' = R /\ state' = [state EXCEPT ![b] = Prefix(r, n)] /\ recycled' = None
            /\ prefix_cache_enforce_budgets(K, R)
        BY <3>1, <3>8, <4>2, <4>3, <4>4 DEF Commit, Marked
      <4> HIDE DEF b, d, R, same
      <4>6. b \in Buffers /\ ~Borrowed(b, req) /\ \A e \in E : e.gpu # b
        BY <1>3, NextBufferIs DEF b
      <4>7. ~Borrowed(b, S)
        <5>1. \A q \in Requests : S[q].snapshot = req[q].snapshot BY <2>6
        <5>2. QED BY <4>6, <5>1 DEF Borrowed
      <4>8. \A e \in E : e.id # r
        <5>1. \A e \in E : e.id \in Live(req) => Len(req[e.id].table) >= CommitLength(e.id)
          BY <3>5 DEF Named
        <5>2. CommitLength(r) \in Nat BY CommitLengthIs
        <5>3. QED BY <1>2, <2>2, <3>6, <5>1, <5>2
      <4>9. r \in Live(S) /\ Len(S[r].table) >= 1 /\ Len(S[r].table) = CommitLength(r)
        BY <1>2, <2>2, <2>5, <2>6, <2>11, <4>1
      <4>10. /\ d \in Entry /\ d.id = r
             /\ Good(pin_pages(T, table), E \cup {d}, R, g, Put(state, b, Prefix(r, n)), None)
        <5>1. Good(T, E, S, g, state, recycled) BY <2>2
        <5> HIDE DEF E
        <5>2. /\ NewEntry(S, r, b) \in Entry /\ NewEntry(S, r, b).id = r
              /\ Good(pin_pages(T, S[r].table), E \cup {NewEntry(S, r, b)}, Given(S, r), g,
                      Put(state, b, Prefix(r, Len(S[r].table))), None)
          BY <4>6, <4>7, <4>8, <4>9, <5>1, CommitKeeps
        <5>3. QED BY <4>1, <5>2 DEF d, R
      <4>11. Listed(Append(D.cache, d)) /\ ToSet(Append(D.cache, d)) = E \cup {d}
        BY <2>1, <4>8, <4>10, ListNew
      <4>12. K.pool = pin_pages(T, table) /\ K.cache = Append(D.cache, d) OBVIOUS
      <4>13. K \in Caches
        <5>1. K.pool \in Pool /\ K.cache \in Seq(Entry)
          BY <4>10, <4>11, <4>12 DEF Good, Types, Listed
        <5>2. QED BY <5>1 DEF Caches
      <4> HIDE DEF K
      <4>14. Sound(K, R, g, Put(state, b, Prefix(r, n)), None)
        BY <4>10, <4>11, <4>12, <4>13 DEF Sound
      <4>15. /\ Listed(cache') /\ Good(pool', ToSet(cache'), R, g, Put(state, b, Prefix(r, n)), None)
             /\ Fits'
        BY <4>5, <4>14, EnforceKeeps
      <4>16. state' = Put(state, b, Prefix(r, n)) BY <4>5 DEF Put
      <4>17. QED BY <2>9, <4>5, <4>15, <4>16 DEF IInv
    <3>9. QED BY <3>7, <3>8
  <2>12. QED BY <2>10, <2>11
<1>7. QED BY <1>5, <1>6

-----------------------------------------------------------------------------
(* The invariant.                                                          *)

LEMMA PagesInOrder ==
  /\ SetToSeq(Pages) \in Seq(Pages) /\ IsInjective(SetToSeq(Pages))
  /\ ToSet(SetToSeq(Pages)) = Pages
<1> DEFINE n == Cardinality(Pages)
           s == SetToSeq(Pages)
<1>1. IsFiniteSet(Pages) BY CacheConfig
<1>2. n \in Nat /\ ExistsBijection(1 .. n, Pages) BY <1>1, FS_CardinalityType
<1>3. \E f \in [1 .. n -> Pages] : IsInjective(f)
  BY <1>2 DEF ExistsBijection, Bijection, Injection
<1>4. s = CHOOSE f \in [1 .. n -> Pages] : IsInjective(f) BY DEF SetToSeq
<1> HIDE DEF s
<1>5. s \in [1 .. n -> Pages] /\ IsInjective(s) BY <1>3, <1>4
<1>6. s \in Seq(Pages) BY <1>2, <1>5
<1>7. IsFiniteSet(1 .. n) /\ Cardinality(1 .. n) = n BY <1>2, FS_Interval
<1>8. s \in Injection(1 .. n, Pages) BY <1>5 DEF Injection
<1>9. s \in Surjection(1 .. n, Pages) BY <1>1, <1>7, <1>8, FS_Injection
<1>10. \A p \in Pages : \E k \in 1 .. n : s[k] = p BY <1>9 DEF Surjection
<1>11. ToSet(s) = Pages BY <1>5, <1>10 DEF ToSet
<1>12. QED BY <1>5, <1>6, <1>11 DEF s

LEMMA InitKeeps == Init => IInv
<1> SUFFICES ASSUME Init PROVE IInv OBVIOUS
<1> DEFINE E == ToSet(cache)
<1>1. /\ pool = [free |-> SetToSeq(Pages), allocated |-> {}, pins |-> [p \in Pages |-> 0]]
      /\ cache = <<>> /\ recycled = None
      /\ holds = [p \in Pages |-> <<>>] /\ state = [b \in Buffers |-> <<>>]
      /\ req = [r \in Requests |-> New]
  BY DEF Init
<1>2. Listed(cache) BY <1>1 DEF Listed
<1>3. E = {} BY <1>1 DEF ToSet
<1> HIDE DEF E
<1>4. <<>> \in Texts BY DEF Texts
<1>5. New \in Request /\ New.status = "new" /\ New.snapshot = None
  <2>1. <<>> \in Seq(Pages) OBVIOUS
  <2>2. QED BY <1>4, <2>1 DEF New, Request
<1>6. req \in [Requests -> Request] /\ \A r \in Requests : req[r] = New BY <1>1, <1>5
<1>7. Live(req) = {} BY <1>5, <1>6 DEF Live
<1>8. pool \in Pool /\ Stack(pool) /\ pool.allocated = {} /\ \A p \in Pages : pool.pins[p] = 0
  <2>1. [p \in Pages |-> 0] \in [Pages -> Nat] OBVIOUS
  <2>2. QED BY <1>1, <2>1, PagesInOrder DEF Pool, Stack
<1>9. Types(pool, E, req, holds, state, recycled) BY <1>1, <1>3, <1>4, <1>6, <1>8 DEF Types
<1>10. Pins(pool, E)
  <2>1. \A p : Listing(E, p) = {} BY <1>3 DEF Listing
  <2>2. QED BY <1>8, <2>1, FS_EmptySet DEF Pins
<1>11. Owners(pool, E, req) BY <1>3, <1>7, <1>8 DEF Owners
<1>12. Counted(E, req) BY <1>3 DEF Counted
<1>13. Held(E, req)
  <2>1. Fresh(req) BY <1>6, <1>7 DEF Fresh, New
  <2>2. QED BY <1>3, <1>7, <2>1 DEF Held, Unique, Named, Covered
<1>14. Holdings(E, req, holds) BY <1>3, <1>7 DEF Holdings
<1>15. Snapshots(E, req, state, recycled) BY <1>1, <1>3, <1>5, <1>6 DEF Snapshots
<1>16. QED BY <1>2, <1>8, <1>9, <1>10, <1>11, <1>12, <1>13, <1>14, <1>15 DEF IInv, Good, E

LEMMA StepKeeps == IInv /\ [Next]_vars => IInv' /\ (Fits => Fits')
<1> DEFINE Stays == IInv' /\ (Fits => Fits')
<1> SUFFICES ASSUME IInv, [Next]_vars PROVE Stays OBVIOUS
<1>1. CASE UNCHANGED vars BY <1>1 DEF vars, IInv, Fits
<1>2. ASSUME NEW r \in Requests, StartCold(r) PROVE Stays BY <1>2, ColdKeeps
<1>3. ASSUME NEW r \in Requests, NEW seeded \in BOOLEAN, StartHit(r, seeded) PROVE Stays
  BY <1>3, HitKeeps
<1>4. ASSUME NEW r \in Requests, Prefill(r) PROVE Stays BY <1>4, PrefillKeeps
<1>5. ASSUME NEW r \in Requests, Finish(r) PROVE Stays BY <1>5, FinishKeeps
<1>6. QED BY <1>1, <1>2, <1>3, <1>4, <1>5 DEF Next

\* The accounts of the pool, the references and the contents are right in every state.
THEOREM PrefixCacheInvariant == Spec => []IInv
<1>1. Init => IInv BY InitKeeps
<1>2. IInv /\ [Next]_vars => IInv' BY StepKeeps
<1>3. QED BY <1>1, <1>2, PTL DEF Spec

-----------------------------------------------------------------------------
(* What the invariant says of the cache.                                   *)

LEMMA NowIs ==
  ASSUME IInv
  PROVE  /\ Active = Live(req) /\ req \in [Requests -> Request] /\ pool \in Pool
         /\ cache \in Seq(Entry) /\ recycled \in Buffers \cup {None}
         /\ DOMAIN cache = 1 .. Len(cache) /\ Len(cache) \in Nat
         /\ \A i \in 1 .. Len(cache) : cache[i] \in ToSet(cache) /\ cache[i] \in Entry
         /\ \A e \in ToSet(cache) : \E i \in 1 .. Len(cache) : cache[i] = e
         /\ \A r \in Active : r \in Requests /\ req[r].borrowed <= Len(req[r].table)
<1>1. Types(pool, ToSet(cache), req, holds, state, recycled) /\ Holdings(ToSet(cache), req, holds)
  BY DEF IInv, Good
<1>2. /\ req \in [Requests -> Request] /\ pool \in Pool /\ recycled \in Buffers \cup {None}
  BY <1>1 DEF Types
<1>3. cache \in Seq(Entry) BY DEF IInv, Listed
<1>4. /\ DOMAIN cache = 1 .. Len(cache) /\ Len(cache) \in Nat
      /\ \A i \in 1 .. Len(cache) : cache[i] \in ToSet(cache) /\ cache[i] \in Entry
      /\ \A e \in ToSet(cache) : \E i \in 1 .. Len(cache) : cache[i] = e
  BY <1>3, ToSetIs
<1>5. Active = Live(req) BY DEF Active, Live
<1>6. \A r \in Active : r \in Requests /\ req[r].borrowed <= Len(req[r].table)
  BY <1>1, <1>5 DEF Holdings, Active
<1>7. QED BY <1>2, <1>3, <1>4, <1>5, <1>6

\* The pages of an active request that it did not borrow are those it owns.
LEMMA OwnedNow ==
  ASSUME IInv, NEW r \in Active, NEW p
  PROVE  p \in ToSet(OwnedPages(req[r])) <=> Owns(req[r], p)
<1>1. req[r] \in Request /\ req[r].borrowed <= Len(req[r].table) BY NowIs
<1>2. QED BY <1>1, OwnedIs

\* The places of the list that name a page are as many as the entries that list it.
LEMMA PlacesListing ==
  ASSUME IInv, NEW p
  PROVE  Cardinality({i \in DOMAIN cache : p \in ToSet(cache[i].pages)})
         = Cardinality(Listing(ToSet(cache), p))
<1> DEFINE I == {i \in DOMAIN cache : p \in ToSet(cache[i].pages)}
<1>1. I \in SUBSET (1 .. Len(cache)) BY NowIs
<1>2. Listed(cache) BY DEF IInv
<1>3. NamesAt(cache, I) = Listing(ToSet(cache), p)
  BY NowIs DEF NamesAt, Listing, Lists
<1>4. QED BY <1>1, <1>2, <1>3, PlacesAreNames

\* Every variable has its type.
THEOREM PrefixCacheTypes == Spec => []TypeOK
<1>1. IInv => TypeOK
  <2> SUFFICES ASSUME IInv PROVE TypeOK OBVIOUS
  <2>1. pool.free \in Seq(Pages) /\ pool.allocated \subseteq Pages /\ pool.pins \in [Pages -> Nat]
    BY NowIs DEF Pool
  <2>2. ASSUME NEW i \in DOMAIN cache
        PROVE  /\ cache[i].gpu \in Buffers \cup {None} /\ cache[i].refs \in Nat
               /\ ToSet(cache[i].pages) \subseteq Pages
    <3>1. cache[i] \in Entry BY NowIs
    <3>2. cache[i].pages \in Seq(Pages) BY <3>1 DEF Entry
    <3>3. ToSet(cache[i].pages) \in SUBSET Pages BY <3>2, ToSetIs
    <3>4. QED BY <3>1, <3>3 DEF Entry
  <2>3. Fresh(req) BY DEF IInv, Good, Held
  <2>4. ASSUME NEW r \in Requests
        PROVE  /\ req[r].status \in {"new", "active", "done", "exhausted"}
               /\ req[r].table \in Seq(Pages) /\ req[r].borrowed <= Len(req[r].table)
    <3>1. req[r] \in Request BY NowIs
    <3>2. CASE r \in Live(req) BY <3>1, <3>2, NowIs DEF Request
    <3>3. CASE r \notin Live(req)
      <4>1. req[r].table = <<>> /\ req[r].borrowed = 0 BY <2>3, <3>3 DEF Fresh
      <4>2. QED BY <3>1, <4>1 DEF Request
    <3>4. QED BY <3>2, <3>3
  <2>5. QED BY <2>1, <2>2, <2>4, NowIs DEF TypeOK
<1>2. QED BY <1>1, PrefixCacheInvariant, PTL

\* Pages are shared, evicted, given back and taken again, and still every page of a table
\* holds the prefix of the request's own prompt; so did the state it started from.
THEOREM PrefixIntactAlways == Spec => []PrefixIntact
<1>1. IInv => PrefixIntact
  <2> SUFFICES ASSUME IInv, NEW r \in Active
               PROVE  /\ \A i \in DOMAIN req[r].table : holds[req[r].table[i]] = Prefix(r, i)
                      /\ req[r].restored = Prefix(r, req[r].hit)
                      /\ req[r].hit < Len(Prompt[r])
    BY DEF PrefixIntact
  <2>1. Holdings(ToSet(cache), req, holds) /\ r \in Live(req) /\ req[r] \in Request
    BY NowIs DEF IInv, Good
  <2>2. req[r].table \in Seq(Pages) BY <2>1 DEF Request
  <2>3. DOMAIN req[r].table = 1 .. Len(req[r].table) BY <2>2
  <2>4. QED BY <2>1, <2>3 DEF Holdings
<1>2. QED BY <1>1, PrefixCacheInvariant, PTL

\* No sequence of hits, commits, evictions and ends loses a page or gives it two owners.
THEOREM PagesConservedAlways == Spec => []PagesConserved
<1>1. IInv => PagesConserved
  <2> SUFFICES ASSUME IInv PROVE PagesConserved OBVIOUS
  <2> DEFINE E == ToSet(cache)
  <2>1. Stack(pool) /\ Pins(pool, E) /\ Owners(pool, E, req) BY DEF IInv, Good
  <2>2. Active = Live(req) /\ pool \in Pool BY NowIs
  <2>3. E \in SUBSET Entry BY DEF IInv, Good, Types
  <2>4. ASSUME NEW p \in Pages
        PROVE  pool.pins[p] = Cardinality({i \in DOMAIN cache : p \in ToSet(cache[i].pages)})
    BY <2>1, PlacesListing DEF Pins
  <2> HIDE DEF E
  <2>5. ASSUME NEW p \in pool.allocated
        PROVE  Cardinality({r \in Active : p \in ToSet(OwnedPages(req[r]))})
               = IF pool.pins[p] = 0 THEN 1 ELSE 0
    <3> DEFINE O == {r \in Active : p \in ToSet(OwnedPages(req[r]))}
    <3>1. p \in Pages BY <2>2 DEF Pool
    <3>2. pool.pins[p] = 0 <=> \A e \in E : ~Lists(e, p) BY <2>1, <2>3, <3>1, ListingIs DEF Pins
    <3>3. O = {r \in Live(req) : Owns(req[r], p)} BY <2>2, OwnedNow
    <3> HIDE DEF O
    <3>4. CASE pool.pins[p] = 0
      <4>1. PICK r \in Live(req) : Owns(req[r], p) BY <2>1, <3>2, <3>4 DEF Owners
      <4>2. O = {r} BY <2>1, <3>1, <3>3, <4>1 DEF Owners
      <4>3. Cardinality(O) = 1 BY <4>2, FS_Singleton
      <4>4. QED BY <3>4, <4>3 DEF O
    <3>5. CASE pool.pins[p] # 0
      <4>1. O = {} BY <2>1, <3>1, <3>2, <3>3, <3>5 DEF Owners
      <4>2. Cardinality(O) = 0 BY <4>1, FS_EmptySet
      <4>3. QED BY <3>5, <4>2 DEF O
    <3>6. QED BY <3>4, <3>5
  <2>6. QED BY <2>1, <2>4, <2>5 DEF PagesConserved, Stack
<1>2. QED BY <1>1, PrefixCacheInvariant, PTL

\* A snapshot moves between device buffers and host memory and stays the state of its
\* prefix; what a request borrowed is not overwritten.
THEOREM SnapshotsIntactAlways == Spec => []SnapshotsIntact
<1>1. IInv => SnapshotsIntact
  <2> SUFFICES ASSUME IInv PROVE SnapshotsIntact OBVIOUS
  <2>1. Snapshots(ToSet(cache), req, state, recycled) BY DEF IInv, Good
  <2>2. ASSUME NEW i \in DOMAIN cache
        PROVE  cache[i].prefix = IF cache[i].gpu # None THEN state[cache[i].gpu] ELSE cache[i].host
    BY <2>1, NowIs DEF Snapshots
  <2>3. ASSUME NEW r \in Active, req[r].snapshot # None
        PROVE  \E n \in 1 .. Len(Prompt[r]) : state[req[r].snapshot] = Prefix(r, n)
    BY <2>1, <2>3, NowIs DEF Snapshots
  <2>4. QED BY <2>2, <2>3 DEF SnapshotsIntact
<1>2. QED BY <1>1, PrefixCacheInvariant, PTL

\* An entry counts the requests that hold it, neither more (it could never be evicted)
\* nor less (its pages could be taken from under one).
THEOREM LeasesExactAlways == Spec => []LeasesExact
<1>1. IInv => LeasesExact
  <2> SUFFICES ASSUME IInv PROVE LeasesExact OBVIOUS
  <2>1. Counted(ToSet(cache), req) /\ Covered(ToSet(cache), req) BY DEF IInv, Good, Held
  <2>2. ASSUME NEW i \in DOMAIN cache
        PROVE  cache[i].refs = Cardinality({r \in Active : cache[i].id \in req[r].lease})
    <3>1. {r \in Active : cache[i].id \in req[r].lease} = Holders(req, cache[i].id)
      BY NowIs DEF Holders
    <3>2. QED BY <2>1, <3>1, NowIs DEF Counted
  <2>3. ASSUME NEW r \in Active, NEW k \in 1 .. req[r].borrowed
        PROVE  \E i \in DOMAIN cache : /\ cache[i].id \in req[r].lease
                                       /\ req[r].table[k] \in ToSet(cache[i].pages)
    <3>1. PICK e \in ToSet(cache) : e.id \in req[r].lease /\ Lists(e, req[r].table[k])
      BY <2>1, NowIs DEF Covered
    <3>2. PICK i \in DOMAIN cache : cache[i] = e BY NowIs
    <3>3. QED BY <3>1, <3>2 DEF Lists
  <2>4. QED BY <2>2, <2>3 DEF LeasesExact
<1>2. QED BY <1>1, PrefixCacheInvariant, PTL

\* Loads, hits and ends enforce the budgets, and what lies between them takes no more
\* pins: an excess is that of entries in use.
THEOREM OverBudgetOnlyInUseAlways == Spec => []OverBudgetOnlyInUse
<1>1. Init => IInv /\ Fits
  <2> SUFFICES ASSUME Init PROVE Fits BY InitKeeps
  <2>1. ToSet(cache) = {} BY DEF Init, ToSet
  <2>2. QED BY <2>1 DEF Fits, Tight, InUse
<1>2. IInv /\ Fits /\ [Next]_vars => IInv' /\ Fits' BY StepKeeps
<1>3. IInv /\ Fits => OverBudgetOnlyInUse
  <2> SUFFICES ASSUME IInv, Fits, ~WithinBudget([pool |-> pool, cache |-> cache]),
                      NEW i \in DOMAIN cache
               PROVE  cache[i].refs > 0
    BY DEF OverBudgetOnlyInUse
  <2>1. cache[i] \in ToSet(cache) /\ cache[i] \in Entry BY NowIs
  <2>2. cache[i].refs # 0 BY <2>1 DEF Fits, Tight, InUse
  <2>3. QED BY <2>1, <2>2 DEF Entry
<1>4. QED BY <1>1, <1>2, <1>3, PTL DEF Spec

\* When eviction leaves no page, all are in use.
LEMMA NoPageLeft ==
  ASSUME IInv, NEW p \in Pages,
         prefix_cache_evict_lru([pool |-> pool, cache |-> cache],
                                Evictions([pool |-> pool, cache |-> cache])).pool.free = <<>>
  PROVE  \/ \E q \in Active : p \in ToSet(OwnedPages(req[q]))
         \/ \E i \in DOMAIN cache : cache[i].refs > 0 /\ p \in ToSet(cache[i].pages)
<1> DEFINE C == [pool |-> pool, cache |-> cache]
           D == prefix_cache_evict_lru(C, Evictions(C))
           F == ToSet(D.cache)
<1>1. Sound(C, req, holds, state, recycled) /\ C.cache = cache BY NowSound
<1>2. D.pool.free = <<>> OBVIOUS
<1> HIDE DEF C
<1>3. /\ Sound(D, req, holds, state, recycled) /\ F \in SUBSET ToSet(cache)
      /\ \A e \in F : e.refs # 0
  BY <1>1, <1>2, EvictionsAre
<1> HIDE DEF D
<1>4. Stack(D.pool) /\ Owners(D.pool, F, req) BY <1>3 DEF Sound, Good
<1> HIDE DEF F
<1>5. p \in D.pool.allocated
  <2>1. ToSet(D.pool.free) = {} BY <1>2 DEF ToSet
  <2>2. QED BY <1>4, <2>1 DEF Stack
<1>6. CASE \E e \in F : Lists(e, p)
  <2>1. PICK e \in F : Lists(e, p) BY <1>6
  <2>2. PICK i \in DOMAIN cache : cache[i] = e BY <1>3, NowIs
  <2>3. cache[i] \in Entry BY NowIs
  <2>4. cache[i].refs > 0 BY <1>3, <2>1, <2>2, <2>3 DEF Entry
  <2>5. QED BY <2>1, <2>2, <2>4 DEF Lists
<1>7. CASE \E q \in Live(req) : Owns(req[q], p) BY <1>7, NowIs, OwnedNow
<1>8. QED BY <1>4, <1>5, <1>6, <1>7 DEF Owners

\* Only a prefill that finds no page ends a request that way.
LEMMA ExhaustedBy ==
  ASSUME IInv, [Next]_vars, NEW q \in Active, req'[q].status = "exhausted"
  PROVE  prefix_cache_evict_lru([pool |-> pool, cache |-> cache],
                                Evictions([pool |-> pool, cache |-> cache])).pool.free = <<>>
<1> DEFINE C == [pool |-> pool, cache |-> cache]
           D == prefix_cache_evict_lru(C, Evictions(C))
<1>1. q \in Requests /\ req[q].status = "active" /\ req \in [Requests -> Request]
  BY NowIs DEF Active
<1>2. CASE UNCHANGED vars BY <1>1, <1>2 DEF vars
<1>3. ASSUME NEW r \in Requests, StartCold(r) PROVE FALSE
  <2>1. req' = [req EXCEPT ![r].status = "active"] BY <1>3 DEF StartCold
  <2>2. r # q BY <1>1, <1>3 DEF StartCold
  <2>3. QED BY <1>1, <2>1, <2>2
<1>4. ASSUME NEW r \in Requests, NEW seeded \in BOOLEAN, StartHit(r, seeded) PROVE FALSE
  <2>1. \E x : req' = [req EXCEPT ![r] = x] BY <1>4 DEF StartHit
  <2>2. r # q BY <1>1, <1>4 DEF StartHit
  <2>3. QED BY <1>1, <2>1, <2>2
<1>5. ASSUME NEW r \in Requests, NEW status, NEW B, Complete(r, status, B),
             status # "exhausted"
      PROVE  FALSE
  <2>1. req' = [req EXCEPT ![r] = [New EXCEPT !.status = status]] BY <1>5 DEF Complete
  <2>2. [New EXCEPT !.status = status].status = status BY DEF New
  <2>3. QED BY <1>1, <1>5, <2>1, <2>2
<1>6. ASSUME NEW r \in Requests, Finish(r) PROVE FALSE BY <1>5, <1>6 DEF Finish
<1>7. ASSUME NEW r \in Requests, NEW table, NEW B, Commit(r, table, B) PROVE FALSE
  <2>1. \/ \E x : req' = [req EXCEPT ![r].table = table, ![r].lease = x]
        \/ \E x, y : req' = [req EXCEPT ![r].table = table, ![r].borrowed = x, ![r].lease = y]
    BY <1>7 DEF Commit
  <2>2. req[r] \in Request BY <1>1, <1>7
  <2>3. CASE \E x : req' = [req EXCEPT ![r].table = table, ![r].lease = x]
    <3>1. PICK x : req' = [req EXCEPT ![r].table = table, ![r].lease = x] BY <2>3
    <3>2. req' = [req EXCEPT ![r] = [req[r] EXCEPT !.table = table, !.lease = x]] BY <1>7, <3>1
    <3>3. [req[r] EXCEPT !.table = table, !.lease = x].status = req[r].status BY <2>2 DEF Request
    <3>4. req'[q].status = req[q].status BY <1>1, <3>2, <3>3
    <3>5. QED BY <1>1, <3>4
  <2>4. CASE \E x, y : req' = [req EXCEPT ![r].table = table, ![r].borrowed = x, ![r].lease = y]
    <3>1. PICK x, y : req' = [req EXCEPT ![r].table = table, ![r].borrowed = x, ![r].lease = y]
      BY <2>4
    <3>2. req' = [req EXCEPT ![r] = [req[r] EXCEPT !.table = table, !.borrowed = x, !.lease = y]]
      BY <1>7, <3>1
    <3>3. [req[r] EXCEPT !.table = table, !.borrowed = x, !.lease = y].status = req[r].status
      BY <2>2 DEF Request
    <3>4. req'[q].status = req[q].status BY <1>1, <3>2, <3>3
    <3>5. QED BY <1>1, <3>4
  <2>5. QED BY <2>1, <2>3, <2>4
<1>8. ASSUME NEW r \in Requests, Prefill(r) PROVE D.pool.free = <<>>
  <2> DEFINE p == Last(D.pool.free)
             T == [D.pool EXCEPT !.free = Front(@), !.allocated = @ \cup {p}]
             table == Append(req[r].table, p)
  <2> SUFFICES ASSUME D.pool.free # <<>> PROVE FALSE OBVIOUS
  <2>1. Commit(r, table, [pool |-> T, cache |-> D.cache]) \/ req' = [req EXCEPT ![r].table = table]
    BY <1>8 DEF Prefill
  <2> HIDE DEF table, T, D
  <2>2. QED BY <1>1, <1>7, <2>1 DEF Request
<1>9. QED BY <1>2, <1>3, <1>4, <1>6, <1>8 DEF Next

\* A request fails for want of pages only when a live request owns each page or an entry
\* in use pins it: eviction gave up nothing that it could have taken.
THEOREM ExhaustionHonestAlways == Spec => ExhaustionHonest
<1>1. IInv /\ [Next]_vars =>
        [\A r \in Requests : (req'[r].status = "exhausted" /\ r \in Active) =>
           \A p \in Pages :
             \/ \E q \in Active : p \in ToSet(OwnedPages(req[q]))
             \/ \E i \in DOMAIN cache : cache[i].refs > 0 /\ p \in ToSet(cache[i].pages)]_vars
  BY ExhaustedBy, NoPageLeft
<1>2. QED BY <1>1, PrefixCacheInvariant, PTL DEF Spec, ExhaustionHonest
=============================================================================
