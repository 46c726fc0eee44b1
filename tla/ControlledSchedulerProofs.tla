---------------------- MODULE ControlledSchedulerProofs ----------------------
(***************************************************************************)
(* The controlled scheduler, for any number of rows, requests and sessions *)
(* and any decode budget: a session has one executor, executors never      *)
(* exceed the rows they were budgeted for, a prefill waits for a bounded   *)
(* number of verify rounds and of other rows' chunks, and a row ready to   *)
(* verify for one chunk.                                                   *)
(*                                                                         *)
(* The inductive invariant says what an event of a row means (Rows), where *)
(* a request is and that its session has no second one (Places), who owns  *)
(* a session's executor (Residents), and how the ghost counters of a       *)
(* waiting row are tied to the policy's counter and cursor (Turns).        *)
(***************************************************************************)
EXTENDS ControlledScheduler, CooperativeRequest, SequenceTheorems, FiniteSetTheorems, TLAPS

Keys == {Key[r] : r \in Requests} \ {NoKey}

Types ==
  /\ mode \in Modes /\ queue \in Seq(Requests) /\ idle \in Seq(Keys)
  /\ ctl \in [Slots -> Requests \cup {0}]
  /\ ev \in [Slots -> {"none", "prefill", "draft", "verify"}]
  /\ waited \in [Slots -> [verify : Nat, prefill : Nat]]
  /\ at \in 1 .. MaxActive + 1
  /\ spent \in 0 .. Budget /\ cursor \in 1 .. MaxActive + 1
  /\ outcome \in [Requests -> {"new", "queued", "live", "done"}]

\* A vacant row holds no event, and only a held event has waited.  Without independent
\* prefills every prefilling row is served at once.
Rows ==
  /\ phase = "idle" => Live = {}
  /\ \A s \in Slots : /\ ctl[s] = 0 => ev[s] = "none"
                      /\ ev[s] = "none" => waited[s] = NoWait
                      /\ ~mode.independent /\ ev[s] = "prefill" => waited[s] = NoWait

\* A request is queued once or in one row; a session has one outstanding request.
Places ==
  /\ IsInjective(queue) /\ \A r \in Range(queue) : outcome[r] = "queued"
  /\ \A s \in Live : outcome[ctl[s]] = "live" /\ \A t \in Live : ctl[s] = ctl[t] => s = t
  /\ \A q, r \in Outstanding : Key[q] = Key[r] /\ Key[q] # NoKey => q = r

\* The rows the round robin can still serve before row s.
Distance(s) == IF cursor <= s THEN s - cursor ELSE MaxActive + s - cursor

\* Verify rounds that a waiting prefill saw are paid for: by chunks of other rows, or out
\* of the rounds spent since the last chunk.  A chunk of another row brings the cursor
\* nearer.  A chunk that a verification let go first used up the rounds.
Turns ==
  \A s \in Slots :
    /\ ev[s] = "prefill" =>
         /\ waited[s].verify <= Budget * waited[s].prefill + spent
         /\ ~mode.oldest => waited[s].prefill + Distance(s) < MaxActive
    /\ ev[s] = "verify" /\ mode.independent =>
         waited[s].prefill = 0 \/ (waited[s].prefill = 1 /\ spent < Budget)

IInv == Types /\ Rows /\ Places /\ Residents /\ Turns

-----------------------------------------------------------------------------
(* Lists without repetition, and extrema. *)

\* A nonempty set of naturals has a least element.
LEMMA LeastNatural ==
  ASSUME NEW S \in SUBSET Nat, S # {} PROVE \E m \in S : \A n \in S : m <= n
<1> DEFINE R == OpToRel(<, Nat)
<1>1. \A m, n \in Nat : n < m => <<n, m>> \in R BY DEF OpToRel
<1>2. IsWellFoundedOn(R, Nat) BY NatLessThanWellFounded, Zenon
<1> HIDE DEF R
<1>3. PICK m \in S : \A n \in S : <<n, m>> \notin R BY <1>2, WFMin
<1>4. \A n \in S : ~(n < m) BY <1>1, <1>3
<1>5. \A n \in S : m <= n BY <1>4
<1>6. QED BY <1>5

\* Erasing the position of a listed element, or nothing when it is not listed (find and
\* erase, IdleSessionCache::take): the others stay listed, once each.
LEMMA RemoveFirstIs ==
  ASSUME NEW S, NEW q \in Seq(S), IsInjective(q), NEW b
  PROVE  /\ RemoveFirst(q, b) \in Seq(S)
         /\ IsInjective(RemoveFirst(q, b))
         /\ Range(RemoveFirst(q, b)) = Range(q) \ {b}
         /\ b \in Range(q) => Len(RemoveFirst(q, b)) = Len(q) - 1
<1>1. CASE \E i \in 1 .. Len(q) : q[i] = b
  <2> DEFINE I == {i \in 1 .. Len(q) : q[i] = b}
  <2>1. I \in SUBSET Nat /\ I # {} BY <1>1
  <2>2. PICK k \in I : k = Min(I)
    <3>1. \E m \in I : \A n \in I : m <= n BY <2>1, LeastNatural
    <3>2. QED BY <3>1 DEF Min
  <2>3. RemoveFirst(q, b) = RemoveAt(q, k)
    BY <1>1, <2>1, <2>2 DEF RemoveFirst, SelectInSeq
  <2> DEFINE front == SubSeq(q, 1, k - 1)
             back == SubSeq(q, k + 1, Len(q))
             u == front \o back
  <2>4. k \in 1 .. Len(q) /\ q[k] = b BY <2>2
  <2> HIDE DEF I
  <2>5. /\ front \in Seq(S) /\ Len(front) = k - 1
        /\ \A i \in 1 .. k - 1 : front[i] = q[i]
    BY <2>4
  <2>6. /\ back \in Seq(S) /\ Len(back) = Len(q) - k
        /\ \A i \in 1 .. Len(q) - k : back[i] = q[i + k]
    BY <2>4
  <2> HIDE DEF front, back
  <2>7. /\ u \in Seq(S) /\ Len(u) = Len(q) - 1
        /\ \A i \in 1 .. Len(q) - 1 : u[i] = IF i < k THEN q[i] ELSE q[i + 1]
    <3>1. /\ u \in Seq(S) /\ Len(u) = Len(front) + Len(back)
          /\ \A i \in 1 .. Len(front) + Len(back) :
               u[i] = IF i <= Len(front) THEN front[i] ELSE back[i - Len(front)]
      BY <2>5, <2>6, ConcatProperties
    <3>2. ASSUME NEW i \in 1 .. Len(q) - 1, i < k PROVE u[i] = q[i]
      BY <3>1, <3>2, <2>4, <2>5, <2>6
    <3>3. ASSUME NEW i \in 1 .. Len(q) - 1, i >= k PROVE u[i] = q[i + 1]
      <4>1. u[i] = back[i - (k - 1)] /\ i - (k - 1) \in 1 .. Len(q) - k
        BY <3>1, <3>3, <2>4, <2>5, <2>6
      <4>2. back[i - (k - 1)] = q[(i - (k - 1)) + k] BY <4>1, <2>6
      <4>3. (i - (k - 1)) + k = i + 1 BY <2>4
      <4>4. QED BY <4>1, <4>2, <4>3
    <3>4. QED BY <3>1, <3>2, <3>3, <2>4, <2>5, <2>6
  <2>8. RemoveFirst(q, b) = u BY <2>3 DEF RemoveAt, front, back
  <2> HIDE DEF u
  <2> DOMAIN q = 1 .. Len(q) /\ DOMAIN u = 1 .. Len(q) - 1 BY <2>7
  <2>9. IsInjective(u) BY <2>4, <2>7, SMTT(30) DEF IsInjective
  <2>10. Range(u) = Range(q) \ {b}
    <3>1. ASSUME NEW x \in Range(u) PROVE x \in Range(q) /\ x # b
      BY <2>4, <2>7, SMTT(30) DEF IsInjective, Range
    <3>2. ASSUME NEW i \in 1 .. Len(q), q[i] # b PROVE q[i] \in Range(u)
      <4>1. CASE i < k BY <3>2, <4>1, <2>4, <2>7 DEF Range
      <4>2. CASE i > k
        <5>1. i - 1 \in 1 .. Len(q) - 1 /\ u[i - 1] = q[i] BY <4>2, <2>4, <2>7
        <5>2. QED BY <5>1, <2>7 DEF Range
      <4>3. QED BY <4>1, <4>2, <3>2, <2>4
    <3>3. QED BY <3>1, <3>2 DEF Range
  <2>11. QED BY <2>7, <2>8, <2>9, <2>10, Zenon
<1>2. CASE ~\E i \in 1 .. Len(q) : q[i] = b
  BY <1>2 DEF RemoveFirst, Range
<1>3. QED BY <1>1, <1>2, SMTT(30)

\* Listing a new element (push_back).
LEMMA AppendNew ==
  ASSUME NEW S, NEW q \in Seq(S), IsInjective(q), NEW x \in S, x \notin Range(q)
  PROVE  /\ Append(q, x) \in Seq(S) /\ IsInjective(Append(q, x))
         /\ Range(Append(q, x)) = Range(q) \cup {x} /\ Len(Append(q, x)) = Len(q) + 1
<1> DEFINE a == Append(q, x)
<1>1. /\ a \in Seq(S) /\ Len(a) = Len(q) + 1 /\ a[Len(q) + 1] = x
      /\ \A i \in 1 .. Len(q) : a[i] = q[i]
  BY AppendProperties
<1> HIDE DEF a
<1>2. DOMAIN q = 1 .. Len(q) /\ DOMAIN a = 1 .. Len(q) + 1 /\ Len(q) \in Nat BY <1>1
<1>3. IsInjective(a) BY <1>1, <1>2 DEF IsInjective, Range
<1>4. Range(a) = Range(q) \cup {x}
  <2>1. ASSUME NEW i \in 1 .. Len(q) + 1 PROVE a[i] \in Range(q) \cup {x}
    BY <1>1, <1>2 DEF Range
  <2>2. ASSUME NEW i \in 1 .. Len(q) PROVE q[i] \in Range(a)
    BY <1>1, <1>2 DEF Range
  <2>3. x \in Range(a) BY <1>1, <1>2 DEF Range
  <2>4. QED BY <2>1, <2>2, <2>3, <1>2 DEF Range
<1>5. QED BY <1>1, <1>3, <1>4 DEF a

\* Taking the front of a queue.
\* Taking the front of a queue.
LEMMA HeadTailIs ==
  ASSUME NEW S, NEW q \in Seq(S), IsInjective(q), q # <<>>
  PROVE  /\ Head(q) \in S /\ Head(q) \in Range(q)
         /\ Tail(q) \in Seq(S) /\ IsInjective(Tail(q))
         /\ Range(Tail(q)) = Range(q) \ {Head(q)}
<1> DEFINE n == Len(q)
           g == Tail(q)
<1>1. n \in Nat \ {0} /\ DOMAIN q = 1 .. n /\ Head(q) = q[1] OBVIOUS
<1>2. /\ g \in Seq(S) /\ DOMAIN g = 1 .. n - 1
      /\ \A i \in 1 .. n - 1 : g[i] = q[i + 1]
  BY <1>1
<1>3. q[1] \in S /\ q[1] \in Range(q) BY <1>1 DEF Range
<1> HIDE DEF g, n
<1>4. IsInjective(g)
  <2> SUFFICES ASSUME NEW i \in 1 .. n - 1, NEW j \in 1 .. n - 1, g[i] = g[j] PROVE i = j
    BY <1>2 DEF IsInjective
  <2>1. i + 1 \in 1 .. n /\ j + 1 \in 1 .. n /\ q[i + 1] = q[j + 1] BY <1>1, <1>2
  <2>2. i + 1 = j + 1 BY <2>1, <1>1 DEF IsInjective
  <2>3. QED BY <2>2
<1>5. Range(g) = Range(q) \ {q[1]}
  <2>1. ASSUME NEW i \in 1 .. n - 1 PROVE g[i] \in Range(q) /\ g[i] # q[1]
    BY <1>1, <1>2 DEF Range, IsInjective
  <2>2. ASSUME NEW i \in 1 .. n, q[i] # q[1] PROVE q[i] \in Range(g)
    <3>1. i - 1 \in 1 .. n - 1 /\ g[i - 1] = q[i] BY <1>1, <1>2, <2>2
    <3>2. QED BY <1>2, <3>1 DEF Range
  <2>3. QED BY <1>1, <1>2, <2>1, <2>2, ZenonT(60) DEF Range
<1>6. QED BY <1>1, <1>2, <1>3, <1>4, <1>5 DEF g

\* Dropping the oldest k elements (trim).
LEMMA SuffixIs ==
  ASSUME NEW S, NEW q \in Seq(S), IsInjective(q), NEW k \in 0 .. Len(q)
  PROVE  LET t == SubSeq(q, k + 1, Len(q)) IN
         /\ t \in Seq(S) /\ IsInjective(t) /\ Range(t) \subseteq Range(q)
         /\ Len(t) = Len(q) - k
<1> DEFINE n == Len(q)
           t == SubSeq(q, k + 1, n)
<1>1. n \in Nat /\ DOMAIN q = 1 .. n OBVIOUS
<1>2. /\ t \in Seq(S) /\ Len(t) = n - k /\ DOMAIN t = 1 .. n - k
      /\ \A i \in 1 .. n - k : t[i] = q[i + k]
  <2>1. \A i \in k + 1 .. n : q[i] \in S BY <1>1
  <2>2. k + 1 \in Int /\ n \in Int BY <1>1
  <2>3. /\ t \in Seq(S) /\ Len(t) = IF k + 1 <= n THEN n - (k + 1) + 1 ELSE 0
        /\ \A i \in 1 .. n - (k + 1) + 1 : t[i] = q[(k + 1) + i - 1]
    BY <2>1, <2>2, SubSeqProperties
  <2> HIDE DEF t, n
  <2>4. n - (k + 1) + 1 = n - k /\ Len(t) = n - k BY <1>1, <2>3
  <2>5. \A i \in Int : (k + 1) + i - 1 = i + k BY <1>1
  <2>6. DOMAIN t = 1 .. n - k BY <2>3, <2>4
  <2>7. QED BY <2>3, <2>4, <2>5, <2>6
<1> HIDE DEF t, n
<1>3. \A i \in 1 .. n - k : i + k \in 1 .. n BY <1>1
<1>4. IsInjective(t)
  <2> SUFFICES ASSUME NEW i \in 1 .. n - k, NEW j \in 1 .. n - k, t[i] = t[j] PROVE i = j
    BY <1>2 DEF IsInjective
  <2>1. q[i + k] = q[j + k] BY <1>2
  <2>2. i + k = j + k BY <2>1, <1>1, <1>3 DEF IsInjective
  <2>3. QED BY <2>2, <1>1
<1>5. Range(t) \subseteq Range(q) BY <1>1, <1>2, <1>3 DEF Range
<1>6. QED BY <1>2, <1>4, <1>5 DEF t, n

\* Min of a nonempty set of naturals, and the extrema of two numbers.
LEMMA MinIs ==
  ASSUME NEW S \in SUBSET Nat, S # {} PROVE Min(S) \in S /\ \A n \in S : Min(S) <= n
  BY LeastNatural DEF Min
LEMMA TwoNumbers ==
  ASSUME NEW a \in Int, NEW b \in Int
  PROVE  /\ Min({a, b}) = IF a <= b THEN a ELSE b
         /\ Max({a, b}) = IF a <= b THEN b ELSE a
<1>1. PICK x \in {a, b} : \A y \in {a, b} : x <= y OBVIOUS
<1>2. Min({a, b}) \in {a, b} /\ \A y \in {a, b} : Min({a, b}) <= y BY <1>1 DEF Min
<1>3. PICK z \in {a, b} : \A y \in {a, b} : z >= y OBVIOUS
<1>4. Max({a, b}) \in {a, b} /\ \A y \in {a, b} : Max({a, b}) >= y BY <1>3 DEF Max
<1>5. QED BY <1>2, <1>4

-----------------------------------------------------------------------------
\* Rows are finitely many positive numbers.
LEMMA RowsAre ==
  ASSUME Types
  PROVE  /\ MaxActive \in Nat \ {0} /\ Budget \in Nat \ {0} /\ Slots \subseteq Nat /\ 0 \notin Slots
         /\ IsFiniteSet(Live) /\ Cardinality(Live) \in Nat /\ 0 \notin Requests
<1>1. MaxActive \in Nat \ {0} /\ Budget \in Nat \ {0} /\ 0 \notin Requests BY SchedulerConfig
<1>2. IsFiniteSet(Slots) BY <1>1, FS_Interval DEF Slots
<1>3. IsFiniteSet(Live) BY <1>2, FS_Subset DEF Live
<1>4. QED BY <1>1, <1>3, FS_CardinalityType DEF Slots

\* The invariant holds when the worker starts.
LEMMA SchedulerInit == Init => IInv
<1> SUFFICES ASSUME Init PROVE IInv OBVIOUS
<1>0. MaxActive \in Nat \ {0} /\ Budget \in Nat \ {0} BY SchedulerConfig
<1>1. Types BY <1>0 DEF Init, Types, NoWait
<1>2. Live = {} BY DEF Init, Live
<1>3. Rows BY <1>2 DEF Init, Rows
<1>4. Places BY <1>2 DEF Init, Places, Outstanding, IsInjective, Range
<1>5. Residents
  <2>1. Cardinality(Live) = 0 BY <1>2, FS_EmptySet
  <2>2. QED BY <1>0, <1>2, <2>1 DEF Init, Residents, OneResident, ResidentsBounded
<1>6. Turns BY DEF Init, Turns
<1>7. QED BY <1>1, <1>3, <1>4, <1>5, <1>6 DEF IInv

\* A new request of a session that has no outstanding one is queued.
LEMMA SubmitKeeps == ASSUME IInv, NEW r \in Requests, Submit(r) PROVE IInv'
<1> USE DEF IInv, Submit, work, policy
<1>0. r \notin Range(queue) BY DEF Types, Places
<1>1. /\ Append(queue, r) \in Seq(Requests) /\ IsInjective(Append(queue, r))
      /\ Range(Append(queue, r)) = Range(queue) \cup {r}
  BY <1>0, AppendNew DEF Types, Places
<1>2. Types' BY <1>1 DEF Types
<1>3. Rows' BY DEF Rows, Live
<1>4. Places'
  <2>1. Outstanding' = Outstanding \cup {r} BY DEF Types, Outstanding
  <2>2. \A q \in Outstanding : Key[r] # NoKey => Key[q] # Key[r] OBVIOUS
  <2>3. \A q \in Range(queue') : outcome'[q] = "queued" BY <1>1 DEF Types, Places
  <2>4. Live' = Live /\ \A s \in Live : ctl[s] # r /\ ctl[s] \in Requests
    BY DEF Live, Places, Types
  <2>5. QED BY <1>1, <2>1, <2>2, <2>3, <2>4 DEF Places, Types
<1>5. Residents' BY DEF Residents, OneResident, ResidentsBounded, Live
<1>6. Turns' BY DEF Turns, Distance
<1>7. QED BY <1>2, <1>3, <1>4, <1>5, <1>6

\* A cancellation is only noted.
LEMMA CancelKeeps == ASSUME IInv, NEW r \in Requests, Cancel(r) PROVE IInv'
  BY DEF IInv, Cancel, Types, Rows, Places, Residents, Turns, Live, Outstanding, OneResident,
         ResidentsBounded, Distance, work, policy

\* With no executor parked, only the rows have residents.
LEMMA ClearSessionsKeeps == ASSUME IInv, ClearSessions PROVE IInv'
<1> USE DEF IInv, ClearSessions, work, policy
<1>1. Types' BY DEF Types
<1>2. Rows' BY DEF Rows, Live
<1>3. Places' BY DEF Places, Live, Outstanding
<1>4. Residents'
  <2>1. Live' = Live /\ Len(idle) \in Nat /\ Len(<<>>) = 0 /\ Range(idle') = {}
    BY DEF Live, Types, Range
  <2>2. OneResident' BY <2>1 DEF OneResident
  <2>3. ResidentsBounded' BY <2>1, RowsAre DEF Residents, ResidentsBounded
  <2>4. QED BY <2>2, <2>3 DEF Residents
<1>5. Turns' BY DEF Turns, Distance
<1>6. QED BY <1>1, <1>2, <1>3, <1>4, <1>5

\* A run begins with no row in use.
LEMMA RunBeginsKeeps == ASSUME IInv, RunBegins PROVE IInv'
<1> USE DEF IInv, RunBegins, work
<1>0. \A s \in Slots : ev[s] = "none" BY DEF Rows, Live
<1>1. Types' BY RowsAre DEF Types
<1>2. Rows' BY DEF Rows, Live
<1>3. Places' BY DEF Places, Live, Outstanding
<1>4. Residents' BY DEF Residents, OneResident, ResidentsBounded, Live
<1>5. Turns' BY <1>0 DEF Turns
<1>6. QED BY <1>1, <1>2, <1>3, <1>4, <1>5

\* What take() or trim() leave parked when one more row is filled.
LEMMA MadeRoom ==
  ASSUME IInv, NEW r \in Requests, NEW v \in Slots, ctl[v] = 0
  PROVE  LET hit == Key[r] # NoKey /\ Key[r] \in Range(idle)
             left == IF hit THEN Taken(Key[r]) ELSE Trimmed
         IN  /\ left \in Seq(Keys) /\ IsInjective(left) /\ Range(left) \subseteq Range(idle)
             /\ Key[r] \notin Range(left)
             /\ Cardinality(Live) + Len(left) <= MaxActive - 1
<1> USE DEF IInv
<1>1. idle \in Seq(Keys) /\ IsInjective(idle) /\ Len(idle) \in Nat /\ NoKey \notin Range(idle)
  BY DEF Types, Residents, OneResident, IsInjective, Keys, Range
<1>2. Cardinality(Live) \in Nat /\ Cardinality(Live) + Len(idle) <= MaxActive
      /\ MaxActive \in Nat \ {0}
  BY RowsAre DEF Residents, ResidentsBounded
<1>3. Cardinality(Live) <= MaxActive - 1
  <2>1. Live \subseteq Slots \ {v} BY DEF Live
  <2>2. IsFiniteSet(Slots) /\ Cardinality(Slots) = MaxActive BY <1>2, FS_Interval DEF Slots
  <2>3. IsFiniteSet(Slots \ {v}) /\ Cardinality(Slots \ {v}) = MaxActive - 1
    BY <2>2, FS_RemoveElement
  <2>4. QED BY <2>1, <2>3, FS_Subset
<1>4. CASE Key[r] # NoKey /\ Key[r] \in Range(idle)
  <2> DEFINE q == RemoveFirst(idle, Key[r])
  <2>1. /\ q \in Seq(Keys) /\ IsInjective(q) /\ Range(q) = Range(idle) \ {Key[r]}
        /\ Len(q) = Len(idle) - 1
    BY <1>1, <1>4, RemoveFirstIs
  <2>2. Taken(Key[r]) = q BY DEF Taken
  <2> HIDE DEF q
  <2>3. Cardinality(Live) + Len(q) <= MaxActive - 1 BY <1>1, <1>2, <2>1
  <2>4. QED BY <1>4, <2>1, <2>2, <2>3
<1>5. CASE ~(Key[r] # NoKey /\ Key[r] \in Range(idle))
  <2> DEFINE k == Max({0, Len(idle) - Room})
  <2>1. Room \in Nat /\ Room = MaxActive - Cardinality(Live) - 1 BY <1>2, <1>3 DEF Room
  <2>2. k \in 0 .. Len(idle) /\ Len(idle) - k <= Room
    <3>1. \A b \in Int : Max({0, b}) = IF 0 <= b THEN b ELSE 0 BY TwoNumbers
    <3>2. k = IF 0 <= Len(idle) - Room THEN Len(idle) - Room ELSE 0 BY <1>1, <2>1, <3>1
    <3>3. QED BY <1>1, <2>1, <3>2
  <2> HIDE DEF k
  <2>3. /\ SubSeq(idle, k + 1, Len(idle)) \in Seq(Keys)
        /\ IsInjective(SubSeq(idle, k + 1, Len(idle)))
        /\ Range(SubSeq(idle, k + 1, Len(idle))) \subseteq Range(idle)
        /\ Len(SubSeq(idle, k + 1, Len(idle))) = Len(idle) - k
    BY <1>1, <2>2, SuffixIs
  <2>4. Trimmed = SubSeq(idle, k + 1, Len(idle)) BY DEF Trimmed, k
  <2>5. Key[r] \notin Range(Trimmed) BY <1>1, <1>5, <2>3, <2>4
  <2>6. Cardinality(Live) + Len(Trimmed) <= MaxActive - 1
    BY <1>1, <1>2, <2>1, <2>2, <2>3, <2>4
  <2>7. QED BY <1>5, <2>3, <2>4, <2>5, <2>6
<1>6. QED BY <1>4, <1>5

\* Rows that are left alone keep what Rows and Turns say of them.
LEMMA AdmitRowKeeps == ASSUME IInv, AdmitRow PROVE IInv'
<1> USE DEF IInv, work, policy
<1>0. at \in Slots /\ at' \in 1 .. MaxActive + 1 BY RowsAre DEF AdmitRow, Slots
<1>1. CASE UNCHANGED <<queue, ctl, idle, outcome>>
  BY <1>0, <1>1 DEF AdmitRow, Types, Rows, Places, Residents, Turns, Live, Outstanding, OneResident,
         ResidentsBounded, Distance
<1>2. CASE ctl[at] = 0 /\ queue # <<>> /\ Admit(Head(queue)) /\ queue' = Tail(queue)
  <2> DEFINE r == Head(queue)
             row == Min({s \in Slots : ctl[s] = 0})
             hit == Key[r] # NoKey /\ Key[r] \in Range(idle)
             left == IF hit THEN Taken(Key[r]) ELSE Trimmed
  <2>1. /\ r \in Requests /\ r \in Range(queue)
        /\ queue' \in Seq(Requests) /\ IsInjective(queue') /\ Range(queue') = Range(queue) \ {r}
    BY <1>2, HeadTailIs DEF Types, Places
  <2>2. row \in Slots /\ ctl[row] = 0
    <3>1. {s \in Slots : ctl[s] = 0} \in SUBSET Nat /\ {s \in Slots : ctl[s] = 0} # {}
      BY <1>0, <1>2, RowsAre
    <3>2. QED BY <3>1, MinIs
  <2>3. /\ left \in Seq(Keys) /\ IsInjective(left) /\ Range(left) \subseteq Range(idle)
        /\ Key[r] \notin Range(left)
        /\ Cardinality(Live) + Len(left) <= MaxActive - 1
    BY <2>1, <2>2, MadeRoom
  <2>4. outcome[r] = "queued" BY <2>1 DEF Places
  <2>5. \/ /\ idle' = left /\ ctl' = [ctl EXCEPT ![row] = r]
           /\ outcome' = [outcome EXCEPT ![r] = "live"]
        \/ outcome' = [outcome EXCEPT ![r] = "done"] /\ ctl' = ctl /\ idle' \in {idle, left}
    BY <1>2 DEF Admit
  <2> HIDE DEF r, row, hit, left
  <2>6. Len(left) \in Nat /\ Len(idle) \in Nat /\ Cardinality(Live) \in Nat
        /\ MaxActive \in Nat \ {0} /\ r # 0
    BY <2>1, <2>3, RowsAre, SMTT(30) DEF Types
  <2>7. /\ UNCHANGED <<mode, ev, phase, spent, cursor, waited>> BY DEF AdmitRow
  <2>8. CASE /\ idle' = left /\ ctl' = [ctl EXCEPT ![row] = r]
             /\ outcome' = [outcome EXCEPT ![r] = "live"]
    <3>1. Types' BY <1>0, <2>1, <2>2, <2>3, <2>7, <2>8 DEF Types
    <3>2. Live' = Live \cup {row} /\ row \notin Live BY <2>2, <2>6, <2>8 DEF Live, Types
    <3>3. Rows'
      <4>1. phase # "idle" BY DEF AdmitRow
      <4>2. QED BY <2>2, <2>6, <2>7, <2>8, <4>1 DEF Rows, Types
    <3>4. Places'
      <4>1. Outstanding' = Outstanding BY <2>1, <2>4, <2>8 DEF Outstanding, Types
      <4>2. \A q \in Range(queue') : outcome'[q] = "queued" BY <2>1, <2>8 DEF Places, Types
      <4>3. \A s \in Live : ctl'[s] = ctl[s] /\ ctl[s] # r /\ ctl[s] \in Requests
        BY <2>4, <2>8, <3>2 DEF Live, Types, Places
      <4>4. ctl'[row] = r BY <2>2, <2>8 DEF Types
      <4>5. QED BY <2>1, <2>8, <3>2, <4>1, <4>2, <4>3, <4>4 DEF Places, Types
    <3>5. Residents'
      <4>1. \A s \in Live : ctl'[s] = ctl[s] /\ Key[ctl[s]] \notin Range(left)
        BY <2>3, <2>8, <3>2 DEF Live, Types, Residents, OneResident
      <4>2. ctl'[row] = r BY <2>2, <2>8 DEF Types
      <4>3. OneResident' BY <2>3, <2>8, <3>2, <4>1, <4>2 DEF OneResident, IsInjective
      <4>4. Cardinality(Live') = Cardinality(Live) + 1 BY <3>2, RowsAre, FS_AddElement
      <4>5. ResidentsBounded' BY <2>3, <2>6, <2>8, <4>4 DEF ResidentsBounded
      <4>6. QED BY <4>3, <4>5 DEF Residents
    <3>6. Turns' BY <2>7 DEF Turns, Distance
    <3>7. QED BY <3>1, <3>3, <3>4, <3>5, <3>6
  <2>9. CASE outcome' = [outcome EXCEPT ![r] = "done"] /\ ctl' = ctl /\ idle' \in {idle, left}
    <3>1. Types' BY <1>0, <2>1, <2>3, <2>7, <2>9 DEF Types
    <3>2. Live' = Live BY <2>9 DEF Live
    <3>3. Rows' BY <2>7, <2>9, <3>2 DEF Rows
    <3>4. Places'
      <4>1. Outstanding' \subseteq Outstanding BY <2>1, <2>9 DEF Outstanding, Types
      <4>2. \A q \in Range(queue') : outcome'[q] = "queued" BY <2>1, <2>9 DEF Places, Types
      <4>3. \A s \in Live : ctl[s] # r BY <2>4 DEF Places
      <4>4. QED BY <2>1, <2>9, <3>2, <4>1, <4>2, <4>3 DEF Places, Types, Live
    <3>5. Residents'
      <4>1. OneResident' BY <2>3, <2>9, <3>2 DEF Residents, OneResident, IsInjective
      <4>2. ResidentsBounded' BY <2>3, <2>6, <2>9, <3>2 DEF Residents, ResidentsBounded
      <4>3. QED BY <4>1, <4>2 DEF Residents
    <3>6. Turns' BY <2>7 DEF Turns, Distance
    <3>7. QED BY <3>1, <3>3, <3>4, <3>5, <3>6
  <2>10. QED BY <2>5, <2>8, <2>9
<1>3. QED BY <1>1, <1>2 DEF AdmitRow

\* The admission of a turn is over.
LEMMA AdmitEndsKeeps == ASSUME IInv, AdmitEnds PROVE IInv'
<1> USE RowsAre DEF IInv, AdmitEnds, work, policy
<1>1. Types' BY DEF Types
<1>2. Rows' BY DEF Rows, Live
<1>3. Places' BY DEF Places, Live, Outstanding
<1>4. Residents' BY DEF Residents, OneResident, ResidentsBounded, Live
<1>5. Turns' BY DEF Turns, Distance
<1>6. QED BY <1>1, <1>2, <1>3, <1>4, <1>5

\* finish() of some rows, of one row when it parks a session.
LEMMA FinishKeeps ==
  ASSUME IInv, NEW S \in SUBSET Live, NEW ok \in BOOLEAN, ok => \E t \in Live : S = {t},
         Finish(S, ok), UNCHANGED <<mode, queue, policy>>,
         at' \in 1 .. MaxActive + 1, phase' = phase \/ Live \subseteq S
  PROVE  IInv'
<1> USE DEF IInv, policy
<1>1. idle' = idle \/ \E t \in Live : /\ S = {t} /\ Key[ctl[t]] # NoKey /\ Key[ctl[t]] \notin Range(idle)
                                      /\ idle' = Append(idle, Key[ctl[t]])
  <2> SUFFICES ASSUME idle' # idle PROVE \E t \in Live : /\ S = {t} /\ Key[ctl[t]] # NoKey
                                         /\ Key[ctl[t]] \notin Range(idle)
                                         /\ idle' = Append(idle, Key[ctl[t]])
    OBVIOUS
  <2>1. ok /\ \E s \in S : Key[ctl[s]] # NoKey BY DEF Finish
  <2>2. PICK t \in Live : S = {t} BY <2>1
  <2>3. (CHOOSE s \in S : TRUE) = t BY <2>2
  <2>4. idle' = Parked(Key[ctl[t]]) BY <2>1, <2>3 DEF Finish
  <2>5. QED BY <2>1, <2>2, <2>4 DEF Parked
<1>2. /\ ctl' = [s \in Slots |-> IF s \in S THEN 0 ELSE ctl[s]]
      /\ ev' = [s \in Slots |-> IF s \in S THEN "none" ELSE ev[s]]
      /\ outcome' = [r \in Requests |-> IF \E s \in S : ctl[s] = r THEN "done" ELSE outcome[r]]
      /\ waited' = [s \in Slots |-> IF s \in S THEN NoWait ELSE waited[s]]
  BY DEF Finish
<1>3. Live' = Live \ S BY <1>2 DEF Live
<1>4. \A t \in Live : ctl[t] \in Requests /\ t \in Slots BY DEF Live, Types
<1>5. /\ idle' \in Seq(Keys) /\ IsInjective(idle')
      /\ Len(idle') = Len(idle) + (IF idle' = idle THEN 0 ELSE 1)
  <2>1. CASE idle' = idle
    BY <2>1 DEF Types, Residents, OneResident, IsInjective
  <2>2. CASE idle' # idle
    <3>1. PICK t \in Live : Key[ctl[t]] # NoKey /\ Key[ctl[t]] \notin Range(idle)
                            /\ idle' = Append(idle, Key[ctl[t]])
      BY <1>1, <2>2
    <3>2. Key[ctl[t]] \in Keys BY <1>4, <3>1 DEF Keys
    <3>3. IsInjective(idle) BY DEF Residents, OneResident, IsInjective
    <3>4. QED BY <2>2, <3>1, <3>2, <3>3, AppendNew DEF Types
  <2>3. QED BY <2>1, <2>2
<1>6. Types' BY <1>2, <1>5 DEF Types, NoWait
<1>7. Rows' BY <1>2, <1>3 DEF Rows, Types
<1>8. Places'
  <2>1. Outstanding' \subseteq Outstanding BY <1>2 DEF Outstanding
  <2>2. \A r \in Range(queue) : r \in Requests /\ outcome'[r] = "queued"
    <3>1. \A r \in Range(queue) : r \in Requests BY DEF Types, Range
    <3>2. \A r \in Range(queue) : \A s \in S : ctl[s] # r BY DEF Places
    <3>3. QED BY <1>2, <3>1, <3>2 DEF Places
  <2>3. \A s \in Live' : ctl'[s] = ctl[s] /\ outcome'[ctl[s]] = "live"
    BY <1>2, <1>3, <1>4 DEF Places
  <2>4. QED BY <1>3, <2>1, <2>2, <2>3 DEF Places
<1>9. Residents'
  <2>1. \A s \in Live' : Key[ctl'[s]] = Key[ctl[s]] BY <1>2, <1>3, <1>4
  <2>2. \A s \in Live' : Key[ctl[s]] \notin Range(idle)
    BY <1>3 DEF Residents, OneResident
  <2>3. \A s \in Live' : Key[ctl[s]] \notin Range(idle')
    <3>1. CASE idle' = idle BY <2>2, <3>1
    <3>2. CASE idle' # idle
      <4>1. PICK t \in Live : /\ S = {t} /\ Key[ctl[t]] # NoKey /\ Key[ctl[t]] \notin Range(idle)
                              /\ idle' = Append(idle, Key[ctl[t]])
        BY <1>1, <3>2
      <4>2. Key[ctl[t]] \in Keys BY <1>4, <4>1 DEF Keys
      <4>3. Range(idle') = Range(idle) \cup {Key[ctl[t]]}
        BY <4>1, <4>2, AppendNew, SMTT(30) DEF Types, Residents, OneResident, IsInjective
      <4>4. \A s \in Live' : Key[ctl[s]] # Key[ctl[t]]
        <5>1. \A s \in Live : ctl[s] \in Outstanding BY <1>4 DEF Places, Outstanding
        <5>2. QED BY <1>3, <4>1, <5>1 DEF Places
      <4>5. QED BY <2>2, <4>3, <4>4
    <3>3. QED BY <3>1, <3>2
  <2>4. OneResident' BY <1>5, <2>1, <2>3 DEF OneResident, IsInjective
  <2>5. Cardinality(Live') + (IF idle' = idle THEN 0 ELSE 1) <= Cardinality(Live)
        /\ Cardinality(Live') \in Nat
    <3>1. IsFiniteSet(Live) BY RowsAre
    <3>2. CASE idle' = idle BY <1>3, <3>1, <3>2, FS_Subset, FS_CardinalityType
    <3>3. CASE idle' # idle
      <4>1. PICK t \in Live : S = {t} BY <1>1, <3>3
      <4>2. Cardinality(Live \ {t}) = Cardinality(Live) - 1 /\ IsFiniteSet(Live \ {t})
        BY <3>1, <4>1, FS_RemoveElement
      <4>3. Cardinality(Live) \in Nat /\ Cardinality(Live \ {t}) \in Nat
        BY <3>1, <4>2, FS_CardinalityType
      <4>4. QED BY <1>3, <3>3, <4>1, <4>2, <4>3
    <3>4. QED BY <3>2, <3>3
  <2>6. ResidentsBounded'
    <3>1. Len(idle) \in Nat /\ Cardinality(Live) \in Nat /\ MaxActive \in Nat
      BY RowsAre DEF Types
    <3>2. Cardinality(Live) + Len(idle) <= MaxActive BY DEF Residents, ResidentsBounded
    <3>3. Cardinality(Live') + Len(idle') <= MaxActive BY <1>5, <2>5, <3>1, <3>2
    <3>4. QED BY <3>3 DEF ResidentsBounded
  <2>7. QED BY <2>4, <2>6 DEF Residents
<1>10. Turns' BY <1>2 DEF Turns, Distance
<1>11. QED BY <1>6, <1>7, <1>8, <1>9, <1>10

\* The controllers run to their next event; one that publishes a prefill or a
\* verification has not waited yet.
LEMMA ResumeKeeps == ASSUME IInv, ResumeRow PROVE IInv'
<1> USE DEF IInv, policy
<1>0. at \in Slots /\ at' \in 1 .. MaxActive + 1 /\ UNCHANGED <<mode, queue, phase, spent, cursor>>
  BY RowsAre DEF ResumeRow, Slots
<1>1. ASSUME UNCHANGED <<ctl, outcome, waited, idle>>,
             \/ UNCHANGED ev
             \/ /\ ctl[at] # 0 /\ ev[at] = "none"
                /\ \E kind \in {"none", "prefill", "draft", "verify"} : ev' = [ev EXCEPT ![at] = kind]
      PROVE  IInv'
  <2>1. \A s \in Slots : ev'[s] = ev[s] \/ (ctl[s] # 0 /\ waited[s] = NoWait)
    BY <1>0, <1>1 DEF Types, Rows
  <2>2. ev' \in [Slots -> {"none", "prefill", "draft", "verify"}] BY <1>0, <1>1 DEF Types
  <2>3. Types' BY <1>0, <1>1, <2>2 DEF Types
  <2>4. Rows' BY <1>0, <1>1, <2>1 DEF Rows, Live
  <2>5. Places' BY <1>0, <1>1 DEF Places, Live, Outstanding
  <2>6. Residents' BY <1>1 DEF Residents, OneResident, ResidentsBounded, Live
  <2>7. Turns'
    <3>1. Budget \in Nat /\ MaxActive \in Nat \ {0} BY RowsAre
    <3>2. \A s \in Slots : Distance(s) < MaxActive /\ Distance(s) \in Int
      BY <3>1 DEF Distance, Types, Slots
    <3>3. Budget * 0 = 0 BY <3>1
    <3>4. QED BY <1>0, <1>1, <2>1, <3>1, <3>2, <3>3 DEF Turns, Distance, NoWait, Types
  <2>8. QED BY <2>3, <2>4, <2>5, <2>6, <2>7
<1>2. CASE ~(ctl[at] # 0 /\ ev[at] = "none")
  BY <1>1, <1>2 DEF ResumeRow
<1>3. CASE ctl[at] # 0 /\ ev[at] = "none"
  <2>1. RunsBody(ctl[at]) BY <1>3 DEF ResumeRow
  <2>2. at \in Live BY <1>0, <1>3 DEF Live
  <2>3. CASE \E ok \in BOOLEAN : Finish({at}, ok)
    BY <1>0, <2>2, <2>3, FinishKeeps
  <2>4. CASE \E kind \in {"none", "prefill", "draft", "verify"} : Publish(kind)
    BY <1>1, <1>3, <2>4 DEF Publish
  <2>5. QED BY <2>1, <2>3, <2>4 DEF RunsBody
<1>4. QED BY <1>2, <1>3

\* The row that the policy selects holds a prefill.  In round robin no row between the
\* cursor and it does, so that it is nearer to the cursor than any other.
LEMMA SelectPrefillIs ==
  ASSUME IInv, Holding("prefill") # {}
  PROVE  /\ SelectPrefill \in Holding("prefill")
         /\ ~mode.oldest => \A s \in Holding("prefill") : Distance(SelectPrefill) <= Distance(s)
<1> USE DEF IInv
<1> DEFINE rows == Holding("prefill")
           next == {s \in rows : s >= cursor}
<1>1. rows \in SUBSET Slots /\ rows \in SUBSET Nat /\ rows \in SUBSET Live
      /\ MaxActive \in Nat \ {0} /\ Slots = 1 .. MaxActive /\ cursor \in 1 .. MaxActive + 1
  BY RowsAre DEF Holding, Live, Slots, Types
<1>2. CASE mode.oldest
  <2> DEFINE ids == {ctl[s] : s \in rows}
  <2>0. ASSUME NEW s \in Slots PROVE ctl[s] \in Nat
    <3>1. ctl[s] \in Requests \cup {0} BY DEF Types
    <3>2. Requests \subseteq Nat \ {0} BY SchedulerConfig
    <3>3. \A c \in Requests \cup {0} : c \in Nat BY <3>2
    <3>4. QED BY <3>1, <3>3, Zenon
  <2>1. ids \in SUBSET Nat /\ ids # {} BY <1>1, <2>0
  <2>2. PICK m \in ids : \A n \in ids : m <= n
    <3> HIDE DEF ids
    <3>1. QED BY <2>1, LeastNatural
  <2>3. \E s \in rows : \A t \in rows : ctl[s] <= ctl[t] BY <2>2
  <2>4. SelectPrefill = CHOOSE s \in rows : \A t \in rows : ctl[s] <= ctl[t]
    BY <1>2 DEF SelectPrefill
  <2>5. QED BY <1>2, <2>3, <2>4
<1>3. CASE ~mode.oldest /\ next # {}
  <2>1. SelectPrefill = Min(next) BY <1>3 DEF SelectPrefill
  <2>2. next \in SUBSET Nat BY <1>1
  <2>3. Min(next) \in next /\ \A n \in next : Min(next) <= n BY <1>3, <2>2, MinIs
  <2> HIDE DEF next
  <2>4. SelectPrefill \in rows /\ SelectPrefill >= cursor BY <2>1, <2>3 DEF next
  <2>5. ASSUME NEW s \in rows PROVE Distance(SelectPrefill) <= Distance(s)
    <3>1. CASE s >= cursor
      <4>1. SelectPrefill <= s BY <2>1, <2>3, <3>1 DEF next
      <4>2. QED BY <1>1, <2>4, <3>1, <4>1 DEF Distance
    <3>2. CASE ~(s >= cursor) BY <1>1, <2>4, <3>2 DEF Distance
    <3>3. QED BY <3>1, <3>2
  <2>6. QED BY <2>4, <2>5
<1>4. CASE ~mode.oldest /\ next = {}
  <2>1. SelectPrefill = Min(rows) BY <1>4 DEF SelectPrefill
  <2>2. Min(rows) \in rows /\ \A n \in rows : Min(rows) <= n BY <1>1, MinIs
  <2>3. \A s \in rows : ~(s >= cursor) BY <1>4
  <2>4. ASSUME NEW s \in rows PROVE Distance(SelectPrefill) <= Distance(s)
    BY <1>1, <2>1, <2>2, <2>3 DEF Distance
  <2>5. QED BY <2>1, <2>2, <2>4
<1>5. QED BY <1>2, <1>3, <1>4

\* One more chunk, or one more round, has been waited for.
LEMMA WaitedMore ==
  ASSUME NEW w \in [verify : Nat, prefill : Nat]
  PROVE  /\ [w EXCEPT !["prefill"] = @ + 1] \in [verify : Nat, prefill : Nat]
         /\ [w EXCEPT !["prefill"] = @ + 1].prefill = w.prefill + 1
         /\ [w EXCEPT !["prefill"] = @ + 1].verify = w.verify
         /\ [w EXCEPT !["verify"] = @ + 1] \in [verify : Nat, prefill : Nat]
         /\ [w EXCEPT !["verify"] = @ + 1].verify = w.verify + 1
         /\ [w EXCEPT !["verify"] = @ + 1].prefill = w.prefill
<1>1. [w EXCEPT !["prefill"] = @ + 1] \in [verify : Nat, prefill : Nat] OBVIOUS
<1>2. [w EXCEPT !["prefill"] = @ + 1].prefill = w.prefill + 1 OBVIOUS
<1>3. [w EXCEPT !["prefill"] = @ + 1].verify = w.verify OBVIOUS
<1>4. [w EXCEPT !["verify"] = @ + 1] \in [verify : Nat, prefill : Nat] OBVIOUS
<1>5. [w EXCEPT !["verify"] = @ + 1].verify = w.verify + 1 OBVIOUS
<1>6. [w EXCEPT !["verify"] = @ + 1].prefill = w.prefill OBVIOUS
<1>7. QED BY <1>1, <1>2, <1>3, <1>4, <1>5, <1>6

\* What Execute leaves alone, whatever it runs.
LEMMA ExecuteFrame ==
  ASSUME IInv, UNCHANGED <<mode, queue, ctl, idle, outcome>>
  PROVE  /\ Places' /\ Residents' /\ Live' = Live
         /\ phase' = (IF Live = {} THEN "idle" ELSE "admit") => (phase' = "idle" => Live' = {})
<1> USE DEF IInv
<1>1. Live' = Live BY DEF Live
<1>2. Places' BY <1>1 DEF Places, Outstanding
<1>3. Residents' BY <1>1 DEF Residents, OneResident, ResidentsBounded
<1>4. QED BY <1>1, <1>2, <1>3

\* One chunk of the selected row: the others have waited for it, the rounds start again
\* and the cursor has passed it.
LEMMA IndependentPrefillKeeps ==
  ASSUME IInv, IndependentPrefill, UNCHANGED <<mode, queue, ctl, idle, outcome>>,
         phase' = (IF Live = {} THEN "idle" ELSE "admit"), at' = 1
  PROVE  IInv'
<1> USE DEF IInv
<1> DEFINE t == SelectPrefill
<1>1. /\ mode.independent /\ RunPrefill /\ Holding("prefill") # {}
      /\ spent' = 0 /\ cursor' = t + 1 /\ Prefill({t})
  BY DEF IndependentPrefill, RunPrefill
<1>2. t \in Holding("prefill")
      /\ (~mode.oldest => \A s \in Holding("prefill") : Distance(t) <= Distance(s))
  BY <1>1, SelectPrefillIs
<1> HIDE DEF t
<1>3. t \in Slots /\ ctl[t] # 0 /\ ev[t] = "prefill" BY <1>2 DEF Holding, Live
<1>4. /\ ev' = [s \in Slots |-> IF s = t THEN "none" ELSE ev[s]]
      /\ waited' = [s \in Slots |-> IF s = t \/ ev[s] = "none" THEN NoWait
                                    ELSE [waited[s] EXCEPT !["prefill"] = @ + 1]]
  BY <1>1, <1>3 DEF Prefill, Answer
<1>5. MaxActive \in Nat \ {0} /\ Budget \in Nat \ {0} /\ Slots = 1 .. MaxActive BY RowsAre DEF Slots
<1>6. ASSUME NEW s \in Slots, ev'[s] # "none"
      PROVE  /\ s # t /\ ev[s] = ev'[s] /\ waited[s] \in [verify : Nat, prefill : Nat]
             /\ waited'[s].prefill = waited[s].prefill + 1 /\ waited'[s].verify = waited[s].verify
             /\ waited'[s] \in [verify : Nat, prefill : Nat]
  <2>1. s # t /\ ev[s] = ev'[s] /\ ev[s] # "none" BY <1>4, <1>6
  <2>2. waited'[s] = [waited[s] EXCEPT !["prefill"] = @ + 1] BY <1>4, <2>1
  <2>3. waited[s] \in [verify : Nat, prefill : Nat] BY DEF Types
  <2>4. QED BY <2>1, <2>2, <2>3, WaitedMore
<1>7. ASSUME NEW s \in Slots, ev'[s] = "none" PROVE waited'[s] = NoWait
  BY <1>4, <1>7
<1>8. Types'
  <2>1. waited' \in [Slots -> [verify : Nat, prefill : Nat]]
    <3>1. \A s \in Slots : waited'[s] \in [verify : Nat, prefill : Nat]
      BY <1>6, <1>7 DEF NoWait
    <3>2. QED BY <1>4, <3>1
  <2>2. ev' \in [Slots -> {"none", "prefill", "draft", "verify"}] BY <1>4 DEF Types
  <2>3. at' \in 1 .. MaxActive + 1 /\ cursor' \in 1 .. MaxActive + 1 /\ spent' \in 0 .. Budget
    BY <1>1, <1>3, <1>5
  <2>4. QED BY <2>1, <2>2, <2>3 DEF Types
<1>9. Live' = Live /\ Places' /\ Residents' /\ (phase' = "idle" => Live' = {}) BY ExecuteFrame
<1>10. Rows' BY <1>1, <1>4, <1>7, <1>9 DEF Rows
<1>11. Turns'
  <2> SUFFICES ASSUME NEW s \in Slots
               PROVE  /\ ev'[s] = "prefill" =>
                           /\ waited'[s].verify <= Budget * waited'[s].prefill + spent'
                           /\ ~mode.oldest => waited'[s].prefill + Distance(s)' < MaxActive
                      /\ ev'[s] = "verify" /\ mode.independent =>
                           waited'[s].prefill = 0 \/ (waited'[s].prefill = 1 /\ spent' < Budget)
    BY DEF Turns
  <2>1. CASE ev'[s] = "prefill"
    <3>1. waited'[s].verify <= Budget * waited'[s].prefill + spent'
      <4>1. waited[s].verify <= Budget * waited[s].prefill + spent /\ spent <= Budget
            /\ spent \in Nat
        BY <1>5, <1>6, <2>1 DEF Turns, Types
      <4>2. \A n \in Nat : Budget * (n + 1) = Budget * n + Budget /\ Budget * n \in Nat BY <1>5
      <4>3. waited[s].prefill \in Nat /\ waited[s].verify \in Nat BY DEF Types
      <4>4. Budget * (waited[s].prefill + 1) = Budget * waited[s].prefill + Budget
            /\ Budget * waited[s].prefill \in Nat
        BY <4>2, <4>3
      <4>5. \A a \in Nat : waited[s].verify <= a + spent => waited[s].verify <= a + Budget + 0
        BY <1>5, <4>1, <4>3
      <4>6. waited[s].verify <= Budget * (waited[s].prefill + 1) + 0 BY <4>1, <4>4, <4>5
      <4>7. QED BY <1>1, <1>6, <2>1, <4>6
    <3>2. ASSUME ~mode.oldest PROVE waited'[s].prefill + Distance(s)' < MaxActive
      <4>1. waited[s].prefill + Distance(s) < MaxActive BY <1>6, <2>1, <3>2 DEF Turns
      <4>2. s # t /\ s \in Holding("prefill")
        BY <1>6, <2>1 DEF Holding, Live, Rows
      <4>3. Distance(t) <= Distance(s) BY <1>2, <3>2, <4>2
      <4>4. cursor \in 1 .. MaxActive + 1 BY DEF Types
      <4>5. Distance(s)' = IF t + 1 <= s THEN s - (t + 1) ELSE MaxActive + s - (t + 1)
        BY <1>1 DEF Distance
      <4>6. Distance(s)' <= Distance(s) - 1 /\ Distance(s) \in Int /\ Distance(s)' \in Int
        BY <1>3, <1>5, <4>2, <4>3, <4>4, <4>5 DEF Distance
      <4>7. QED BY <1>5, <1>6, <2>1, <4>1, <4>6, SMTT(30)
    <3>3. QED BY <2>1, <3>1, <3>2
  <2>2. CASE ev'[s] = "verify"
    <3>1. ev[s] = "verify" /\ s \in Holding("verify") BY <1>6, <2>2 DEF Holding, Live, Rows
    <3>2. spent >= Budget BY <1>1, <3>1 DEF RunPrefill
    <3>3. waited[s].prefill = 0 BY <1>1, <1>5, <3>1, <3>2 DEF Turns, Types
    <3>4. waited'[s].prefill = 1 BY <1>6, <2>2, <3>3
    <3>5. QED BY <1>1, <1>5, <2>2, <3>4
  <2>3. QED BY <2>1, <2>2
<1>12. QED BY <1>8, <1>9, <1>10, <1>11

\* A joint batch serves every prefilling row.
LEMMA JointPrefillKeeps ==
  ASSUME IInv, JointPrefill, UNCHANGED <<mode, queue, ctl, idle, outcome>>,
         phase' = (IF Live = {} THEN "idle" ELSE "admit"), at' = 1
  PROVE  IInv'
<1> USE DEF IInv
<1>1. ~mode.independent /\ UNCHANGED <<spent, cursor>> /\ Prefill(Holding("prefill"))
  BY DEF JointPrefill, policy
<1>2. /\ ev' = [s \in Slots |-> IF s \in Holding("prefill") THEN "none" ELSE ev[s]]
      /\ waited' = [s \in Slots |-> IF s \in Holding("prefill") \/ ev[s] = "none" THEN NoWait
                                    ELSE [waited[s] EXCEPT !["prefill"] = @ + 1]]
  BY <1>1 DEF Prefill, Answer
<1>3. \A s \in Slots : ev[s] = "prefill" => s \in Holding("prefill") BY DEF Holding, Live, Rows
<1>4. \A s \in Slots : ev'[s] # "prefill" /\ (ev'[s] = "none" => waited'[s] = NoWait)
  BY <1>2, <1>3
<1>5. Types'
  <2>1. waited' \in [Slots -> [verify : Nat, prefill : Nat]]
    <3>1. ASSUME NEW s \in Slots PROVE waited'[s] \in [verify : Nat, prefill : Nat]
      <4>1. waited[s] \in [verify : Nat, prefill : Nat] BY DEF Types
      <4>2. [waited[s] EXCEPT !["prefill"] = @ + 1] \in [verify : Nat, prefill : Nat]
        BY <4>1, WaitedMore
      <4>3. NoWait \in [verify : Nat, prefill : Nat] BY DEF NoWait
      <4>4. QED BY <1>2, <4>2, <4>3
    <3>2. QED BY <1>2, <3>1
  <2>2. ev' \in [Slots -> {"none", "prefill", "draft", "verify"}] BY <1>2 DEF Types
  <2>3. QED BY <1>1, <2>1, <2>2, RowsAre DEF Types
<1>6. Live' = Live /\ Places' /\ Residents' /\ (phase' = "idle" => Live' = {}) BY ExecuteFrame
<1>7. Rows' BY <1>2, <1>4, <1>6 DEF Rows
<1>8. Turns' BY <1>1, <1>4 DEF Turns
<1>9. QED BY <1>5, <1>6, <1>7, <1>8

\* Drafts are answered; the policy does not count them.
LEMMA DraftKeeps ==
  ASSUME IInv, Draft, UNCHANGED <<mode, queue, ctl, idle, outcome>>,
         phase' = (IF Live = {} THEN "idle" ELSE "admit"), at' = 1
  PROVE  IInv'
<1> USE DEF IInv
<1>1. /\ ev' = [s \in Slots |-> IF ev[s] = "draft" THEN "none" ELSE ev[s]]
      /\ waited' = [s \in Slots |-> IF ev[s] = "draft" THEN NoWait ELSE waited[s]]
      /\ UNCHANGED <<spent, cursor>>
  BY DEF Draft, policy
<1>2. Types'
  <2>1. waited' \in [Slots -> [verify : Nat, prefill : Nat]] BY <1>1 DEF NoWait, Types
  <2>2. QED BY <1>1, <2>1, RowsAre DEF Types
<1>3. Live' = Live /\ Places' /\ Residents' /\ (phase' = "idle" => Live' = {}) BY ExecuteFrame
<1>4. Rows' BY <1>1, <1>3 DEF Rows
<1>5. Turns' BY <1>1 DEF Turns, Distance
<1>6. QED BY <1>2, <1>3, <1>4, <1>5

\* A verify round goes before a waiting prefill only while rounds are left to spend.
LEMMA VerifyKeeps ==
  ASSUME IInv, Verify, UNCHANGED <<mode, queue, ctl, idle, outcome>>,
         phase' = (IF Live = {} THEN "idle" ELSE "admit"), at' = 1
  PROVE  IInv'
<1> USE DEF IInv
<1>1. /\ NoPrefill /\ Holding("verify") # {} /\ cursor' = cursor /\ spent' = Verified
      /\ Answer(Holding("verify"), "verify")
  BY DEF Verify
<1>2. /\ ev' = [s \in Slots |-> IF s \in Holding("verify") THEN "none" ELSE ev[s]]
      /\ waited' = [s \in Slots |-> IF s \in Holding("verify") \/ ev[s] = "none" THEN NoWait
                                    ELSE [waited[s] EXCEPT !["verify"] = @ + 1]]
  BY <1>1 DEF Answer
<1>3. \A s \in Slots : \A k \in {"prefill", "verify"} : ev[s] = k => s \in Holding(k)
  BY DEF Holding, Live, Rows
<1>4. MaxActive \in Nat \ {0} /\ Budget \in Nat \ {0} /\ spent \in 0 .. Budget BY RowsAre DEF Types
<1>5. spent' \in 0 .. Budget
  <2>1. Verified = (IF mode.independent THEN IF spent + 1 <= Budget THEN spent + 1 ELSE Budget ELSE spent)
    BY <1>4, TwoNumbers DEF Verified
  <2>2. QED BY <1>1, <1>4, <2>1
<1>6. ASSUME NEW s \in Slots, ev'[s] # "none"
      PROVE  /\ ev[s] = ev'[s] /\ ev[s] # "verify" /\ waited[s] \in [verify : Nat, prefill : Nat]
             /\ waited'[s].prefill = waited[s].prefill /\ waited'[s].verify = waited[s].verify + 1
             /\ waited'[s] \in [verify : Nat, prefill : Nat]
  <2>1. ~(s \in Holding("verify")) /\ ev[s] = ev'[s] /\ ev[s] # "none" BY <1>2, <1>6
  <2>2. waited'[s] = [waited[s] EXCEPT !["verify"] = @ + 1] BY <1>2, <2>1
  <2>3. waited[s] \in [verify : Nat, prefill : Nat] BY DEF Types
  <2>4. ev[s] # "verify" BY <1>3, <2>1
  <2>5. QED BY <2>1, <2>2, <2>3, <2>4, WaitedMore
<1>7. ASSUME NEW s \in Slots, ev'[s] = "none" PROVE waited'[s] = NoWait
  BY <1>2, <1>7
<1>8. ASSUME NEW s \in Slots, ev[s] = "prefill"
      PROVE  mode.independent /\ spent < Budget /\ spent' = spent + 1
  <2>1. mode.independent /\ spent < Budget
    BY <1>1, <1>3, <1>4, <1>8 DEF NoPrefill, RunPrefill
  <2>2. \A a, b \in Int : Min({a, b}) = IF a <= b THEN a ELSE b BY TwoNumbers
  <2>3. QED BY <1>1, <1>4, <2>1, <2>2 DEF Verified
<1>9. Types'
  <2>1. waited' \in [Slots -> [verify : Nat, prefill : Nat]]
    <3>1. \A s \in Slots : waited'[s] \in [verify : Nat, prefill : Nat]
      BY <1>6, <1>7 DEF NoWait
    <3>2. QED BY <1>2, <3>1
  <2>2. ev' \in [Slots -> {"none", "prefill", "draft", "verify"}] BY <1>2 DEF Types
  <2>3. QED BY <1>1, <1>4, <1>5, <2>1, <2>2 DEF Types
<1>10. Live' = Live /\ Places' /\ Residents' /\ (phase' = "idle" => Live' = {}) BY ExecuteFrame
<1>11. Rows'
  <2>1. \A s \in Slots : ev'[s] = "prefill" => mode.independent BY <1>6, <1>8
  <2>2. QED BY <1>2, <1>7, <1>10, <2>1 DEF Rows
<1>12. Turns'
  <2>1. ASSUME NEW s \in Slots, ev'[s] = "prefill"
        PROVE  /\ waited'[s].verify <= Budget * waited'[s].prefill + spent'
               /\ ~mode.oldest => waited'[s].prefill + Distance(s)' < MaxActive
    <3>1. ev[s] = "prefill" BY <1>6, <2>1
    <3>2. Budget * waited[s].prefill \in Int BY <1>4, <1>6, <2>1
    <3>3. Distance(s)' = Distance(s) BY <1>1 DEF Distance
    <3>4. QED BY <1>4, <1>6, <1>8, <2>1, <3>1, <3>2, <3>3 DEF Turns
  <2>2. \A s \in Slots : ev'[s] # "verify" BY <1>6
  <2>3. QED BY <2>1, <2>2 DEF Turns
<1>13. QED BY <1>9, <1>10, <1>11, <1>12

\* A turn that found nothing to execute.
LEMMA NothingReadyKeeps ==
  ASSUME IInv, NothingReady, UNCHANGED <<mode, queue, ctl, idle, outcome>>,
         phase' = (IF Live = {} THEN "idle" ELSE "admit"), at' = 1
  PROVE  IInv'
<1> USE DEF IInv, NothingReady, policy
<1>1. Types' BY RowsAre DEF Types
<1>2. Live' = Live /\ Places' /\ Residents' /\ (phase' = "idle" => Live' = {}) BY ExecuteFrame
<1>3. Rows' BY <1>2 DEF Rows
<1>4. Turns' BY DEF Turns, Distance
<1>5. QED BY <1>1, <1>2, <1>3, <1>4

\* Every step of the scheduler and of its clients keeps the invariant.
LEMMA SchedulerStep == IInv /\ [Next]_vars => IInv'
<1> SUFFICES ASSUME IInv, [Next]_vars PROVE IInv' OBVIOUS
<1>1. CASE UNCHANGED vars
  BY <1>1 DEF vars, work, policy, IInv, Types, Rows, Places, Residents, Turns, Live, Outstanding,
              OneResident, ResidentsBounded, Distance
<1>2. CASE Execute
  <2>1. /\ UNCHANGED <<mode, queue, ctl, idle, outcome>> /\ at' = 1
        /\ phase' = (IF Live = {} THEN "idle" ELSE "admit")
        /\ IndependentPrefill \/ JointPrefill \/ Draft \/ Verify \/ NothingReady
    BY <1>2 DEF Execute
  <2>2. QED BY <2>1, IndependentPrefillKeeps, JointPrefillKeeps, DraftKeeps, VerifyKeeps,
               NothingReadyKeeps
<1>3. CASE RunFails
  <2>1. Finish(Live, FALSE) /\ at' = 1 /\ UNCHANGED <<mode, queue, policy>> BY <1>3 DEF RunFails
  <2>2. at' \in 1 .. MaxActive + 1 BY <2>1, RowsAre DEF IInv
  <2>3. QED BY <2>1, <2>2, FinishKeeps
<1>4. CASE \E r \in Requests : Submit(r) \/ Cancel(r)
  BY <1>4, SubmitKeeps, CancelKeeps
<1>5. QED BY <1>1, <1>2, <1>3, <1>4, RunBeginsKeeps, ClearSessionsKeeps, AdmitRowKeeps,
             AdmitEndsKeeps, ResumeKeeps
          DEF Next, Scheduler

\* The invariant of the scheduler.
THEOREM SchedulerInvariant == Spec => []IInv
<1>1. QED BY SchedulerInit, SchedulerStep, PTL DEF Spec

\* A session has one executor: parked once under its key, or in a row.
THEOREM OneResidentAlways == Spec => []OneResident
<1>1. IInv => OneResident BY DEF IInv, Residents
<1>2. QED BY <1>1, SchedulerInvariant, PTL

\* Rows and parked executors together stay within the rows that were budgeted.
THEOREM ResidentsBoundedAlways == Spec => []ResidentsBounded
<1>1. IInv => ResidentsBounded BY DEF IInv, Residents
<1>2. QED BY <1>1, SchedulerInvariant, PTL

\* Both at once, for the accounting of device memory by rows and parked sessions.
THEOREM ResidentsAlways == Spec => []Residents
<1>1. IInv => Residents BY DEF IInv
<1>2. QED BY <1>1, SchedulerInvariant, PTL

\* A prefill waits for at most Budget verify rounds per chunk served, and in round robin
\* for at most one chunk of each other row.
THEOREM PrefillServedAlways == Spec => []PrefillServed
<1>1. IInv => PrefillServed
  <2> SUFFICES ASSUME IInv, NEW s \in Holding("prefill")
               PROVE  /\ waited[s].verify <= Budget * (waited[s].prefill + 1)
                      /\ ~mode.oldest => waited[s].prefill < MaxActive
    BY DEF PrefillServed
  <2>1. s \in Slots /\ ev[s] = "prefill" /\ waited[s] \in [verify : Nat, prefill : Nat]
        /\ spent \in 0 .. Budget /\ cursor \in 1 .. MaxActive + 1
    BY DEF Holding, Live, IInv, Types
  <2>2. MaxActive \in Nat \ {0} /\ Budget \in Nat \ {0} BY RowsAre DEF IInv
  <2>3. /\ waited[s].verify <= Budget * waited[s].prefill + spent
        /\ ~mode.oldest => waited[s].prefill + Distance(s) < MaxActive
    BY <2>1 DEF IInv, Turns
  <2>4. Budget * (waited[s].prefill + 1) = Budget * waited[s].prefill + Budget
        /\ Budget * waited[s].prefill \in Nat
    BY <2>1, <2>2
  <2>5. Distance(s) \in Nat BY <2>1, <2>2 DEF Distance, Slots
  <2>6. QED BY <2>1, <2>2, <2>3, <2>4, <2>5
<1>2. QED BY <1>1, SchedulerInvariant, PTL

\* A row ready for its target round lets at most one independent prefill chunk go first.
THEOREM VerifyServedAlways == Spec => []VerifyServed
<1>1. IInv => VerifyServed
  BY DEF IInv, Turns, VerifyServed, Holding, Live
<1>2. QED BY <1>1, SchedulerInvariant, PTL
-----------------------------------------------------------------------------
(***************************************************************************)
(* Underneath, resume() and yield() of CooperativeRequest hand control to  *)
(* a row's controller and back.  For any set of controllers and any        *)
(* bodies: one thread at a time uses the backend, an event the scheduler   *)
(* holds is alive, and stopping is final.  The inductive invariant is      *)
(* HandshakeOK itself; of the scheduler above nothing is used.             *)
(***************************************************************************)
\* The handshake holds before any controller was resumed.
LEMMA HandshakeInit == HandoverInit => HandshakeOK
  BY DEF HandoverInit, HandshakeOK, HandoverTypes, Handshake

\* Steps of the scheduler: it turns to a controller only when it waits for none.
LEMMA HandshakeScheduler ==
  ASSUME HandshakeOK, NEW c \in Controllers,
         Resume(c) \/ Destroy(c) \/ ResumeReturns \/ Joined
  PROVE  HandshakeOK'
<1>1. CASE Resume(c)
  <2>1. HandoverTypes'
    BY <1>1 DEF Resume, LetGo, HandshakeOK, HandoverTypes
  <2>2. ASSUME NEW d \in Controllers PROVE Handshake(d)'
    BY <1>1, <2>2 DEF Resume, Resumable, LetGo, HandshakeOK, HandoverTypes, Handshake
  <2>3. QED BY <2>1, <2>2 DEF HandshakeOK
<1>2. CASE Destroy(c)
  <2>1. HandoverTypes'
    BY <1>2 DEF Destroy, LetGo, HandshakeOK, HandoverTypes
  <2>2. ASSUME NEW d \in Controllers PROVE Handshake(d)'
    BY <1>2, <2>2 DEF Destroy, LetGo, HandshakeOK, HandoverTypes, Handshake
  <2>3. QED BY <2>1, <2>2 DEF HandshakeOK
<1>3. CASE ResumeReturns
  <2>1. HandoverTypes'
    BY <1>3 DEF ResumeReturns, HandshakeOK, HandoverTypes
  <2>2. ASSUME NEW d \in Controllers PROVE Handshake(d)'
    BY <1>3, <2>2 DEF ResumeReturns, Returns, HandshakeOK, HandoverTypes, Handshake
  <2>3. QED BY <2>1, <2>2 DEF HandshakeOK
<1>4. CASE Joined
  <2>1. HandoverTypes'
    BY <1>4 DEF Joined, HandshakeOK, HandoverTypes
  <2>2. ASSUME NEW d \in Controllers PROVE Handshake(d)'
    BY <1>4, <2>2 DEF Joined, HandshakeOK, HandoverTypes, Handshake
  <2>3. QED BY <2>1, <2>2 DEF HandshakeOK
<1>5. QED BY <1>1, <1>2, <1>3, <1>4

\* Steps of a controller's thread: a woken one is the one being waited for.
LEMMA HandshakeThread ==
  ASSUME HandshakeOK, NEW c \in Controllers, Thread(c)
  PROVE  HandshakeOK'
<1>1. CASE Wake(c)
  <2>1. HandoverTypes'
    BY <1>1 DEF Wake, AfterWait, HandshakeOK, HandoverTypes
  <2>2. ASSUME NEW d \in Controllers PROVE Handshake(d)'
    BY <1>1, <2>2 DEF Wake, AfterWait, HandshakeOK, HandoverTypes, Handshake
  <2>3. QED BY <2>1, <2>2 DEF HandshakeOK
<1>2. CASE Yield(c)
  <2>1. HandoverTypes'
    BY <1>2 DEF Yield, HandshakeOK, HandoverTypes
  <2>2. ASSUME NEW d \in Controllers PROVE Handshake(d)'
    BY <1>2, <2>2 DEF Yield, MayYield, HandshakeOK, HandoverTypes, Handshake
  <2>3. QED BY <2>1, <2>2 DEF HandshakeOK
<1>3. CASE BodyEnds(c)
  <2>1. HandoverTypes'
    BY <1>3 DEF BodyEnds, HandshakeOK, HandoverTypes
  <2>2. ASSUME NEW d \in Controllers PROVE Handshake(d)'
    BY <1>3, <2>2 DEF BodyEnds, HandshakeOK, HandoverTypes, Handshake
  <2>3. QED BY <2>1, <2>2 DEF HandshakeOK
<1>4. CASE Exit(c)
  <2>1. HandoverTypes'
    BY <1>4 DEF Exit, HandshakeOK, HandoverTypes
  <2>2. ASSUME NEW d \in Controllers PROVE Handshake(d)'
    BY <1>4, <2>2 DEF Exit, HandshakeOK, HandoverTypes, Handshake
  <2>3. QED BY <2>1, <2>2 DEF HandshakeOK
<1>5. QED BY <1>1, <1>2, <1>3, <1>4 DEF Thread

\* Every step of resume, yield, the destructor and the threads keeps the handshake.
LEMMA HandshakeStep == HandshakeOK /\ [HandoverNext]_handoverVars => HandshakeOK'
<1> SUFFICES ASSUME HandshakeOK, [HandoverNext]_handoverVars PROVE HandshakeOK' OBVIOUS
<1>1. CASE UNCHANGED handoverVars
  BY <1>1 DEF handoverVars, HandshakeOK, HandoverTypes, Handshake
<1>2. CASE \E c \in Controllers : Resume(c) \/ Destroy(c)
  BY <1>2, HandshakeScheduler
<1>3. CASE \E c \in Controllers : Thread(c)
  BY <1>3, HandshakeThread
<1>4. CASE ResumeReturns \/ Joined
  <2>1. \E c \in Controllers : TRUE BY DEF HandshakeOK, HandoverTypes
  <2>2. QED BY <1>4, <2>1, HandshakeScheduler
<1>5. QED BY <1>1, <1>2, <1>3, <1>4 DEF HandoverNext

\* The handshake between resume() and yield() is kept by every number of controllers.
THEOREM HandshakeInvariant == HandoverSpec => []HandshakeOK
<1>1. QED BY HandshakeInit, HandshakeStep, PTL DEF HandoverSpec

\* The shared backend is used by one thread at a time: a controller runs or unwinds only
\* while the scheduler waits for it in resume() or in the destructor's join.
THEOREM OneRunsAlways == HandoverSpec => []OneRuns
<1>1. HandshakeOK => OneRuns
  BY DEF HandshakeOK, Handshake, OneRuns, UsesBackend, HandoverTypes
<1>2. QED BY <1>1, HandshakeInvariant, PTL

\* An event pointer the scheduler holds is on the stack of a suspended controller.
THEOREM EventLiveAlways == HandoverSpec => []EventLive
<1>1. HandshakeOK => EventLive
  BY DEF HandshakeOK, Handshake, EventLive, HandoverTypes
<1>2. QED BY <1>1, HandshakeInvariant, PTL

\* A controller stopped by its destructor never runs its body again.
THEOREM StopIsFinalAlways == HandoverSpec => StopIsFinal
<1>1. HandshakeOK /\ [HandoverNext]_handoverVars
        => [\A c \in Controllers : stopping[c] /\ pc[c] # "body" => pc'[c] # "body"]_handoverVars
  BY DEF HandshakeOK, HandoverTypes, HandoverNext, handoverVars, Resume, Destroy,
         ResumeReturns, Joined, Thread, Wake, AfterWait, Yield, BodyEnds, Exit
<1>2. QED BY <1>1, HandshakeInvariant, PTL DEF HandoverSpec, StopIsFinal
=============================================================================
