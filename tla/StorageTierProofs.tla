------------------------- MODULE StorageTierProofs --------------------------
(***************************************************************************)
(* The storage behind the repository, for any number of repository slots,  *)
(* of tier slots and of generations, and for any threads on one NVMe slot. *)
(*                                                                         *)
(* First the release bundle: the allocators keep their slots partitioned,  *)
(* and the bundle frees exactly what the retired generation holds.  The    *)
(* inductive invariant adds what the bundle remembers of a retired slot:   *)
(* an allocation it captured is still the slot's allocation, or is gone.   *)
(*                                                                         *)
(* Then the copy-on-write overlay: a write that returned survives, a read  *)
(* that begins after it sees it, and nobody reads a half-initialized slot. *)
(* The inductive invariant says who may hold the slot (Claiming) and what  *)
(* the overlay file and the readers' buffers hold at every place of        *)
(* write_overlay_slot_range.                                               *)
(***************************************************************************)
EXTENDS StorageRelease, NvmeOverlay, SequenceTheorems, FiniteSetTheorems, TLAPS

----------------------------------------------------------------------------
(* The invariant.                                                          *)

TierType == [free : Seq(Slots), map : [Blocks -> Slots \cup {None}], lru : Seq(Blocks),
             gens : [Slots -> Nat], seq : Nat]
AllocationType == [block : Blocks, slot : Slots \cup {None}, gen : Nat]
PendingType == [gen : Nat, alloc : [Tiers -> AllocationType],
                captured : SUBSET Tiers, done : SUBSET Tiers]

Types ==
  /\ generation \in [Blocks -> Nat]
  /\ phase \in [Blocks -> {"free", "live", "retired"}]
  /\ tier \in [Tiers -> TierType]
  /\ pending \in [Blocks -> PendingType]
  /\ written \in [Blocks -> SUBSET Tiers]

\* SlotPartition of one tier.
Partition(T) ==
  /\ IsInjective(T.free) /\ IsInjective(T.lru)
  /\ \A b, c \in Blocks : (b # c /\ T.map[b] # None) => T.map[b] # T.map[c]
  /\ {T.map[b] : b \in Blocks} \cap Range(T.free) = {}
  /\ Slots = Range(T.free) \cup ({T.map[b] : b \in Blocks} \ {None})
  /\ Range(T.lru) = {b \in Blocks : T.map[b] # None}

\* What the bundle remembers of tier t for a retired slot: a released tier holds nothing,
\* and what the slot still holds there is the captured allocation.
Remembers(b, t) ==
  LET p == pending[b] T == tier[t] IN
  /\ t \in p.done => T.map[b] = None
  /\ (t \in p.captured \ p.done /\ T.map[b] # None) =>
       p.alloc[t].slot = T.map[b] /\ p.alloc[t].gen = T.gens[T.map[b]]

\* A slot's storage in the two tiers, by its phase.
Stored(b) ==
  /\ pending[b].gen <= generation[b]
  /\ \A t \in Tiers : pending[b].alloc[t].block = b /\ (t \notin Enabled => tier[t].map[b] = None)
  /\ phase[b] = "free" => written[b] = {} /\ \A t \in Tiers : tier[t].map[b] = None
  /\ phase[b] = "live" => /\ pending[b].gen < generation[b]
                          /\ \A t \in Tiers : (tier[t].map[b] # None) = (t \in written[b])
  /\ (phase[b] = "retired" /\ pending[b].gen = generation[b]) => \A t \in Tiers : Remembers(b, t)

IInv == /\ Types
        /\ \A t \in Tiers : Partition(tier[t])
        /\ \A b \in Blocks : Stored(b)

----------------------------------------------------------------------------
(* Free lists and recency lists: each element is listed once.              *)

\* A nonempty set of naturals has a least element.
LEMMA LeastNatural ==
  ASSUME NEW S \in SUBSET Nat, S # {} PROVE \E m \in S : \A n \in S : m <= n
<1> DEFINE R == OpToRel(<, Nat)
<1>1. \A m, n \in Nat : n < m => <<n, m>> \in R BY DEF OpToRel
<1>2. IsWellFoundedOn(R, Nat) BY NatLessThanWellFounded, Zenon
<1> HIDE DEF R
<1>3. PICK m \in S : \A n \in S : <<n, m>> \notin R BY <1>2, WFMin
<1>4. \A n \in S : ~(n < m) BY <1>1, <1>3
<1>5. \A n \in S : m <= n BY <1>4
<1>6. QED BY <1>5

\* Erasing the position of a listed element, or nothing when it is not listed (find and
\* erase on a deque, erase_lru_locked): the others stay listed, once each.
LEMMA RemoveFirstIs ==
  ASSUME NEW S, NEW q \in Seq(S), IsInjective(q), NEW b
  PROVE  /\ RemoveFirst(q, b) \in Seq(S)
         /\ IsInjective(RemoveFirst(q, b))
         /\ Range(RemoveFirst(q, b)) = Range(q) \ {b}
<1>1. CASE \E i \in 1 .. Len(q) : q[i] = b
  <2> DEFINE I == {i \in 1 .. Len(q) : q[i] = b}
  <2>1. I \in SUBSET Nat /\ I # {} BY <1>1
  <2>2. PICK k \in I : k = Min(I)
    <3>1. \E m \in I : \A n \in I : m <= n BY <2>1, LeastNatural
    <3>2. QED BY <3>1 DEF Min
  <2>3. RemoveFirst(q, b) = RemoveAt(q, k)
    BY <1>1, <2>1, <2>2 DEF RemoveFirst, SelectInSeq
  <2> DEFINE front == SubSeq(q, 1, k - 1)
             back == SubSeq(q, k + 1, Len(q))
             u == front \o back
  <2>4. k \in 1 .. Len(q) /\ q[k] = b BY <2>2
  <2> HIDE DEF I
  <2>5. /\ front \in Seq(S) /\ Len(front) = k - 1
        /\ \A i \in 1 .. k - 1 : front[i] = q[i]
    BY <2>4
  <2>6. /\ back \in Seq(S) /\ Len(back) = Len(q) - k
        /\ \A i \in 1 .. Len(q) - k : back[i] = q[i + k]
    BY <2>4
  <2> HIDE DEF front, back
  <2>7. /\ u \in Seq(S) /\ Len(u) = Len(q) - 1
        /\ \A i \in 1 .. Len(q) - 1 : u[i] = IF i < k THEN q[i] ELSE q[i + 1]
    <3>1. /\ u \in Seq(S) /\ Len(u) = Len(front) + Len(back)
          /\ \A i \in 1 .. Len(front) + Len(back) :
               u[i] = IF i <= Len(front) THEN front[i] ELSE back[i - Len(front)]
      BY <2>5, <2>6, ConcatProperties
    <3>2. ASSUME NEW i \in 1 .. Len(q) - 1, i < k PROVE u[i] = q[i]
      BY <3>1, <3>2, <2>4, <2>5, <2>6
    <3>3. ASSUME NEW i \in 1 .. Len(q) - 1, i >= k PROVE u[i] = q[i + 1]
      <4>1. u[i] = back[i - (k - 1)] /\ i - (k - 1) \in 1 .. Len(q) - k
        BY <3>1, <3>3, <2>4, <2>5, <2>6
      <4>2. back[i - (k - 1)] = q[(i - (k - 1)) + k] BY <4>1, <2>6
      <4>3. (i - (k - 1)) + k = i + 1 BY <2>4
      <4>4. QED BY <4>1, <4>2, <4>3
    <3>4. QED BY <3>1, <3>2, <3>3, <2>4, <2>5, <2>6
  <2>8. RemoveFirst(q, b) = u BY <2>3 DEF RemoveAt, front, back
  <2> HIDE DEF u
  <2> DOMAIN q = 1 .. Len(q) /\ DOMAIN u = 1 .. Len(q) - 1 BY <2>7
  <2>9. IsInjective(u) BY <2>4, <2>7, SMTT(30) DEF IsInjective
  <2>10. Range(u) = Range(q) \ {b}
    <3>1. ASSUME NEW x \in Range(u) PROVE x \in Range(q) /\ x # b
      BY <2>4, <2>7, SMTT(30) DEF IsInjective, Range
    <3>2. ASSUME NEW i \in 1 .. Len(q), q[i] # b PROVE q[i] \in Range(u)
      <4>1. CASE i < k BY <3>2, <4>1, <2>4, <2>7 DEF Range
      <4>2. CASE i > k
        <5>1. i - 1 \in 1 .. Len(q) - 1 /\ u[i - 1] = q[i] BY <4>2, <2>4, <2>7
        <5>2. QED BY <5>1, <2>7 DEF Range
      <4>3. QED BY <4>1, <4>2, <3>2, <2>4
    <3>3. QED BY <3>1, <3>2 DEF Range
  <2>11. QED BY <2>7, <2>8, <2>9, <2>10
<1>2. CASE ~\E i \in 1 .. Len(q) : q[i] = b
  BY <1>2 DEF RemoveFirst, Range
<1>3. QED BY <1>1, <1>2

\* Listing a new element: push_back on free_slots_ or on the recency list.
LEMMA AppendNew ==
  ASSUME NEW S, NEW q \in Seq(S), IsInjective(q), NEW x \in S, x \notin Range(q)
  PROVE  /\ Append(q, x) \in Seq(S) /\ IsInjective(Append(q, x))
         /\ Range(Append(q, x)) = Range(q) \cup {x}
<1> DEFINE a == Append(q, x)
<1>1. /\ a \in Seq(S) /\ Len(a) = Len(q) + 1 /\ a[Len(q) + 1] = x
      /\ \A i \in 1 .. Len(q) : a[i] = q[i]
  BY AppendProperties
<1> HIDE DEF a
<1>2. DOMAIN q = 1 .. Len(q) /\ DOMAIN a = 1 .. Len(q) + 1 /\ Len(q) \in Nat BY <1>1
<1>3. IsInjective(a) BY <1>1, <1>2 DEF IsInjective, Range
<1>4. Range(a) = Range(q) \cup {x}
  <2>1. ASSUME NEW i \in 1 .. Len(q) + 1 PROVE a[i] \in Range(q) \cup {x}
    BY <1>1, <1>2 DEF Range
  <2>2. ASSUME NEW i \in 1 .. Len(q) PROVE q[i] \in Range(a)
    BY <1>1, <1>2 DEF Range
  <2>3. x \in Range(a) BY <1>1, <1>2 DEF Range
  <2>4. QED BY <2>1, <2>2, <2>3, <1>2 DEF Range
<1>5. QED BY <1>1, <1>3, <1>4 DEF a

\* back() and pop_back() on free_slots_.
LEMMA FrontLast ==
  ASSUME NEW S, NEW q \in Seq(S), IsInjective(q), q # <<>>
  PROVE  /\ Last(q) \in S /\ Last(q) \in Range(q)
         /\ Front(q) \in Seq(S) /\ IsInjective(Front(q))
         /\ Range(Front(q)) = Range(q) \ {Last(q)}
<1> DEFINE n == Len(q)
           g == SubSeq(q, 1, n - 1)
<1>1. n \in Nat \ {0} /\ DOMAIN q = 1 .. n OBVIOUS
<1>2. /\ g \in Seq(S) /\ Len(g) = n - 1 /\ DOMAIN g = 1 .. n - 1
      /\ \A i \in 1 .. n - 1 : g[i] = q[i]
  BY <1>1
<1>3. Front(q) = g /\ Last(q) = q[n] BY DEF Front, Last
<1>4. q[n] \in S /\ q[n] \in Range(q) BY <1>1 DEF Range
<1> HIDE DEF g, n
<1>5. IsInjective(g) BY <1>1, <1>2 DEF IsInjective
<1>6. Range(g) = Range(q) \ {q[n]}
  <2>1. ASSUME NEW i \in 1 .. n - 1 PROVE g[i] \in Range(q) /\ g[i] # q[n]
    BY <1>1, <1>2 DEF Range, IsInjective
  <2>2. ASSUME NEW i \in 1 .. n, q[i] # q[n] PROVE q[i] \in Range(g)
    BY <1>1, <1>2, <2>2 DEF Range
  <2>3. QED BY <1>1, <1>2, <2>1, <2>2, ZenonT(60) DEF Range
<1>7. QED BY <1>2, <1>3, <1>4, <1>5, <1>6

----------------------------------------------------------------------------
(* The allocator.                                                          *)

\* clear(): every slot is free, nothing is resident; the slots keep their generations.
LEMMA ClearedIs ==
  ASSUME NEW F, NEW M, NEW L,
         NEW T \in [free : F, map : M, lru : L, gens : [Slots -> Nat], seq : Nat]
  PROVE  /\ Cleared(T) \in TierType /\ Partition(Cleared(T))
         /\ \A b \in Blocks : Cleared(T).map[b] = None
<1> DEFINE all == [i \in 1 .. TierSlots |-> TierSlots - i]
<1>1. Cleared(T) = [T EXCEPT !.free = all, !.map = [b \in Blocks |-> None], !.lru = <<>>]
  BY DEF Cleared
<1>2. all \in Seq(Slots) /\ IsInjective(all) /\ Range(all) = Slots
  <2>1. \A i \in 1 .. TierSlots : TierSlots - i \in Slots BY StorageConfig DEF Slots
  <2>2. all \in Seq(Slots) BY <2>1, StorageConfig, IsASeq
  <2>3. IsInjective(all) BY StorageConfig DEF IsInjective
  <2>4. \A s \in Slots : TierSlots - s \in 1 .. TierSlots /\ all[TierSlots - s] = s
    BY StorageConfig DEF Slots
  <2>5. Range(all) = Slots
    <3>1. ASSUME NEW x \in Range(all) PROVE x \in Slots BY <2>1 DEF Range
    <3>2. ASSUME NEW x \in Slots PROVE x \in Range(all) BY <2>4 DEF Range
    <3>3. QED BY <3>1, <3>2
  <2>6. QED BY <2>2, <2>3, <2>5
<1> HIDE DEF all
<1>3. /\ Cleared(T) \in TierType /\ Cleared(T).free = all /\ Cleared(T).lru = <<>>
      /\ \A b \in Blocks : Cleared(T).map[b] = None
  <2> DEFINE empty == [b \in Blocks |-> None]
  <2>1. empty \in [Blocks -> Slots \cup {None}] /\ <<>> \in Seq(Blocks) OBVIOUS
  <2>2. \A b \in Blocks : empty[b] = None OBVIOUS
  <2> HIDE DEF empty
  <2>3. Cleared(T) = [T EXCEPT !.free = all, !.map = empty, !.lru = <<>>] BY <1>1 DEF empty
  <2>4. Cleared(T) \in [free : {all}, map : {empty}, lru : {<<>>},
                       gens : [Slots -> Nat], seq : Nat]
    BY <2>3
  <2>5. QED BY <1>2, <2>1, <2>2, <2>4 DEF TierType
<1>5. IsInjective(<<>>) /\ Range(<<>>) = {} BY DEF IsInjective, Range
<1>6. None \notin Slots BY DEF None, Slots
<1>7. Partition(Cleared(T)) BY <1>2, <1>3, <1>5, <1>6 DEF Partition
<1>8. QED BY <1>3, <1>7

\* place_block: a placed block takes a slot nobody holds, and no other block's
\* allocation changes.
LEMMA PlacedIs ==
  ASSUME NEW T \in TierType, Partition(T), NEW b \in Blocks
  PROVE  /\ Placed(T, b) \in TierType /\ Partition(Placed(T, b))
         /\ T.map[b] # None => Placed(T, b).map[b] = T.map[b]
         /\ \A c \in Blocks \ {b} : Placed(T, b).map[c] = T.map[c]
         /\ \A c \in Blocks \ {b} : T.map[c] # None =>
              Placed(T, b).gens[T.map[c]] = T.gens[T.map[c]]
<1> USE StorageConfig DEF TierType
<1> DEFINE u == Append(Unlisted(T.lru, b), b)
<1>1. /\ u \in Seq(Blocks) /\ IsInjective(u) /\ Range(u) = Range(T.lru) \cup {b}
  <2> DEFINE v == Unlisted(T.lru, b)
  <2>1. v \in Seq(Blocks) /\ IsInjective(v) /\ Range(v) = Range(T.lru) \ {b}
    BY RemoveFirstIs DEF Partition, Unlisted
  <2>2. u \in Seq(Blocks) /\ IsInjective(u) /\ Range(u) = Range(v) \cup {b}
    BY <2>1, AppendNew
  <2>3. QED BY <2>1, <2>2
<1> HIDE DEF u
<1>2. CASE T.map[b] # None
  <2>1. Placed(T, b) = [T EXCEPT !.lru = u] BY <1>2 DEF Placed, u
  <2>2. QED BY <1>1, <1>2, <2>1 DEF Partition
<1>3. CASE T.map[b] = None /\ T.free = <<>>
  BY <1>3 DEF Placed
<1>4. CASE T.map[b] = None /\ T.free # <<>>
  <2> DEFINE s == Last(T.free)
             g == Front(T.free)
  <2>1. Placed(T, b) = [T EXCEPT !.free = g, !.map[b] = s, !.gens[s] = T.seq + 1,
                                 !.seq = @ + 1, !.lru = u]
    BY <1>4 DEF Placed, u
  <2>2. /\ s \in Slots /\ g \in Seq(Slots) /\ IsInjective(g)
        /\ Range(g) = Range(T.free) \ {s} /\ s \in Range(T.free)
    BY <1>4, FrontLast DEF Partition
  <2> HIDE DEF s, g
  <2>3. Placed(T, b) \in TierType
    <3>1. [T.map EXCEPT ![b] = s] \in [Blocks -> Slots \cup {None}] BY <2>2
    <3>2. [T.gens EXCEPT ![s] = T.seq + 1] \in [Slots -> Nat] BY <2>2
    <3>3. QED BY <1>1, <2>1, <2>2, <3>1, <3>2
  <2>4. /\ Placed(T, b).map = [T.map EXCEPT ![b] = s] /\ Placed(T, b).free = g
        /\ Placed(T, b).lru = u /\ Placed(T, b).gens = [T.gens EXCEPT ![s] = T.seq + 1]
    BY <2>1
  <2>5. Partition(Placed(T, b)) BY <1>1, <1>4, <2>2, <2>4 DEF Partition
  <2>6. \A c \in Blocks : T.map[c] # s BY <2>2 DEF Partition
  <2>7. \A c \in Blocks \ {b} : T.map[c] # None => T.map[c] \in Slots /\ T.map[c] # s
    BY <2>6
  <2>8. QED BY <1>4, <2>2, <2>3, <2>4, <2>5, <2>7
<1>5. QED BY <1>2, <1>3, <1>4

\* release_block: the block's slot goes back to the free list and nothing else changes.
LEMMA UnplacedIs ==
  ASSUME NEW T \in TierType, Partition(T), NEW b \in Blocks
  PROVE  /\ Unplaced(T, b) \in TierType /\ Partition(Unplaced(T, b))
         /\ Unplaced(T, b).map = [T.map EXCEPT ![b] = None]
         /\ Unplaced(T, b).gens = T.gens
<1> USE DEF TierType
<1>1. CASE T.map[b] = None
  <2>1. [T.map EXCEPT ![b] = None] = T.map BY <1>1
  <2>2. QED BY <1>1, <2>1 DEF Unplaced
<1>2. CASE T.map[b] # None
  <2> DEFINE s == T.map[b]
             f == Append(T.free, s)
             v == Unlisted(T.lru, b)
             m == [T.map EXCEPT ![b] = None]
  <2>1. Unplaced(T, b) = [T EXCEPT !.free = f, !.map = m, !.lru = v]
    BY <1>2 DEF Unplaced
  <2>2. /\ v \in Seq(Blocks) /\ IsInjective(v) /\ Range(v) = Range(T.lru) \ {b}
    BY RemoveFirstIs DEF Partition, Unlisted
  <2>3. s \in Slots /\ s \notin Range(T.free) BY <1>2 DEF Partition
  <2>4. f \in Seq(Slots) /\ IsInjective(f) /\ Range(f) = Range(T.free) \cup {s}
    BY <2>3, AppendNew DEF Partition
  <2>5. m \in [Blocks -> Slots \cup {None}] OBVIOUS
  <2> HIDE DEF f, v, m
  <2>6. /\ Unplaced(T, b) \in TierType /\ Unplaced(T, b).map = m
        /\ Unplaced(T, b).gens = T.gens /\ Unplaced(T, b).free = f /\ Unplaced(T, b).lru = v
    BY <2>1, <2>2, <2>4, <2>5
  <2>7. m[b] = None /\ \A c \in Blocks \ {b} : m[c] = T.map[c] BY DEF m
  <2>8. None \notin Slots BY DEF None, Slots
  <2>9. \A c \in Blocks \ {b} : T.map[c] # s BY <1>2 DEF Partition
  <2>10. {m[c] : c \in Blocks} = ({T.map[c] : c \in Blocks} \ {s}) \cup {None}
    BY <2>7, <2>9, <1>2, ZenonT(60)
  <2>11. Partition(Unplaced(T, b))
    <3> DEFINE U == Unplaced(T, b)
    <3>1. IsInjective(U.free) /\ IsInjective(U.lru) BY <2>2, <2>4, <2>6
    <3>2. \A c, d \in Blocks : (c # d /\ U.map[c] # None) => U.map[c] # U.map[d]
      BY <2>6, <2>7, ZenonT(60) DEF Partition
    <3>3. {U.map[c] : c \in Blocks} = ({T.map[c] : c \in Blocks} \ {s}) \cup {None}
      BY <2>6, <2>10
    <3>4. {U.map[c] : c \in Blocks} \cap Range(U.free) = {}
      <4>1. None \notin Range(U.free) /\ Range(U.free) = Range(T.free) \cup {s}
        BY <2>3, <2>4, <2>6, <2>8 DEF Partition
      <4>2. QED BY <3>3, <4>1 DEF Partition
    <3>5. Slots = Range(U.free) \cup ({U.map[c] : c \in Blocks} \ {None})
      BY <2>3, <2>4, <2>6, <2>8, <3>3, ZenonT(60) DEF Partition
    <3>6. Range(U.lru) = {c \in Blocks : U.map[c] # None}
      BY <2>2, <2>6, <2>7, ZenonT(60) DEF Partition
    <3>7. QED BY <3>1, <3>2, <3>4, <3>5, <3>6 DEF Partition
  <2>12. QED BY <2>6, <2>11 DEF m
<1>3. QED BY <1>1, <1>2

\* try_release_allocation: the block's allocation goes, or the tier is left alone.
LEMMA ReleasedIs ==
  ASSUME NEW T \in TierType, Partition(T), NEW a \in AllocationType
  PROVE  /\ Released(T, a) \in TierType /\ Partition(Released(T, a))
         /\ Released(T, a).gens = T.gens
         /\ \A c \in Blocks \ {a.block} : Released(T, a).map[c] = T.map[c]
         /\ Released(T, a).map[a.block] \in {T.map[a.block], None}
         /\ (T.map[a.block] # None /\ a.slot = T.map[a.block] /\ a.gen = T.gens[a.slot])
              => Released(T, a).map[a.block] = None
<1>1. a.block \in Blocks BY DEF AllocationType
<1>2. CASE a.slot = None \/ ~SameAllocation(T, a)
  BY <1>2 DEF Released, SameAllocation
<1>3. CASE ~(a.slot = None \/ ~SameAllocation(T, a))
  <2>1. Released(T, a) = Unplaced(T, a.block) BY <1>3 DEF Released
  <2>2. T.map \in [Blocks -> Slots \cup {None}] BY DEF TierType
  <2> DEFINE b == a.block
             U == Unplaced(T, b)
  <2>3. U \in TierType /\ Partition(U) /\ U.map = [T.map EXCEPT ![b] = None] /\ U.gens = T.gens
    BY <1>1, UnplacedIs
  <2>4. U.map[b] = None /\ \A c \in Blocks \ {b} : U.map[c] = T.map[c]
    BY <1>1, <2>2, <2>3
  <2>5. QED BY <2>1, <2>3, <2>4
<1>4. QED BY <1>2, <1>3

\* try_allocation: what the block holds, or that it holds nothing.
LEMMA AllocationIs ==
  ASSUME NEW T \in TierType, NEW b \in Blocks
  PROVE  /\ Allocation(T, b) \in AllocationType /\ Allocation(T, b).block = b
         /\ Allocation(T, b).slot = T.map[b]
         /\ T.map[b] # None => Allocation(T, b).gen = T.gens[T.map[b]]
<1> USE DEF TierType, AllocationType, Allocation, NoAllocation
<1>1. CASE T.map[b] = None BY <1>1
<1>2. CASE T.map[b] # None BY <1>2
<1>3. QED BY <1>1, <1>2

----------------------------------------------------------------------------
(* The steps.                                                              *)

\* Both tiers are empty, nothing was reserved and nothing is pending.
LEMMA StorageInit == Init => IInv
<1> SUFFICES ASSUME Init PROVE IInv OBVIOUS
<1>1. NewTier \in TierType /\ Partition(NewTier) /\ \A b \in Blocks : NewTier.map[b] = None
  <2> DEFINE g == [s \in Slots |-> 0]
             T == [free |-> <<>>, map |-> <<>>, lru |-> <<>>, gens |-> g, seq |-> 0]
             E == {<<>>}
  <2>1. g \in [Slots -> Nat] OBVIOUS
  <2>2. T \in [free : E, map : E, lru : E, gens : [Slots -> Nat], seq : Nat] BY <2>1
  <2> HIDE DEF g, T, E
  <2>3. Cleared(T) \in TierType /\ Partition(Cleared(T)) /\ \A b \in Blocks : Cleared(T).map[b] = None
    BY <2>2, ClearedIs
  <2>4. QED BY <2>3 DEF NewTier, T, g
<1>2. \A b \in Blocks : NoPending(b) \in PendingType /\ \A t \in Tiers : NoPending(b).alloc[t].block = b
  BY DEF NoPending, PendingType, NoAllocation, AllocationType
<1>3. Types BY <1>1, <1>2 DEF Init, Types
<1>4. \A b \in Blocks : pending[b].gen = 0 BY DEF Init, NoPending
<1>5. \A b \in Blocks : Stored(b) BY <1>1, <1>2, <1>4 DEF Init, Stored
<1>6. QED BY <1>1, <1>3, <1>5 DEF Init, IInv

\* A free slot holds nothing in either tier, so its next generation starts with nothing.
LEMMA ReserveKeeps == ASSUME IInv, NEW b \in Blocks, Reserve(b) PROVE IInv'
<1> USE DEF IInv, Types, Reserve
<1>1. Types' OBVIOUS
<1>2. \A c \in Blocks : pending[c].gen \in Nat BY DEF PendingType
<1>3. ASSUME NEW c \in Blocks PROVE Stored(c)'
  BY <1>2 DEF Stored, Remembers
<1>4. QED BY <1>1, <1>3

\* The bundle remembers nothing of the generation that is retired.
LEMMA RetireKeeps == ASSUME IInv, NEW b \in Blocks, Retire(b) PROVE IInv'
<1> USE DEF IInv, Types, Retire
<1>1. Types' OBVIOUS
<1>2. \A c \in Blocks : pending[c].gen \in Nat BY DEF PendingType
<1>3. ASSUME NEW c \in Blocks PROVE Stored(c)'
  BY <1>2 DEF Stored, Remembers
<1>4. QED BY <1>1, <1>3

\* place_block records the tier for the live slot, and every other slot keeps its own.
LEMMA PlaceBlockKeeps ==
  ASSUME IInv, NEW b \in Blocks, NEW t \in Tiers, PlaceBlock(b, t) PROVE IInv'
<1> DEFINE T == Placed(tier[t], b)
<1>1. tier[t] \in TierType /\ Partition(tier[t]) BY DEF IInv, Types
<1>2. /\ T \in TierType /\ Partition(T)
      /\ tier[t].map[b] # None => T.map[b] = tier[t].map[b]
      /\ \A c \in Blocks \ {b} : T.map[c] = tier[t].map[c]
      /\ \A c \in Blocks \ {b} : tier[t].map[c] # None =>
           T.gens[tier[t].map[c]] = tier[t].gens[tier[t].map[c]]
  BY <1>1, PlacedIs
<1> HIDE DEF T
<1>3. /\ tier' = [tier EXCEPT ![t] = T]
      /\ written' = [written EXCEPT ![b] = IF T.map[b] # None THEN @ \cup {t} ELSE @]
      /\ UNCHANGED <<generation, phase, pending>> /\ t \in Enabled /\ phase[b] = "live"
  BY DEF PlaceBlock, T, IInv, Types
<1>4. Types' BY <1>2, <1>3 DEF IInv, Types
<1>5. ASSUME NEW u \in Tiers PROVE Partition(tier'[u])
  BY <1>2, <1>3 DEF IInv, Types
<1>6. ASSUME NEW c \in Blocks PROVE Stored(c)'
  BY <1>2, <1>3 DEF IInv, Types, Stored, Remembers
<1>7. QED BY <1>4, <1>5, <1>6 DEF IInv

\* release_block takes the live slot's allocation in one tier out of its records too.
LEMMA ReleaseBlockKeeps ==
  ASSUME IInv, NEW b \in Blocks, NEW t \in Tiers, ReleaseBlock(b, t) PROVE IInv'
<1> DEFINE T == Unplaced(tier[t], b)
<1>1. /\ tier[t] \in TierType /\ Partition(tier[t])
      /\ tier[t].map \in [Blocks -> Slots \cup {None}]
  BY DEF IInv, Types, TierType
<1>2. /\ T \in TierType /\ Partition(T) /\ T.map[b] = None /\ T.gens = tier[t].gens
      /\ \A c \in Blocks \ {b} : T.map[c] = tier[t].map[c]
  BY <1>1, UnplacedIs
<1> HIDE DEF T
<1>3. /\ tier' = [tier EXCEPT ![t] = T] /\ written' = [written EXCEPT ![b] = @ \ {t}]
      /\ UNCHANGED <<generation, phase, pending>> /\ phase[b] = "live"
  BY DEF ReleaseBlock, T
<1>4. Types' BY <1>2, <1>3 DEF IInv, Types
<1>5. ASSUME NEW u \in Tiers PROVE Partition(tier'[u])
  BY <1>2, <1>3 DEF IInv, Types
<1>6. ASSUME NEW c \in Blocks PROVE Stored(c)'
  BY <1>2, <1>3 DEF IInv, Types, Stored, Remembers
<1>7. QED BY <1>4, <1>5, <1>6 DEF IInv

\* An executor reset leaves no slot live and nothing in the tiers for a release to free.
LEMMA ResetKeeps == ASSUME IInv, Reset PROVE IInv'
<1>1. ASSUME NEW t \in Tiers
      PROVE  /\ tier'[t] \in TierType /\ Partition(tier'[t])
             /\ \A b \in Blocks : tier'[t].map[b] = None
  <2>1. tier'[t] = Cleared(tier[t]) BY DEF Reset
  <2> DEFINE F == Seq(Slots)
             M == [Blocks -> Slots \cup {None}]
             L == Seq(Blocks)
  <2>2. tier[t] \in [free : F, map : M, lru : L, gens : [Slots -> Nat], seq : Nat]
    BY DEF IInv, Types, TierType
  <2> HIDE DEF F, M, L
  <2>3. QED BY <2>1, <2>2, ClearedIs
<1>2. Types' BY <1>1 DEF IInv, Types, Reset
<1>3. \A b \in Blocks : pending[b].gen \in Nat /\ generation[b] \in Nat
  BY DEF IInv, Types, PendingType
<1>4. ASSUME NEW b \in Blocks PROVE Stored(b)'
  BY <1>1, <1>3 DEF IInv, Types, Reset, Stored, Remembers
<1>5. QED BY <1>1, <1>2, <1>4 DEF IInv

\* One call of the bundle: a tier it reports done holds nothing of the slot, and one it
\* captured and could not release still holds the captured allocation.
LEMMA ReclaimKeeps ==
  ASSUME IInv, NEW b \in Blocks, NEW seen \in SUBSET Enabled, NEW taken \in SUBSET Enabled,
         Reclaim(b, seen, taken)
  PROVE  IInv'
<1> DEFINE p == PendingFor(b, generation[b])
           captured == Capture(p, seen)
           done == Finished(p, seen, taken)
           alloc == [t \in Tiers |-> IF t \in captured \ p.captured THEN Allocation(tier[t], b)
                                     ELSE p.alloc[t]]
           next == [gen |-> generation[b], alloc |-> alloc, captured |-> captured, done |-> done]
           Held(t, a) == tier[t].map[b] # None =>
                           a.slot = tier[t].map[b] /\ a.gen = tier[t].gens[tier[t].map[b]]
<1>1. /\ phase[b] = "retired" /\ taken \subseteq captured \ p.done
      /\ phase' = [phase EXCEPT ![b] = IF done = Tiers THEN "free" ELSE "retired"]
      /\ pending' = [pending EXCEPT ![b] = next]
      /\ tier' = [t \in Tiers |-> IF t \in taken THEN Released(tier[t], alloc[t]) ELSE tier[t]]
      /\ written' = [written EXCEPT ![b] = IF done = Tiers THEN {} ELSE @]
      /\ generation' = generation
  BY DEF Reclaim
<1>2. /\ p \in PendingType
      /\ \A t \in Tiers : p.alloc[t] \in AllocationType /\ p.alloc[t].block = b
      /\ \A t \in Tiers : t \in p.done => tier[t].map[b] = None
      /\ \A t \in Tiers : t \in p.captured \ p.done => Held(t, p.alloc[t])
  <2>1. CASE pending[b].gen = generation[b]
    <3>1. p = pending[b] /\ p \in PendingType BY <2>1 DEF PendingFor, IInv, Types
    <3>2. QED BY <1>1, <2>1, <3>1 DEF IInv, Stored, Remembers, PendingType
  <2>2. CASE pending[b].gen # generation[b]
    <3>1. p = [NoPending(b) EXCEPT !.gen = generation[b]] BY <2>2 DEF PendingFor
    <3>2. NoPending(b) \in PendingType /\ generation[b] \in Nat
      BY DEF NoPending, PendingType, NoAllocation, AllocationType, IInv, Types
    <3>3. /\ p \in PendingType /\ p.captured = {} /\ p.done = {}
          /\ \A t \in Tiers : p.alloc[t] = NoAllocation(b)
      BY <3>1, <3>2 DEF NoPending, PendingType
    <3>4. NoAllocation(b) \in AllocationType /\ NoAllocation(b).block = b
      BY DEF NoAllocation, AllocationType
    <3>5. QED BY <3>3, <3>4
  <2>3. QED BY <2>1, <2>2
<1>3. captured \in SUBSET Tiers /\ done \in SUBSET Tiers /\ p.done \subseteq done
  BY <1>2, StorageConfig DEF Capture, Finished, PendingType
<1>4. \A t \in Tiers : t \in done => t \in p.done \/ t \notin Enabled \/ t \in captured \cap taken
  BY DEF Finished
<1>5. \A t \in Tiers : tier[t] \in TierType /\ Partition(tier[t]) BY DEF IInv, Types
<1> HIDE DEF p, captured, done
<1>6. ASSUME NEW t \in Tiers
      PROVE  /\ alloc[t] \in AllocationType /\ alloc[t].block = b
             /\ t \in captured \ p.done => Held(t, alloc[t])
  <2>1. CASE t \in captured \ p.captured
    BY <2>1, <1>5, AllocationIs
  <2>2. CASE t \notin captured \ p.captured
    BY <2>2, <1>2
  <2>3. QED BY <2>1, <2>2
<1>7. alloc \in [Tiers -> AllocationType] BY <1>6
<1> HIDE DEF alloc
<1>8. ASSUME NEW t \in Tiers
      PROVE  /\ tier'[t] \in TierType /\ Partition(tier'[t]) /\ tier'[t].gens = tier[t].gens
             /\ \A c \in Blocks \ {b} : tier'[t].map[c] = tier[t].map[c]
             /\ tier'[t].map[b] \in {tier[t].map[b], None}
             /\ t \in done => tier'[t].map[b] = None
  <2>1. CASE t \in taken
    <3>1. tier'[t] = Released(tier[t], alloc[t]) BY <1>1, <2>1
    <3>2. tier[t].map[b] # None =>
            alloc[t].slot = tier[t].map[b] /\ alloc[t].gen = tier[t].gens[alloc[t].slot]
      BY <1>1, <1>6, <2>1
    <3>3. QED BY <3>1, <3>2, <1>5, <1>6, ReleasedIs
  <2>2. CASE t \notin taken
    <3>1. tier'[t] = tier[t] BY <1>1, <2>2
    <3>2. t \notin Enabled => tier[t].map[b] = None BY DEF IInv, Stored
    <3>3. QED BY <3>1, <3>2, <1>2, <1>4, <1>5, <2>2
  <2>3. QED BY <2>1, <2>2
<1>9. generation[b] \in Nat /\ next \in PendingType
  <2>1. generation[b] \in Nat BY DEF IInv, Types
  <2>2. QED BY <1>3, <1>7, <2>1 DEF PendingType
<1>10. Types'
  BY <1>1, <1>8, <1>9 DEF IInv, Types
<1>11. ASSUME NEW c \in Blocks \ {b} PROVE Stored(c)'
  BY <1>1, <1>8 DEF IInv, Types, Stored, Remembers
<1>12. Stored(b)'
  <2>1. pending'[b] = next /\ generation'[b] = generation[b]
    BY <1>1 DEF IInv, Types
  <2>2. next.gen = generation[b] /\ next.alloc = alloc /\ next.captured = captured /\ next.done = done
    OBVIOUS
  <2> HIDE DEF next
  <2>3. ASSUME NEW t \in Tiers PROVE Remembers(b, t)'
    BY <1>3, <1>6, <1>8, <2>1, <2>2 DEF Remembers
  <2>4. \A t \in Tiers : t \notin Enabled => tier'[t].map[b] = None
    BY <1>8 DEF IInv, Stored
  <2>5. CASE done = Tiers
    <3>1. phase'[b] = "free" /\ written'[b] = {} BY <1>1, <2>5 DEF IInv, Types
    <3>2. QED BY <1>6, <1>8, <1>9, <2>1, <2>2, <2>4, <2>5, <3>1 DEF Stored
  <2>6. CASE done # Tiers
    <3>1. phase'[b] = "retired" BY <1>1, <2>6 DEF IInv, Types
    <3>2. QED BY <1>6, <1>9, <2>1, <2>2, <2>3, <2>4, <3>1 DEF Stored
  <2>7. QED BY <2>5, <2>6
<1>13. QED BY <1>8, <1>10, <1>11, <1>12 DEF IInv

\* Every step of the foreground, of the collector's worker and of a reset keeps the invariant.
LEMMA StorageStep == IInv /\ [Next]_vars => IInv'
<1> SUFFICES ASSUME IInv, [Next]_vars PROVE IInv' OBVIOUS
<1>1. CASE UNCHANGED vars
  BY <1>1 DEF vars, IInv, Types, Stored, Remembers
<1>2. CASE Reset BY <1>2, ResetKeeps
<1>3. ASSUME NEW b \in Blocks, Reserve(b) \/ Retire(b) PROVE IInv'
  BY <1>3, ReserveKeeps, RetireKeeps
<1>4. ASSUME NEW b \in Blocks, NEW t \in Tiers, PlaceBlock(b, t) \/ ReleaseBlock(b, t) PROVE IInv'
  BY <1>4, PlaceBlockKeeps, ReleaseBlockKeeps
<1>5. ASSUME NEW b \in Blocks, NEW seen \in SUBSET Enabled, NEW taken \in SUBSET Enabled,
             Reclaim(b, seen, taken)
      PROVE  IInv'
  BY <1>5, ReclaimKeeps
<1>6. QED BY <1>1, <1>2, <1>3, <1>4, <1>5 DEF Next

----------------------------------------------------------------------------
\* The bundle's memory stays exact for every schedule of foreground and worker.
THEOREM StorageInvariant == Spec => []IInv
<1>1. QED BY StorageInit, StorageStep, PTL DEF Spec

\* Each tier slot is free once or holds one block, and the recency list names the
\* resident blocks, after any sequence of placements, releases and resets.
THEOREM SlotPartitionAlways == Spec => []SlotPartition
<1>1. IInv => SlotPartition BY DEF IInv, Partition, SlotPartition
<1>2. QED BY <1>1, StorageInvariant, PTL

\* A reusable slot holds nothing in either tier, and a live one all that it placed.
THEOREM StorageExactAlways == Spec => []StorageExact
<1>1. IInv => StorageExact BY DEF IInv, Stored, StorageExact
<1>2. QED BY <1>1, StorageInvariant, PTL

-----------------------------------------------------------------------------
(* The overlay of one slot.                                                *)

Bytes == Writers \cup {"base", "hole"}

SlotTypes ==
  /\ valid \in {"Base", "Initializing", "Valid"}
  /\ overlay \in [Segments -> Bytes]
  /\ pc \in [Threads -> {"load", "claim", "copy", "write", "done", "failed", "fd", "read"}]
  /\ left \in [Threads -> SUBSET Segments]
  /\ owner \subseteq Writers
  /\ got \in [Readers -> [Segments -> Bytes]]
  /\ known \in [Readers -> SUBSET Segments]

\* A writer that claimed the slot and has not returned.
Holds(w) == w \in owner /\ pc[w] \in {"copy", "write"}

\* One writer holds an Initializing slot, and nobody any other; a writer that did not
\* claim the slot writes into a Valid one, and a write that returned left a Valid one.
Claiming ==
  /\ valid = "Initializing" => \E w \in Writers : Holds(w)
  /\ \A w \in Writers :
       /\ Holds(w) => valid = "Initializing" /\ \A v \in Writers : Holds(v) => v = w
       /\ pc[w] \notin {"fd", "read"}
       /\ w \in owner => pc[w] \notin {"load", "claim"}
       /\ pc[w] = "copy" => w \in owner
       /\ pc[w] = "write" /\ w \notin owner => valid = "Valid"
       /\ pc[w] = "done" => valid = "Valid"

\* The bytes of a writer that claimed the slot and failed, or of no writer at all.
Stale(b) == b = "hole" \/ \E w \in owner : b = w /\ pc[w] = "failed"

\* The holder overwrites every stale segment before it publishes: by the copy, or by a
\* write of the full slot.  What a writer has written stays written.
Contents ==
  /\ valid = "Valid" => \A s \in Segments : ~Stale(overlay[s])
  /\ \A w \in Writers : Holds(w) => \A s \in Segments :
       Stale(overlay[s]) => \/ s \in left[w]
                            \/ pc[w] = "copy" /\ Wants[w] = Segments
  /\ \A w \in Writers : pc[w] = "write" => \A s \in Wants[w] \ left[w] : overlay[s] \in Writers
  /\ \A w \in Writers : pc[w] = "done" => \A s \in Wants[w] : overlay[s] \in Writers
  /\ \A w \in Writers, s \in Segments : overlay[s] = w => pc[w] \in {"write", "done", "failed"}

\* A reader uses the overlay only when the slot is Valid, and holds no stale bytes; once
\* it has read a segment that was written when it began, it holds a writer's bytes.
Reading ==
  \A r \in Readers :
    /\ pc[r] \in {"load", "fd", "read", "done"}
    /\ pc[r] = "read" => valid = "Valid"
    /\ pc[r] = "load" => known[r] = {}
    /\ \A s \in known[r] : valid = "Valid" /\ overlay[s] \in Writers
    /\ pc[r] = "read" => \A s \in known[r] \ left[r] : got[r][s] \in Writers
    /\ pc[r] = "done" => \A s \in known[r] : got[r][s] \in Writers
    /\ \A s \in Segments :
         /\ ~Stale(got[r][s])
         /\ \A w \in Writers : got[r][s] = w =>
              /\ pc[w] \in {"write", "done", "failed"}
              /\ w \in owner => pc[w] = "done"

OverlayInv == SlotTypes /\ Claiming /\ Contents /\ Reading

----------------------------------------------------------------------------
\* The invariant holds before any call.
LEMMA OverlayStarts == OverlayInit => OverlayInv
<1> SUFFICES ASSUME OverlayInit PROVE OverlayInv OBVIOUS
<1> USE OverlayConfig DEF OverlayInit, Threads
<1>1. SlotTypes BY DEF SlotTypes, Bytes
<1>2. Claiming BY DEF Claiming, Holds
<1>3. Contents BY DEF Contents, Holds, Stale
<1>4. Reading BY DEF Reading, Stale
<1>5. QED BY <1>1, <1>2, <1>3, <1>4 DEF OverlayInv

\* A writer that finds the slot Valid goes on to write into it.
LEMMA LoadStateKeeps == ASSUME OverlayInv, NEW w \in Writers, LoadState(w) PROVE OverlayInv'
<1> USE OverlayConfig DEF OverlayInv, SlotTypes, Threads, Goto, LoadState
<1>1. SlotTypes' BY DEF Bytes
<1>2. Claiming' BY DEF Claiming, Holds
<1>3. Contents' BY DEF Claiming, Contents, Holds, Stale
<1>4. Reading' BY DEF Claiming, Contents, Reading, Holds, Stale
<1>5. QED BY <1>1, <1>2, <1>3, <1>4

\* The compare-exchange succeeds for one writer, when nobody holds the slot.
LEMMA ClaimKeeps == ASSUME OverlayInv, NEW w \in Writers, Claim(w) PROVE OverlayInv'
<1> USE OverlayConfig DEF OverlayInv, SlotTypes, Threads, Goto, Claim, Claims, CopyUp
<1>0. CopyUp(w) \subseteq Segments OBVIOUS
<1>1. SlotTypes'
  <2>1. CASE Claims BY <1>0, <2>1, SMTT(60) DEF Bytes
  <2>2. CASE ~Claims BY <2>2 DEF Bytes
  <2>3. QED BY <2>1, <2>2
<1>2. Claiming' BY DEF Claiming, Holds
<1>3. Contents' BY SMTT(60) DEF Claiming, Contents, Holds, Stale
<1>4. Reading' BY DEF Claiming, Contents, Reading, Holds, Stale
<1>5. QED BY <1>1, <1>2, <1>3, <1>4

\* Copying overwrites a stale segment, and no write returned while the slot is held.
LEMMA CopySegmentKeeps ==
  ASSUME OverlayInv, NEW w \in Writers, NEW s \in Segments, CopySegment(w, s)
  PROVE OverlayInv'
<1> USE OverlayConfig DEF OverlayInv, SlotTypes, Threads, Goto, CopySegment
<1>1. SlotTypes' BY DEF Bytes
<1>2. Claiming' BY DEF Claiming, Holds
<1>3. Contents' BY DEF Claiming, Contents, Holds, Stale
<1>4. Reading' BY DEF Claiming, Contents, Reading, Holds, Stale
<1>5. QED BY <1>1, <1>2, <1>3, <1>4

\* After the copy, what is still stale is in the range about to be written.
LEMMA CopyEndKeeps == ASSUME OverlayInv, NEW w \in Writers, CopyEnd(w) PROVE OverlayInv'
<1> USE OverlayConfig DEF OverlayInv, SlotTypes, Threads, Goto, CopyEnd
<1>1. SlotTypes' BY DEF Bytes
<1>2. Claiming' BY DEF Claiming, Holds
<1>3. Contents' BY DEF Claiming, Contents, Holds, Stale
<1>4. Reading' BY DEF Claiming, Contents, Reading, Holds, Stale
<1>5. QED BY <1>1, <1>2, <1>3, <1>4

\* A write replaces a segment by the bytes of a writer that has not failed.
LEMMA WriteSegmentKeeps ==
  ASSUME OverlayInv, NEW w \in Writers, NEW s \in Segments, WriteSegment(w, s)
  PROVE OverlayInv'
<1> USE OverlayConfig DEF OverlayInv, SlotTypes, Threads, Goto, WriteSegment
<1>1. SlotTypes' BY DEF Bytes
<1>2. Claiming' BY DEF Claiming, Holds
<1>3. Contents' BY DEF Claiming, Contents, Holds, Stale
<1>4. Reading' BY DEF Claiming, Contents, Reading, Holds, Stale
<1>5. QED BY <1>1, <1>2, <1>3, <1>4

\* Publishing: everything stale was overwritten.
LEMMA WriteEndKeeps == ASSUME OverlayInv, NEW w \in Writers, WriteEnd(w) PROVE OverlayInv'
<1> USE OverlayConfig DEF OverlayInv, SlotTypes, Threads, Goto, WriteEnd
<1>1. SlotTypes' BY DEF Bytes
<1>2. Claiming' BY DEF Claiming, Holds
<1>3. Contents' BY DEF Claiming, Contents, Holds, Stale
<1>4. Reading' BY DEF Claiming, Contents, Reading, Holds, Stale
<1>5. QED BY <1>1, <1>2, <1>3, <1>4

\* A failure gives back the slot of its holder only.
LEMMA WriteFailsKeeps == ASSUME OverlayInv, NEW w \in Writers, WriteFails(w) PROVE OverlayInv'
<1> USE OverlayConfig DEF OverlayInv, SlotTypes, Threads, Goto, WriteFails, AfterFailure
<1>1. SlotTypes' BY DEF Bytes
<1>2. Claiming' BY DEF Claiming, Holds
<1>3. Contents' BY DEF Claiming, Contents, Holds, Stale
<1>4. Reading' BY DEF Claiming, Contents, Reading, Holds, Stale
<1>5. QED BY <1>1, <1>2, <1>3, <1>4

\* What is written when a reader begins is in the overlay of a Valid slot.
LEMMA ReadBeginKeeps == ASSUME OverlayInv, NEW r \in Readers, ReadBegin(r) PROVE OverlayInv'
<1> USE OverlayConfig DEF OverlayInv, SlotTypes, Threads, Goto, ReadBegin
<1>1. SlotTypes' BY DEF Bytes
<1>2. Claiming' BY DEF Claiming, Holds
<1>3. Contents' BY DEF Claiming, Contents, Holds, Stale
<1>4. Reading' BY DEF Claiming, Contents, Reading, Holds, Stale
<1>5. QED BY <1>1, <1>2, <1>3, <1>4

\* A reader that knows of a write finds the slot Valid.
LEMMA ReadFdKeeps == ASSUME OverlayInv, NEW r \in Readers, ReadFd(r) PROVE OverlayInv'
<1>1. SlotTypes /\ Claiming /\ Contents /\ Reading BY DEF OverlayInv
<1>2. r \in Threads /\ Writers \subseteq Threads /\ Readers \subseteq Threads /\ r \notin Writers
  BY OverlayConfig DEF Threads
<1>3. SlotTypes' BY <1>1, <1>2, SMTT(60) DEF SlotTypes, ReadFd, ReadsOverlay, Goto
<1>4. /\ UNCHANGED <<valid, overlay, owner, got, known>> /\ pc[r] = "fd"
      /\ \A t \in Threads : t # r => pc'[t] = pc[t] /\ left'[t] = left[t]
      /\ pc'[r] = (IF valid = "Valid" THEN "read" ELSE "done")
      /\ valid = "Valid" => left'[r] = Segments
  BY <1>1, <1>2 DEF SlotTypes, ReadFd, ReadsOverlay, Goto
<1>5. \A w \in Writers : (Holds(w)' <=> Holds(w)) /\ pc'[w] = pc[w] /\ left'[w] = left[w]
  BY <1>2, <1>4 DEF Holds
<1>6. owner \subseteq Writers BY <1>1 DEF SlotTypes
<1>7. \A b : Stale(b)' <=> Stale(b) BY <1>4, <1>5, <1>6 DEF Stale
<1>8. Claiming' BY <1>1, <1>4, <1>5 DEF Claiming
<1>9. Contents' BY <1>1, <1>4, <1>5, <1>7 DEF Contents
<1>10. Reading'
  <2>1. known[r] \subseteq Segments BY <1>1 DEF SlotTypes, Threads
  <2>2. \A q \in Readers : q # r => pc'[q] = pc[q] /\ left'[q] = left[q] BY <1>2, <1>4
  <2>3. valid # "Valid" => known[r] = {} BY <1>1 DEF Reading
  <2>4. QED BY <1>1, <1>4, <1>5, <1>6, <1>7, <2>1, <2>2, <2>3 DEF Reading
<1>11. QED BY <1>3, <1>8, <1>9, <1>10 DEF OverlayInv

\* A segment of a Valid slot is not stale.
LEMMA ReadSegmentKeeps ==
  ASSUME OverlayInv, NEW r \in Readers, NEW s \in Segments, ReadSegment(r, s)
  PROVE OverlayInv'
<1> USE OverlayConfig DEF OverlayInv, SlotTypes, Threads, Goto, ReadSegment
<1>1. SlotTypes' BY DEF Bytes
<1>2. Claiming' BY DEF Claiming, Holds
<1>3. Contents' BY DEF Claiming, Contents, Holds, Stale
<1>4. Reading' BY DEF Claiming, Contents, Reading, Holds, Stale
<1>5. QED BY <1>1, <1>2, <1>3, <1>4

\* Every step of a writer, a reader or a failing call keeps the invariant.
LEMMA OverlayStep == OverlayInv /\ [OverlayNext]_overlayVars => OverlayInv'
<1> SUFFICES ASSUME OverlayInv, [OverlayNext]_overlayVars PROVE OverlayInv' OBVIOUS
<1>1. CASE UNCHANGED overlayVars
  BY <1>1 DEF overlayVars, OverlayInv, SlotTypes, Claiming, Contents, Reading, Holds, Stale
<1>2. ASSUME NEW w \in Writers, WriterStep(w) \/ WriteFails(w) PROVE OverlayInv'
  BY <1>2, LoadStateKeeps, ClaimKeeps, CopySegmentKeeps, CopyEndKeeps, WriteSegmentKeeps,
     WriteEndKeeps, WriteFailsKeeps DEF WriterStep
<1>3. ASSUME NEW r \in Readers, ReaderStep(r) PROVE OverlayInv'
  BY <1>3, ReadBeginKeeps, ReadFdKeeps, ReadSegmentKeeps DEF ReaderStep
<1>4. QED BY <1>1, <1>2, <1>3 DEF OverlayNext

\* The protocol on overlay_valid_, for every number of threads.
THEOREM OverlayInvariant == OverlaySpec => []OverlayInv
<1>1. QED BY OverlayStarts, OverlayStep, PTL DEF OverlaySpec

\* A write that returned is not undone by the other writers or by their failures.
THEOREM WritesSurviveAlways == OverlaySpec => []WritesSurvive
<1>1. OverlayInv => WritesSurvive
  BY DEF OverlayInv, Claiming, Contents, WritesSurvive
<1>2. QED BY <1>1, OverlayInvariant, PTL

\* A read that begins after a write returned sees that write or a later one.
THEOREM ReadsRecentAlways == OverlaySpec => []ReadsRecent
<1>1. OverlayInv => ReadsRecent
  BY OverlayConfig DEF OverlayInv, Reading, ReadsRecent
<1>2. QED BY <1>1, OverlayInvariant, PTL

\* No reader returns a hole of the sparse file, or bytes of a failed initialization.
THEOREM HalfCopyInvisibleAlways == OverlaySpec => []HalfCopyInvisible
<1>1. OverlayInv => HalfCopyInvisible
  BY DEF OverlayInv, SlotTypes, Reading, Stale, HalfCopyInvisible
<1>2. QED BY <1>1, OverlayInvariant, PTL

\* A read is coherent: never of a slot half copied, never older than the writes that
\* returned before it began.
THEOREM ReadsCoherentAlways == OverlaySpec => []ReadsCoherent
<1>1. QED BY ReadsRecentAlways, HalfCopyInvisibleAlways, PTL DEF ReadsCoherent

\* A slot that is being initialized has one writer at work on it: the threads that spin
\* on it wait for a call that has not returned, never for one that failed.
THEOREM InitializerAtWork ==
  OverlaySpec => [](valid = "Initializing" =>
               \E w \in Writers : Holds(w) /\ \A v \in Writers : Holds(v) => v = w)
<1>1. OverlayInv => (valid = "Initializing" =>
                 \E w \in Writers : Holds(w) /\ \A v \in Writers : Holds(v) => v = w)
  BY DEF OverlayInv, Claiming
<1>2. QED BY <1>1, OverlayInvariant, PTL
=============================================================================
