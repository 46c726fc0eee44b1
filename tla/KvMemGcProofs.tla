---------------------------- MODULE KvMemGcProofs ----------------------------
(***************************************************************************)
(* The unbounded collector, for any number of blocks, views, leases,       *)
(* rewinds and ticks: a delayed release frees its own lineage only, the    *)
(* published directory shows exactly what is retired, the live count is    *)
(* exact until a rewind, and what was reclaimed is hidden, whichever       *)
(* allocators each release attempt finds busy.                             *)
(*                                                                         *)
(* The inductive invariant says which lineage an entry, an allocation and  *)
(* a history belong to (Lineage), what a tombstone and a held directory    *)
(* mean (Directory), what is known of a block on its way out (Retiring),   *)
(* who can still reach a block that lacks storage (Backing) and what the   *)
(* live count counts (Counting).                                           *)
(***************************************************************************)
EXTENDS KvMemGc, FiniteSetTheorems, TLAPS

History == [gen : Nat, counted : BOOLEAN, dead : BOOLEAN, shadow : BOOLEAN, cstep : Nat,
            ctouch : Nat, clevel : Nat, low : Nat, high : Nat]
View == [epoch : Int, dead : [Ids -> Nat]]
Retirement == [id : Ids, gen : Nat, epoch : Nat, touches : Nat, level : Nat,
               done : SUBSET Tiers, alloc : [Tiers -> Nat]]
Event == [step : Nat, gens : [Ids -> Nat], kinds : [Ids -> {"low", "mid", "high", "none"}]]

\* The worker has taken an item out of retired_ and not decided on it.
InHand == wpc \in {"readers", "recheck", "release"}

EntryTypes ==
  /\ gen \in [Ids -> Nat] /\ flags \in [Ids -> {"none", "busy", "cold"}]
  /\ touches \in [Ids -> Nat] /\ lastUse \in [Ids -> Nat]
  /\ count \in 0 .. Capacity /\ step \in Nat
  /\ store \in [Tiers -> [Ids -> Nat]] /\ lease \in [Leases -> SUBSET Ids]
  /\ fg \in [op : {"idle", "register", "pin"}, id : Int]
  /\ hold \in [Holders -> View] /\ mail \in Event \cup {NoMail}

WorkerTypes ==
  /\ view \in View /\ view.epoch \in Nat /\ oldViews \subseteq Nat /\ activeStep \in Nat
  /\ hist \in [Ids -> History] /\ dead \in [Ids -> Nat] /\ live \in Int
  /\ retired \in Seq(Retirement) /\ (InHand => item \in Retirement)
  /\ ready \in SUBSET Ids
  /\ cursor \in Nat /\ limit \in 0 .. Capacity /\ left \in Int /\ cursor <= limit
  /\ wpc = "scan" => left <= limit - cursor
  /\ wpc = "check" \/ InHand => left <= Len(retired)
  /\ wpc \in {"idle", "check", "readers", "recheck", "release", "scan", "pick"}

Types == EntryTypes /\ WorkerTypes

\* Blocks below count are registered, the one at count perhaps being so; a tier stores
\* the current lineage of a block or nothing; histories may lag behind.
Lineage ==
  /\ fg.op = "idle" => fg = Idle
  /\ fg.op = "register" => fg.id = count /\ count \in Ids
  /\ fg.op = "pin" => fg.id \in Ids /\ fg.id < count
  /\ \A i \in Ids :
       /\ i >= count => flags[i] = "none" /\ \A t \in Tiers : store[t][i] = 0
       /\ flags[i] # "none" => gen[i] > 0
       /\ i < count => flags[i] # "none"
       /\ \A t \in Tiers : store[t][i] \in {0, gen[i]}
       /\ hist[i].gen <= gen[i]
       /\ fg.op = "register" /\ fg.id = i => gen[i] > 0 /\ (hist[i].dead => hist[i].gen < gen[i])

\* A tombstone names the retired lineage and the published directory is the worker's,
\* until it is dirty; a held directory is the published one or an old one.
Directory ==
  /\ ~dirty => view.dead = dead
  /\ \A i \in Ids : /\ dead[i] # 0 => hist[i].dead /\ dead[i] = hist[i].gen
                    /\ hist[i].dead => dead[i] = hist[i].gen /\ hist[i].gen > 0
  /\ \A h \in Holders : hold[h] = NoView \/ hold[h].epoch \in oldViews \cup {view.epoch}
  /\ \A e \in oldViews : e < view.epoch
  /\ \A h \in Holders : hold[h] # NoView => hold[h].epoch <= view.epoch

\* What the worker still has to reclaim, and whether an item is about the block as it is.
Queued == {retired[k] : k \in DOMAIN retired}
Pending == Queued \cup (IF InHand THEN {item} ELSE {})
Same(a, b) == a.id = b.id /\ a.gen = b.gen
Current(it) == gen[it.id] = it.gen /\ flags[it.id] # "none"

\* A directory shows the retirement of the item.
Shows(v, it) == v.dead[it.id] = it.gen

\* Every directory newer than the retirement of a block shows it; the two looks of the
\* worker establish that only such directories are held, and that nobody has a lease.
Retiring ==
  /\ \A it \in Pending :
       /\ 0 < it.gen /\ it.gen <= gen[it.id]
       /\ \A t \in Tiers : it.alloc[t] = it.gen
       /\ it.epoch <= view.epoch
       /\ it.epoch = view.epoch => wpc = "pick" /\ dirty
       /\ fg.op = "register" /\ fg.id = it.id => it.gen < gen[it.id]
       /\ Current(it) =>
            /\ hist[it.id].dead /\ hist[it.id].gen = it.gen
            /\ view.epoch > it.epoch => Shows(view, it)
            /\ \A h \in Holders : hold[h] # NoView /\ hold[h].epoch > it.epoch => Shows(hold[h], it)
  /\ \A j, k \in DOMAIN retired : j # k => ~Same(retired[j], retired[k])
  /\ InHand => \A k \in DOMAIN retired : ~Same(item, retired[k])
  /\ wpc \in {"recheck", "release"} =>
       \A h \in Holders : hold[h] # NoView => hold[h].epoch > item.epoch
  /\ wpc = "release" /\ Current(item) =>
       flags[item.id] = "cold" /\ \A l \in Leases : item.id \notin lease[l]

\* Nobody holds a lease on the block or a directory that shows it, nor can get one.
Hidden(i) ==
  /\ \A l \in Leases : i \notin lease[l]
  /\ view.dead[i] = gen[i]
  /\ \A h \in Holders : hold[h] # NoView => hold[h].dead[i] = gen[i]

\* The retirement of the block is over and stands: no item can cancel it any more.
Gone(i) == dead[i] = gen[i] /\ \A it \in Pending : it.id = i => it.gen # gen[i]

\* An item still has what its releases have not freed; a block off the GPU that lacks
\* storage is hidden while its tombstone stands, and the tombstone of one that lacks all
\* of it stands for good.
Backing ==
  /\ \A it \in Pending : Current(it) => \A t \in Tiers \ it.done : store[t][it.id] = it.gen
  /\ \A i \in Ids : flags[i] = "cold" =>
       /\ dead[i] = gen[i] /\ (\E t \in Tiers : store[t][i] # gen[i]) => Hidden(i)
       /\ (\A t \in Tiers : store[t][i] # gen[i]) => Gone(i)

\* The blocks live_count_ should count.
Live(i) == hist[i].counted /\ ~hist[i].dead /\ ~hist[i].shadow
LiveBlocks == {i \in Ids : Live(i)}

\* Before any rewind a history belongs to a registered block, and is counted.
Counting ==
  ~Rewound =>
    /\ live = Cardinality(LiveBlocks)
    /\ limit <= count
    /\ \A i \in Ids :
         /\ gen[i] \in {0, 1}
         /\ gen[i] = 1 => i < count \/ (fg.op = "register" /\ fg.id = i)
         /\ i < count => gen[i] = 1
         /\ hist[i].counted <=> hist[i].gen = 1
         /\ hist[i].dead \/ hist[i].shadow => hist[i].counted
         /\ ~(hist[i].dead /\ hist[i].shadow)
         /\ hist[i].counted => i < count
         /\ mail # NoMail /\ mail.kinds[i] # "none" => i < count

IInv == Types /\ Lineage /\ Directory /\ Retiring /\ Backing /\ Counting

----------------------------------------------------------------------------
\* A block has no pin iff no lease names it.
LEMMA PinsAre ==
  ASSUME Types, NEW i \in Ids PROVE Pins(i) # 0 <=> \E l \in Leases : i \in lease[l]
<1> DEFINE P == {l \in Leases : i \in lease[l]}
<1>1. IsFiniteSet(P) BY GcConfig, FS_Subset
<1>2. Cardinality(P) = 0 <=> P = {} BY <1>1, FS_EmptySet
<1>3. QED BY <1>2 DEF Pins

\* There are finitely many logical blocks.
LEMMA IdsFinite == IsFiniteSet(Ids)
  BY GcConfig, FS_Interval DEF Ids

\* The invariant holds before the first block is registered.
LEMMA GcInit == Init => IInv
<1> SUFFICES ASSUME Init PROVE IInv OBVIOUS
<1> USE GcConfig DEF Init, Ids
<1>0. Pending = {} BY DEF Pending, Queued, InHand
<1>1. Types
  <2>1. \A i \in Ids : NewHistory(0, FALSE) \in History BY DEF NewHistory, History
  <2>2. hist \in [Ids -> History] BY <2>1
  <2>3. view \in View /\ hold \in [Holders -> View] /\ view.epoch \in Nat BY DEF View, NoView
  <2>4. retired \in Seq(Retirement) OBVIOUS
  <2>5. mail \in Event \cup {NoMail} OBVIOUS
  <2>6. fg \in [op : {"idle", "register", "pin"}, id : Int] BY DEF Idle
  <2>7. store \in [Tiers -> [Ids -> Nat]] OBVIOUS
  <2>8. EntryTypes BY <2>3, <2>5, <2>6, <2>7 DEF EntryTypes
  <2>9. WorkerTypes
    <3>1. /\ limit \in 0 .. Capacity /\ left \in Int /\ cursor \in Nat /\ cursor <= limit
          /\ live \in Int /\ dead \in [Ids -> Nat] /\ activeStep \in Nat
      OBVIOUS
    <3>2. oldViews \subseteq Nat /\ ready \in SUBSET Ids /\ wpc = "idle" OBVIOUS
    <3> HIDE DEF Init
    <3>3. QED BY <2>2, <2>3, <2>4, <3>1, <3>2 DEF WorkerTypes, InHand
  <2>10. QED BY <2>8, <2>9 DEF Types
<1>2. Lineage BY DEF Lineage, Idle, NewHistory, Tiers
<1>3. Directory BY DEF Directory, NewHistory
<1>4. Retiring BY <1>0 DEF Retiring, InHand
<1>5. Backing BY <1>0 DEF Backing
<1>6. Counting
  <2>1. LiveBlocks = {} BY DEF LiveBlocks, Live, NewHistory
  <2>2. Cardinality(LiveBlocks) = 0 BY <2>1, FS_EmptySet
  <2>3. QED BY <2>2 DEF Counting, NewHistory
<1>7. QED BY <1>1, <1>2, <1>3, <1>4, <1>5, <1>6 DEF IInv

----------------------------------------------------------------------------
(* The executor thread.                                                    *)

\* What is on its way out is an item of the queue.
LEMMA PendingTyped ==
  ASSUME Types
  PROVE  /\ \A it \in Pending : it \in Retirement /\ it.gen \in Nat /\ it.id \in Ids /\ it.epoch \in Nat
         /\ InHand => item \in Pending
<1>1. \A k \in DOMAIN retired : retired[k] \in Retirement BY DEF Types, WorkerTypes
<1>2. \A it \in Pending : it \in Retirement BY <1>1 DEF Types, WorkerTypes, Pending, Queued, InHand
<1>3. QED BY <1>2 DEF Pending, Retirement

\* Touches are counted.
LEMMA TouchTyped == ASSUME Types, NEW S, Touch(S) PROVE touches' \in [Ids -> Nat]
  BY DEF Types, EntryTypes, Touch

\* A call of the executor leaves the worker and its queue alone.
LEMMA WorkerStays ==
  ASSUME UNCHANGED worker
  PROVE  /\ UNCHANGED <<view, oldViews, dead, dirty, hist, live, retired, item, left, shadow, cursor,
                        limit, ready, activeStep, wpc>>
         /\ Pending' = Pending /\ InHand' = InHand /\ LiveBlocks' = LiveBlocks
  BY DEF worker, directory, history, queue, sweep, Pending, Queued, InHand, LiveBlocks, Live

\* Storage and tombstones stay as they are, and no hidden block is shown or leased.
LEMMA BackingStays ==
  ASSUME Backing, UNCHANGED <<gen, flags, store, dead>>, Pending' \subseteq Pending,
         \A i \in Ids : flags[i] = "cold" /\ Hidden(i) => Hidden(i)'
  PROVE  Backing'
<1>1. \A it \in Pending' : Current(it)' => \A t \in Tiers \ it.done : store'[t][it.id] = it.gen
  BY DEF Backing, Current
<1>2. ASSUME NEW i \in Ids, flags[i] = "cold"
      PROVE  /\ dead[i] = gen[i] /\ (\E t \in Tiers : store[t][i] # gen[i]) => Hidden(i)'
             /\ (\A t \in Tiers : store[t][i] # gen[i]) => Gone(i)'
  BY <1>2 DEF Backing, Gone
<1>3. QED BY <1>1, <1>2 DEF Backing

\* A new lineage starts: nothing of an earlier one is current any more.
LEMMA RegisterBeginKeeps == ASSUME IInv, RegisterBegin PROVE IInv'
<1>1. /\ fg = Idle /\ count < Capacity /\ count \in Ids /\ count \in Nat
      /\ gen' = [gen EXCEPT ![count] = gen[count] + 1]
      /\ flags' = [flags EXCEPT ![count] = "none"]
      /\ fg' = [op |-> "register", id |-> count]
      /\ UNCHANGED <<lastUse, count, step, lease, hold, events, touches, store, mail>>
      /\ UNCHANGED worker
  BY GcConfig DEF IInv, Types, EntryTypes, RegisterBegin, Ids
<1>2. Types'
  <2>1. EntryTypes' BY <1>1 DEF IInv, Types, EntryTypes
  <2>2. WorkerTypes' BY <1>1, WorkerStays DEF IInv, Types, WorkerTypes, InHand
  <2>3. QED BY <2>1, <2>2 DEF Types
<1> USE DEF IInv, Types, EntryTypes
<1>3. Lineage'
  <2>1. \A i \in Ids : hist[i].gen \in Nat BY DEF WorkerTypes, History
  <2>2. QED BY <1>1, <2>1, WorkerStays DEF Lineage, Idle
<1>4. Directory' BY <1>1, WorkerStays DEF Directory
<1>5. Retiring'
  <2>1. \A it \in Pending : Current(it)' => Current(it)
    BY <1>1, PendingTyped, WorkerStays DEF Retiring, Current
  <2>2. \A it \in Pending : it.gen <= gen'[it.id] /\ (it.id = count => it.gen < gen'[it.id])
    BY <1>1, PendingTyped DEF Retiring
  <2>3. QED BY <1>1, <2>1, <2>2, PendingTyped, WorkerStays DEF Retiring, Shows, Current, InHand
<1>6. Backing'
  <2>1. \A it \in Pending : Current(it)' => Current(it) /\ it.id # count
    BY <1>1, PendingTyped, WorkerStays DEF Current
  <2>2. \A i \in Ids : flags'[i] = "cold" => i # count /\ flags[i] = "cold" BY <1>1
  <2>3. QED BY <1>1, <2>1, <2>2, WorkerStays DEF Backing, Hidden, Gone
<1>7. Counting'
  <2>1. ~Rewound' => ~Rewound BY <1>1 DEF Rewound, Idle
  <2>2. QED BY <1>1, <2>1, WorkerStays DEF Lineage, Counting, Rewound, Idle
<1>8. QED BY <1>2, <1>3, <1>4, <1>5, <1>6, <1>7

\* The new block is on the GPU, and no item and no tombstone is of its lineage.
LEMMA RegisterEndKeeps == ASSUME IInv, RegisterEnd PROVE IInv'
<1> USE DEF IInv, Types, EntryTypes
<1>1. /\ fg.op = "register" /\ fg.id = count /\ count \in Ids /\ count \in Nat
      /\ lastUse' = [lastUse EXCEPT ![count] = step]
      /\ touches' \in [Ids -> Nat]
      /\ flags' = [flags EXCEPT ![count] = "busy"]
      /\ count' = count + 1 /\ fg' = Idle
      /\ UNCHANGED <<gen, step, lease, hold, events, store, mail>>
      /\ UNCHANGED worker
  <2>1. fg.id = count /\ count \in Ids /\ count \in Nat BY DEF RegisterEnd, Lineage
  <2>2. QED BY <2>1, TouchTyped DEF RegisterEnd
<1>2. Types'
  <2>1. EntryTypes'
    <3>1. count' \in 0 .. Capacity BY <1>1, GcConfig DEF Ids
    <3>2. QED BY <1>1, <3>1 DEF Idle
  <2>2. WorkerTypes' BY <1>1, WorkerStays DEF WorkerTypes, InHand
  <2>3. QED BY <2>1, <2>2
<1>3. Lineage'
  <2>1. \A i \in Ids : i \in Nat /\ (i < count + 1 => i < count \/ i = count) BY <1>1 DEF Ids
  <2>2. fg'.op = "idle" BY <1>1 DEF Idle
  <2>3. QED BY <1>1, <2>1, <2>2, WorkerStays DEF Lineage
<1>4. Directory' BY <1>1, WorkerStays DEF Directory
<1>5. Retiring'
  <2>1. \A it \in Pending : Current(it)' => Current(it) /\ it.id # count
    BY <1>1, PendingTyped, WorkerStays DEF Retiring, Current
  <2>2. QED BY <1>1, <2>1, PendingTyped, WorkerStays DEF Retiring, Shows, Idle, InHand
<1>6. Backing'
  <2>1. \A it \in Pending : Current(it)' => Current(it)
    BY <1>1, PendingTyped, WorkerStays DEF Retiring, Current
  <2>2. \A i \in Ids : flags'[i] = "cold" => flags[i] = "cold" BY <1>1
  <2>3. QED BY <1>1, <2>1, <2>2, WorkerStays DEF Backing, Hidden, Gone
<1>7. Counting'
  <2>1. ~Rewound' => ~Rewound BY <1>1 DEF Rewound, Idle, Ids
  <2>2. limit \in 0 .. Capacity BY DEF WorkerTypes
  <2>3. QED BY <1>1, <2>1, <2>2, WorkerStays DEF Lineage, Counting, Ids, Idle
<1>8. QED BY <1>2, <1>3, <1>4, <1>5, <1>6, <1>7

\* Both tiers hold the block before it leaves the GPU.
LEMMA StageOutKeeps == ASSUME IInv, NEW id \in Ids, StageOut(id) PROVE IInv'
<1> USE DEF IInv, Types, EntryTypes
<1>1. /\ fg = Idle /\ id < count /\ flags[id] = "busy"
      /\ store' = [t \in Tiers |-> [store[t] EXCEPT ![id] = gen[id]]]
      /\ lastUse' = [lastUse EXCEPT ![id] = step]
      /\ touches' \in [Ids -> Nat]
      /\ flags' = [flags EXCEPT ![id] = "cold"]
      /\ UNCHANGED <<gen, count, step, lease, fg, hold, events, mail>>
      /\ UNCHANGED worker
  BY TouchTyped DEF StageOut, request
<1>2. Types'
  <2>1. EntryTypes' BY <1>1
  <2>2. WorkerTypes' BY <1>1, WorkerStays DEF WorkerTypes, InHand
  <2>3. QED BY <2>1, <2>2
<1>3. Lineage' BY <1>1, WorkerStays DEF Lineage, Idle
<1>4. Directory' BY <1>1, WorkerStays DEF Directory
<1>5. Retiring'
  <2>1. \A it \in Pending : Current(it)' => Current(it)
    BY <1>1, PendingTyped, WorkerStays DEF Retiring, Current
  <2>2. QED BY <1>1, <2>1, PendingTyped, WorkerStays DEF Retiring, Shows, InHand
<1>6. Backing'
  <2>1. \A t \in Tiers : store'[t][id] = gen[id] /\ \A i \in Ids : i # id => store'[t][i] = store[t][i]
    BY <1>1
  <2>2. \A it \in Pending : /\ Current(it)' => Current(it)
                            /\ it.id \in Ids /\ (it.id = id /\ Current(it) => gen[id] = it.gen)
    BY <1>1, PendingTyped, WorkerStays DEF Current
  <2>3. \A i \in Ids : flags'[i] = "cold" => i = id \/ flags[i] = "cold" BY <1>1
  <2>4. \E t \in Tiers : TRUE BY DEF Tiers
  <2>5. QED BY <1>1, <2>1, <2>2, <2>3, <2>4, WorkerStays DEF Backing, Hidden, Gone
<1>7. Counting' BY <1>1, WorkerStays DEF Counting, Rewound, Live, LiveBlocks
<1>8. QED BY <1>2, <1>3, <1>4, <1>5, <1>6, <1>7

\* A leased block comes back to the GPU.
LEMMA StageInKeeps == ASSUME IInv, NEW id \in Ids, StageIn(id) PROVE IInv'
<1> USE DEF IInv, Types, EntryTypes
<1>1. /\ fg = Idle /\ id < count /\ flags[id] = "cold" /\ id \in lease[Working]
      /\ flags' = [flags EXCEPT ![id] = "busy"]
      /\ touches' \in [Ids -> Nat]
      /\ UNCHANGED <<gen, lastUse, store, count, step, lease, fg, hold, events, mail>>
      /\ UNCHANGED worker
  BY TouchTyped DEF StageIn, request
<1>2. Types'
  <2>1. EntryTypes' BY <1>1
  <2>2. WorkerTypes' BY <1>1, WorkerStays DEF WorkerTypes, InHand
  <2>3. QED BY <2>1, <2>2
<1>3. Lineage' BY <1>1, WorkerStays DEF Lineage, Idle, Ids
<1>4. Directory' BY <1>1, WorkerStays DEF Directory
<1>5. Retiring'
  <2>1. \A it \in Pending : Current(it)' => Current(it)
    BY <1>1, PendingTyped, WorkerStays DEF Retiring, Current
  <2>2. wpc = "release" /\ Current(item) => item.id # id
    BY <1>1, GcConfig DEF Retiring
  <2>3. QED BY <1>1, <2>1, <2>2, PendingTyped, WorkerStays DEF Retiring, Shows, InHand
<1>6. Backing'
  <2>1. \A it \in Pending : Current(it)' => Current(it)
    BY <1>1, PendingTyped, WorkerStays DEF Current
  <2>2. \A i \in Ids : flags'[i] = "cold" => flags[i] = "cold" BY <1>1
  <2>3. QED BY <1>1, <2>1, <2>2, WorkerStays DEF Backing, Hidden, Gone
<1>7. Counting' BY <1>1, WorkerStays DEF Counting, Rewound
<1>8. QED BY <1>2, <1>3, <1>4, <1>5, <1>6, <1>7

\* A rewind ends the lineages from first on, with their storage; items about them are not
\* current any more, and the live count is no longer exact.
LEMMA ForgetTailKeeps == ASSUME IInv, NEW first \in Ids, ForgetTail(first) PROVE IInv'
<1> USE DEF IInv, Types, EntryTypes
<1>1. /\ fg = Idle /\ first < count
      /\ flags' = [i \in Ids |-> IF i >= first THEN "none" ELSE flags[i]]
      /\ count' = first
      /\ store' = [t \in Tiers |-> [i \in Ids |-> IF i >= first THEN 0 ELSE store[t][i]]]
      /\ UNCHANGED <<gen, lastUse, step, lease, fg, hold, events, touches, mail>>
      /\ UNCHANGED worker
  BY DEF ForgetTail
<1>2. Types'
  <2>1. EntryTypes'
    <3>1. count' \in 0 .. Capacity /\ flags' \in [Ids -> {"none", "busy", "cold"}]
      BY <1>1, GcConfig DEF Ids
    <3>2. store' \in [Tiers -> [Ids -> Nat]] BY <1>1
    <3>3. QED BY <1>1, <3>1, <3>2
  <2>2. WorkerTypes' BY <1>1, WorkerStays DEF WorkerTypes, InHand
  <2>3. QED BY <2>1, <2>2
<1>3. Lineage' BY <1>1, WorkerStays DEF Lineage, Idle, Ids
<1>4. Directory' BY <1>1, WorkerStays DEF Directory
<1>5. Retiring'
  <2>1. \A it \in Pending : Current(it)' => Current(it) /\ flags'[it.id] = flags[it.id]
    BY <1>1, PendingTyped, WorkerStays DEF Retiring, Current
  <2>2. QED BY <1>1, <2>1, PendingTyped, WorkerStays DEF Retiring, Shows, InHand
<1>6. Backing'
  <2>1. \A it \in Pending : Current(it)' => Current(it) /\ ~(it.id >= first) /\ it.id \in Ids
    BY <1>1, PendingTyped, WorkerStays DEF Current
  <2>2. \A i \in Ids : flags'[i] = "cold" => flags[i] = "cold" /\ ~(i >= first) BY <1>1
  <2>3. \A t \in Tiers, i \in Ids : ~(i >= first) => store'[t][i] = store[t][i] BY <1>1
  <2>4. QED BY <1>1, <2>1, <2>2, <2>3, WorkerStays DEF Backing, Hidden, Gone
<1>7. Counting'
  <2>1. Rewound' BY <1>1 DEF Rewound, Lineage, Idle, Ids
  <2>2. QED BY <2>1 DEF Counting
<1>8. QED BY <1>2, <1>3, <1>4, <1>5, <1>6, <1>7

\* Holders take the published directory or one that somebody holds.
LEMMA ViewsKeep ==
  ASSUME IInv, fg = Idle, hold' \in [Holders -> View], step' \in Nat, UNCHANGED worker,
         UNCHANGED <<entries, count, lease, fg, events, touches, store, mail>>,
         \A h \in Holders : hold'[h] = NoView \/ hold'[h] = view \/ \E g \in Holders : hold'[h] = hold[g]
  PROVE  IInv'
<1> USE DEF IInv, Types, EntryTypes
<1>1. UNCHANGED <<gen, flags, lastUse>> BY DEF entries
<1>2. Types'
  <2>1. EntryTypes' BY <1>1
  <2>2. WorkerTypes' BY <1>1, WorkerStays DEF WorkerTypes, InHand
  <2>3. QED BY <2>1, <2>2
<1>3. Lineage' BY <1>1, WorkerStays DEF Lineage
<1>4. Directory'
  <2>1. \A h \in Holders : \/ hold'[h] = NoView
                           \/ /\ hold'[h].epoch \in oldViews \cup {view.epoch}
                              /\ hold'[h].epoch <= view.epoch
    <3>1. /\ view.epoch \in oldViews \cup {view.epoch} /\ view.epoch <= view.epoch
          /\ \A g \in Holders : hold[g] # NoView =>
               hold[g].epoch \in oldViews \cup {view.epoch} /\ hold[g].epoch <= view.epoch
      BY DEF Directory, WorkerTypes
    <3> HIDE DEF IInv
    <3>2. QED BY <3>1
  <2>2. QED BY <1>1, <2>1, WorkerStays DEF Directory
<1>5. Retiring'
  <2>1. \A it \in Pending : Current(it)' <=> Current(it) BY <1>1 DEF Current
  <2>2. wpc \in {"recheck", "release"} => view.epoch > item.epoch
    <3>1. SUFFICES ASSUME wpc \in {"recheck", "release"} PROVE view.epoch > item.epoch OBVIOUS
    <3>2. item \in Pending /\ item.epoch \in Nat /\ view.epoch \in Nat
      BY <3>1, PendingTyped DEF InHand, WorkerTypes
    <3>3. item.epoch <= view.epoch /\ item.epoch # view.epoch BY <3>1, <3>2 DEF Retiring
    <3> HIDE DEF IInv
    <3>4. QED BY <3>2, <3>3
  <2>3. \A it \in Pending : Current(it) =>
          \A h \in Holders : hold'[h] # NoView /\ hold'[h].epoch > it.epoch => Shows(hold'[h], it)
    BY DEF Retiring
  <2>4. wpc \in {"recheck", "release"} =>
          \A h \in Holders : hold'[h] # NoView => hold'[h].epoch > item.epoch
    BY <2>2 DEF Retiring
  <2>5. QED BY <1>1, <2>1, <2>3, <2>4, WorkerStays DEF Retiring, Shows, InHand, Current
<1>6. Backing'
  <2>1. \A i \in Ids : Hidden(i) => Hidden(i)' BY <1>1, WorkerStays DEF Hidden
  <2>2. QED BY <1>1, <2>1, WorkerStays, BackingStays
<1>7. Counting' BY <1>1, WorkerStays DEF Counting, Rewound
<1>8. QED BY <1>2, <1>3, <1>4, <1>5, <1>6, <1>7

LEMMA ViewStepsKeep ==
  ASSUME IInv,
         \/ BeginStep
         \/ \E h \in Holders : DropView(h)
         \/ \E b \in Batches : ShareView(b)
  PROVE  IInv'
<1>1. NoView \in View /\ view \in View /\ Store \in Holders /\ Batches \subseteq Holders
  BY DEF IInv, Types, WorkerTypes, NoView, View, Holders
<1>2. CASE BeginStep
  <2>1. /\ fg = Idle /\ step' = step + 1 /\ hold' = [hold EXCEPT ![Store] = view]
        /\ UNCHANGED <<entries, count, lease, fg, events, touches, store, mail, worker>>
    BY <1>2 DEF BeginStep
  <2>2. hold' \in [Holders -> View] /\ step' \in Nat BY <1>1, <2>1 DEF IInv, Types, EntryTypes
  <2>3. \A h \in Holders : hold'[h] = NoView \/ hold'[h] = view \/ \E g \in Holders : hold'[h] = hold[g]
    BY <2>1 DEF IInv, Types, EntryTypes
  <2>4. QED BY <2>1, <2>2, <2>3, ViewsKeep
<1>3. ASSUME NEW h \in Holders, DropView(h) PROVE IInv'
  <2>1. /\ fg = Idle /\ hold' = [hold EXCEPT ![h] = NoView]
        /\ UNCHANGED <<entries, count, step, lease, fg, events, touches, store, mail, worker>>
    BY <1>3 DEF DropView
  <2>2. hold' \in [Holders -> View] /\ step' \in Nat BY <1>1, <2>1 DEF IInv, Types, EntryTypes
  <2>3. \A g \in Holders : hold'[g] = NoView \/ hold'[g] = view \/ \E f \in Holders : hold'[g] = hold[f]
    BY <2>1 DEF IInv, Types, EntryTypes
  <2>4. QED BY <2>1, <2>2, <2>3, ViewsKeep
<1>4. ASSUME NEW b \in Batches, ShareView(b) PROVE IInv'
  <2>1. /\ fg = Idle /\ hold' = [hold EXCEPT ![b] = hold[Store]]
        /\ UNCHANGED <<entries, count, step, lease, fg, events, touches, store, mail, worker>>
    BY <1>4 DEF ShareView
  <2>2. hold' \in [Holders -> View] /\ step' \in Nat BY <1>1, <2>1 DEF IInv, Types, EntryTypes
  <2>3. \A g \in Holders : hold'[g] = NoView \/ hold'[g] = view \/ \E f \in Holders : hold'[g] = hold[f]
    BY <1>1, <2>1 DEF IInv, Types, EntryTypes
  <2>4. QED BY <2>1, <2>2, <2>3, ViewsKeep
<1>5. QED BY <1>2, <1>3, <1>4

\* A pin needs a directory that shows the block, or another pin: it cannot reach a block
\* that was reclaimed, or one that the worker is about to reclaim.
LEMMA PinBeginKeeps == ASSUME IInv, NEW l \in Leases, NEW id \in Ids, PinBegin(l, id) PROVE IInv'
<1> USE DEF IInv, Types, EntryTypes
<1>1. /\ fg = Idle /\ lease[l] = {} /\ id < count
      /\ hold[Store] # NoView /\ IsLive(id, hold[Store])
      /\ lease' = [lease EXCEPT ![l] = {id}]
      /\ fg' = [op |-> "pin", id |-> id]
      /\ UNCHANGED <<gen, flags, lastUse, count, step, hold, events, touches, store, mail>>
      /\ UNCHANGED worker
  BY DEF PinBegin, entries
<1>2. Types'
  <2>1. EntryTypes' BY <1>1 DEF Ids
  <2>2. WorkerTypes' BY <1>1, WorkerStays DEF WorkerTypes, InHand
  <2>3. QED BY <2>1, <2>2
<1>3. Lineage' BY <1>1, WorkerStays DEF Lineage, Idle, Ids
<1>4. Directory' BY <1>1, WorkerStays DEF Directory
<1>5. hold[Store].dead[id] = gen[id] => \E k \in Leases : id \in lease[k]
  <2>1. gen[id] > 0 BY <1>1 DEF Lineage
  <2>2. QED BY <1>1, <2>1, PinsAre DEF IsLive
<1>6. Retiring'
  <2>1. \A it \in Pending : Current(it)' <=> Current(it) BY <1>1 DEF Current
  <2>2. wpc = "release" /\ Current(item) => item.id # id
    <3>1. SUFFICES ASSUME wpc = "release", Current(item), item.id = id PROVE FALSE OBVIOUS
    <3>2. item \in Pending BY <3>1, PendingTyped DEF InHand
    <3>3. Shows(hold[Store], item) BY <1>1, <3>1, <3>2 DEF Retiring, Holders
    <3>4. QED BY <1>5, <3>1, <3>3 DEF Retiring, Shows, Current
  <2>3. QED BY <1>1, <2>1, <2>2, PendingTyped, WorkerStays DEF Retiring, Shows, InHand, Current, Idle
<1>7. Backing'
  <2>1. \A i \in Ids : Hidden(i) => i # id BY <1>1, <1>5 DEF Hidden, Holders
  <2>2. \A i \in Ids : Hidden(i) => Hidden(i)' BY <1>1, <2>1, WorkerStays DEF Hidden
  <2>3. QED BY <1>1, <2>2, WorkerStays, BackingStays
<1>8. Counting' BY <1>1, WorkerStays DEF Counting, Rewound, Idle, Ids
<1>9. QED BY <1>2, <1>3, <1>4, <1>6, <1>7, <1>8

\* The rest of the lease constructor, and its destructor.
LEMMA PinEndKeeps == ASSUME IInv, PinEnd PROVE IInv'
<1> USE DEF IInv, Types, EntryTypes
<1>1. /\ fg.op = "pin" /\ fg.id \in Ids /\ fg.id < count /\ fg' = Idle
      /\ lastUse' = [lastUse EXCEPT ![fg.id] = step]
      /\ touches' \in [Ids -> Nat]
      /\ UNCHANGED <<gen, flags, count, step, lease, hold, events, store, mail>>
      /\ UNCHANGED worker
  BY TouchTyped DEF PinEnd, Lineage
<1>2. Types'
  <2>1. EntryTypes' BY <1>1 DEF Idle
  <2>2. WorkerTypes' BY <1>1, WorkerStays DEF WorkerTypes, InHand
  <2>3. QED BY <2>1, <2>2
<1>3. Lineage' BY <1>1, WorkerStays DEF Lineage, Idle
<1>4. Directory' BY <1>1, WorkerStays DEF Directory
<1>5. Retiring'
  <2>1. \A it \in Pending : Current(it)' <=> Current(it) BY <1>1 DEF Current
  <2>2. QED BY <1>1, <2>1, PendingTyped, WorkerStays DEF Retiring, Shows, InHand, Current, Idle
<1>6. Backing'
  <2>1. \A i \in Ids : Hidden(i) => Hidden(i)' BY <1>1, WorkerStays DEF Hidden
  <2>2. QED BY <1>1, <2>1, WorkerStays, BackingStays
<1>7. Counting' BY <1>1, WorkerStays DEF Counting, Rewound, Idle, Ids
<1>8. QED BY <1>2, <1>3, <1>4, <1>5, <1>6, <1>7

LEMMA UnpinKeeps == ASSUME IInv, NEW l \in Leases, Unpin(l) PROVE IInv'
<1> USE DEF IInv, Types, EntryTypes
<1>1. /\ fg = Idle /\ lease' = [lease EXCEPT ![l] = {}]
      /\ UNCHANGED <<gen, flags, lastUse, count, step, fg, hold, events, touches, store, mail>>
      /\ UNCHANGED worker
  BY DEF Unpin, entries
<1>2. Types'
  <2>1. EntryTypes' BY <1>1
  <2>2. WorkerTypes' BY <1>1, WorkerStays DEF WorkerTypes, InHand
  <2>3. QED BY <2>1, <2>2
<1>3. Lineage' BY <1>1, WorkerStays DEF Lineage
<1>4. Directory' BY <1>1, WorkerStays DEF Directory
<1>5. Retiring'
  <2>1. \A it \in Pending : Current(it)' <=> Current(it) BY <1>1 DEF Current
  <2>2. QED BY <1>1, <2>1, PendingTyped, WorkerStays DEF Retiring, Shows, InHand, Current
<1>6. Backing'
  <2>1. \A i \in Ids : Hidden(i) => Hidden(i)' BY <1>1, WorkerStays DEF Hidden
  <2>2. QED BY <1>1, <2>1, WorkerStays, BackingStays
<1>7. Counting' BY <1>1, WorkerStays DEF Counting, Rewound
<1>8. QED BY <1>2, <1>3, <1>4, <1>5, <1>6, <1>7

\* A score event names registered blocks only.
LEMMA SubmitScoresKeeps == ASSUME IInv, NEW kind \in Scores, SubmitScores(kind) PROVE IInv'
<1> USE DEF IInv, Types, EntryTypes
<1>1. /\ mail'.kinds = [i \in Ids |-> IF i < count /\ IsLive(i, hold[Store]) THEN kind[i] ELSE "none"]
      /\ mail' = [step |-> step, gens |-> gen, kinds |-> mail'.kinds]
      /\ UNCHANGED <<gen, flags, lastUse, count, step, lease, fg, hold, touches, store>>
      /\ UNCHANGED worker
  BY DEF SubmitScores, entries
<1>2. Types'
  <2>1. kind \in [Ids -> {"low", "mid", "high"}] BY GcConfig
  <2>2. mail'.kinds \in [Ids -> {"low", "mid", "high", "none"}] BY <1>1, <2>1
  <2>3. mail' \in Event BY <1>1, <2>2 DEF Event
  <2>4. EntryTypes' BY <1>1, <2>3
  <2>5. WorkerTypes' BY <1>1, WorkerStays DEF WorkerTypes, InHand
  <2>6. QED BY <2>4, <2>5
<1>3. Lineage' BY <1>1, WorkerStays DEF Lineage
<1>4. Directory' BY <1>1, WorkerStays DEF Directory
<1>5. Retiring'
  <2>1. \A it \in Pending : Current(it)' <=> Current(it) BY <1>1 DEF Current
  <2>2. QED BY <1>1, <2>1, PendingTyped, WorkerStays DEF Retiring, Shows, InHand, Current
<1>6. Backing'
  <2>1. \A i \in Ids : Hidden(i) => Hidden(i)' BY <1>1, WorkerStays DEF Hidden
  <2>2. QED BY <1>1, <2>1, WorkerStays, BackingStays
<1>7. Counting' BY <1>1, WorkerStays DEF Counting, Rewound
<1>8. QED BY <1>2, <1>3, <1>4, <1>5, <1>6, <1>7

----------------------------------------------------------------------------
(* The worker thread.                                                      *)

\* A new history is of the lineage it was made for, and nothing is known of the block.
LEMMA NewHistoryIs ==
  ASSUME NEW g \in Nat, NEW b \in BOOLEAN
  PROVE  /\ NewHistory(g, b) \in History
         /\ NewHistory(g, b).gen = g /\ NewHistory(g, b).counted = b
         /\ NewHistory(g, b).dead = FALSE /\ NewHistory(g, b).shadow = FALSE
  BY DEF NewHistory, History

\* The fields of a history that was reused.
LEMMA ReuseIs ==
  ASSUME NEW h \in History, NEW r, r = [h EXCEPT !.shadow = FALSE, !.cstep = 0]
  PROVE  /\ r \in History /\ r.gen = h.gen
         /\ r.counted = h.counted /\ r.dead = h.dead /\ r.shadow = FALSE
<1>1. r = [[h EXCEPT !.shadow = FALSE] EXCEPT !.cstep = 0] OBVIOUS
<1>2. PICK q : q = [h EXCEPT !.shadow = FALSE] OBVIOUS
<1>3. /\ q \in History /\ q.gen = h.gen
      /\ q.counted = h.counted /\ q.dead = h.dead /\ q.shadow = FALSE
  BY <1>2 DEF History
<1>4. r = [q EXCEPT !.cstep = 0] BY <1>1, <1>2
<1>5. /\ r \in History /\ r.gen = q.gen
      /\ r.counted = q.counted /\ r.dead = q.dead /\ r.shadow = q.shadow
  <2>0. q \in History BY <1>3
  <2> USE DEF History
  <2>1. r \in History BY <2>0, <1>4
  <2>2. r.gen = q.gen BY <2>0, <1>4
  <2>3. r.counted = q.counted BY <2>0, <1>4
  <2>4. r.dead = q.dead BY <2>0, <1>4
  <2>5. r.shadow = q.shadow BY <2>0, <1>4
  <2>6. QED BY <2>1, <2>2, <2>3, <2>4, <2>5
<1>6. QED BY <1>3, <1>5

\* Refreshing a history of a stale lineage forgets its tombstone with it; refreshing a
\* reused one ends its nomination; a block that an item is about is neither.
LEMMA RefreshedIs ==
  ASSUME IInv, NEW i \in Ids
  PROVE  /\ Refreshed(i) \in History
         /\ Stale(i) => /\ Refreshed(i).gen = gen[i] /\ ~Refreshed(i).dead /\ ~Refreshed(i).shadow
                        /\ Refreshed(i).counted <=> flags[i] # "none"
         /\ ~Stale(i) => /\ Refreshed(i).gen = hist[i].gen /\ Refreshed(i).dead = hist[i].dead
                         /\ Refreshed(i).counted = hist[i].counted
                         /\ Refreshed(i).shadow <=> hist[i].shadow /\ ~Reused(i)
<1>1. hist[i] \in History /\ gen[i] \in Nat BY DEF IInv, Types, EntryTypes, WorkerTypes
<1>2. CASE Stale(i)
  <2>1. (flags[i] # "none") \in BOOLEAN OBVIOUS
  <2>2. Refreshed(i) = NewHistory(gen[i], flags[i] # "none") BY <1>2 DEF Refreshed
  <2>3. /\ Refreshed(i) \in History /\ Refreshed(i).gen = gen[i]
        /\ Refreshed(i).counted <=> flags[i] # "none"
        /\ Refreshed(i).dead = FALSE /\ Refreshed(i).shadow = FALSE
    <3>1. CASE flags[i] = "none"
      <4>1. Refreshed(i) = NewHistory(gen[i], FALSE) BY <2>2, <3>1
      <4>2. FALSE \in BOOLEAN OBVIOUS
      <4>3. /\ Refreshed(i) \in History /\ Refreshed(i).gen = gen[i] /\ Refreshed(i).counted = FALSE
            /\ Refreshed(i).dead = FALSE /\ Refreshed(i).shadow = FALSE
        BY <1>1, <4>1, <4>2, NewHistoryIs, ZenonT(60)
      <4>4. QED BY <3>1, <4>3
    <3>2. CASE flags[i] # "none"
      <4>1. Refreshed(i) = NewHistory(gen[i], TRUE) BY <2>2, <3>2
      <4>2. TRUE \in BOOLEAN OBVIOUS
      <4>3. /\ Refreshed(i) \in History /\ Refreshed(i).gen = gen[i] /\ Refreshed(i).counted = TRUE
            /\ Refreshed(i).dead = FALSE /\ Refreshed(i).shadow = FALSE
        BY <1>1, <4>1, <4>2, NewHistoryIs, ZenonT(60)
      <4>4. QED BY <3>2, <4>3
    <3>3. QED BY <3>1, <3>2
  <2>4. QED BY <1>2, <2>3
<1>3. CASE ~Stale(i) /\ Reused(i)
  <2>1. Refreshed(i) = [hist[i] EXCEPT !.shadow = FALSE, !.cstep = 0] BY <1>3 DEF Refreshed
  <2>2. /\ Refreshed(i) \in History /\ Refreshed(i).gen = hist[i].gen
        /\ Refreshed(i).counted = hist[i].counted /\ Refreshed(i).dead = hist[i].dead
        /\ Refreshed(i).shadow = FALSE
    BY <1>1, <2>1, ReuseIs
  <2>3. QED BY <1>3, <2>2
<1>4. CASE ~Stale(i) /\ ~Reused(i)
  <2>1. Refreshed(i) = hist[i] BY <1>4 DEF Refreshed
  <2>2. QED BY <1>1, <1>4, <2>1 DEF Reused
<1>5. QED BY <1>2, <1>3, <1>4

\* Two histories agree on everything but evidence and candidacy.
SameMarks(r, h) ==
  /\ r \in History /\ r.gen = h.gen /\ r.counted = h.counted /\ r.dead = h.dead /\ r.shadow = h.shadow

LEMMA EvidenceIs ==
  ASSUME NEW h \in History, NEW v \in Nat
  PROVE  /\ SameMarks([h EXCEPT !.low = v], h) /\ SameMarks([h EXCEPT !.high = v], h)
         /\ SameMarks([h EXCEPT !.cstep = v], h) /\ SameMarks([h EXCEPT !.ctouch = v], h)
         /\ SameMarks([h EXCEPT !.clevel = v], h)
<1> USE DEF SameMarks, History
<1>1. SameMarks([h EXCEPT !.low = v], h) OBVIOUS
<1>2. SameMarks([h EXCEPT !.high = v], h) OBVIOUS
<1>3. SameMarks([h EXCEPT !.cstep = v], h) OBVIOUS
<1>4. SameMarks([h EXCEPT !.ctouch = v], h) OBVIOUS
<1>5. SameMarks([h EXCEPT !.clevel = v], h) OBVIOUS
<1>6. QED BY <1>1, <1>2, <1>3, <1>4, <1>5

\* score_event adds evidence only, and the scan changes a block's candidacy only.
LEMMA ScoredIs ==
  ASSUME NEW h \in History, NEW kind \in {"low", "mid", "high"}, NEW s \in Nat
  PROVE  SameMarks(Scored(h, kind, s), h)
<1>1. CASE kind = "low" BY <1>1, EvidenceIs DEF Scored
<1>2. CASE kind = "mid" BY <1>2, EvidenceIs DEF Scored
<1>3. CASE kind = "high"
  <2>1. PICK q : q = [h EXCEPT !.low = 0] OBVIOUS
  <2>2. SameMarks(q, h) BY <2>1, EvidenceIs
  <2>3. Scored(h, kind, s) = [q EXCEPT !.high = s] BY <1>3, <2>1 DEF Scored
  <2>4. SameMarks([q EXCEPT !.high = s], q) BY <2>2, EvidenceIs DEF SameMarks
  <2>5. QED BY <2>2, <2>3, <2>4 DEF SameMarks
<1>4. QED BY <1>1, <1>2, <1>3

LEMMA ObservedIs ==
  ASSUME IInv, NEW id \in Ids, NEW h \in History, NEW n PROVE SameMarks(Observed(id, h, n), h)
<1>1. Level(id) \in Nat /\ touches[id] \in Nat /\ activeStep \in Nat
  BY DEF IInv, Types, EntryTypes, WorkerTypes, Level
<1>2. SameMarks(h, h) BY DEF SameMarks
<1>3. SameMarks([h EXCEPT !.cstep = 0], h) BY EvidenceIs
<1>4. SameMarks([h EXCEPT !.cstep = activeStep, !.ctouch = touches[id], !.clevel = Level(id)], h)
  <2>1. PICK p : p = [h EXCEPT !.cstep = activeStep] OBVIOUS
  <2>2. PICK q : q = [p EXCEPT !.ctouch = touches[id]] OBVIOUS
  <2>3. SameMarks(p, h) BY <1>1, <2>1, EvidenceIs
  <2>4. SameMarks(q, p) BY <1>1, <2>2, <2>3, EvidenceIs DEF SameMarks
  <2>5. SameMarks([q EXCEPT !.clevel = Level(id)], q) BY <1>1, <2>4, EvidenceIs DEF SameMarks
  <2>6. QED BY <2>1, <2>2, <2>3, <2>4, <2>5 DEF SameMarks
<1>5. QED BY <1>2, <1>3, <1>4 DEF Observed

\* What refreshing the blocks of S does to the live blocks, before any rewind: those that
\* became live were not counted, and nothing counted is lost.
LEMMA RefreshCounts ==
  ASSUME IInv, ~Rewound, NEW S \in SUBSET Ids, \A i \in S : i < count,
         hist' \in [Ids -> History], live' = RefreshedLive(S),
         \A i \in S : SameMarks(hist'[i], Refreshed(i)),
         \A i \in Ids \ S : hist'[i] = hist[i]
  PROVE  live' = Cardinality(LiveBlocks')
<1> DEFINE lost == {i \in S : Stale(i) /\ hist[i].counted /\ ~hist[i].dead /\ ~hist[i].shadow}
           gained == {i \in S : IF Stale(i) THEN flags[i] # "none" ELSE Reused(i)}
<1>1. IsFiniteSet(Ids) BY IdsFinite
<1>2. \A i \in S : i \in Ids /\ gen[i] = 1 /\ flags[i] # "none" BY DEF IInv, Counting, Lineage
<1>3. \A i \in S : Stale(i) => ~hist[i].counted
  BY <1>2 DEF IInv, Counting, Stale
<1>4. lost = {} BY <1>3
<1>5. gained \cap LiveBlocks = {} BY <1>3 DEF LiveBlocks, Live, Reused
<1>6. LiveBlocks' = LiveBlocks \cup gained
  <2>1. \A i \in S : Live(i)' <=> Live(i) \/ i \in gained
    <3> TAKE i \in S
    <3>1. i \in Ids /\ flags[i] # "none" BY <1>2
    <3>2. SameMarks(hist'[i], Refreshed(i)) OBVIOUS
    <3>3. CASE Stale(i) BY <1>3, <3>1, <3>2, <3>3, RefreshedIs DEF SameMarks, Live
    <3>4. CASE ~Stale(i)
      <4>1. hist[i].shadow => hist[i].counted /\ ~hist[i].dead BY <3>1 DEF IInv, Counting
      <4>2. QED BY <3>1, <3>2, <3>4, <4>1, RefreshedIs DEF SameMarks, Live, Reused
    <3>5. QED BY <3>3, <3>4
  <2>2. \A i \in Ids \ S : Live(i)' <=> Live(i) BY DEF Live
  <2>3. QED BY <2>1, <2>2 DEF LiveBlocks
<1>7. /\ IsFiniteSet(LiveBlocks) /\ IsFiniteSet(gained)
      /\ Cardinality(LiveBlocks) \in Nat /\ Cardinality(gained) \in Nat
  BY <1>1, FS_Subset, FS_CardinalityType DEF LiveBlocks
<1>8. Cardinality(LiveBlocks') = Cardinality(LiveBlocks) + Cardinality(gained)
  <2> HIDE DEF gained
  <2>1. LiveBlocks \cap gained = {} /\ Cardinality({}) = 0 BY <1>5, FS_EmptySet
  <2>2. Cardinality(LiveBlocks \cup gained)
          = Cardinality(LiveBlocks) + Cardinality(gained) - Cardinality(LiveBlocks \cap gained)
    BY <1>7, FS_Union
  <2>3. Cardinality(LiveBlocks') = Cardinality(LiveBlocks \cup gained) BY <1>6
  <2>4. Cardinality(LiveBlocks \cap gained) = 0 BY <2>1
  <2>5. QED BY <1>7, <2>2, <2>3, <2>4
<1>9. RefreshedLive(S) = live + Cardinality(gained)
  <2>1. live = Cardinality(LiveBlocks) BY DEF IInv, Counting
  <2>2. RefreshedLive(S) = Max2(0, live - Cardinality(lost)) + Cardinality(gained) BY DEF RefreshedLive
  <2>3. Cardinality(lost) = 0 BY <1>4, FS_EmptySet
  <2> HIDE DEF lost, gained
  <2>4. QED BY <1>7, <2>1, <2>2, <2>3 DEF Max2
<1>10. QED BY <1>8, <1>9 DEF IInv, Counting

\* Refreshing any set of histories, between two items, keeps the invariant.
LEMMA RefreshKeeps ==
  ASSUME IInv, NEW S \in SUBSET Ids, ~Rewound => \A i \in S : i < count,
         UNCHANGED <<gen, flags, count, lease, fg, hold, store, view, retired>>,
         wpc \notin {"pick", "readers", "recheck", "release"},
         wpc' \notin {"pick", "readers", "recheck", "release"},
         hist' \in [Ids -> History], live' = RefreshedLive(S), dead' = RefreshedDead(S),
         dirty' = (dirty \/ dead' # dead),
         \A i \in S : SameMarks(hist'[i], Refreshed(i)),
         \A i \in Ids \ S : hist'[i] = hist[i],
         oldViews' \subseteq oldViews,
         \A h \in Holders : hold[h].epoch \in oldViews => hold[h].epoch \in oldViews',
         mail' \in {mail, NoMail}, UNCHANGED limit
  PROVE  /\ Lineage' /\ Directory' /\ Retiring' /\ Backing' /\ Counting'
         /\ live' \in Int /\ dead' \in [Ids -> Nat]
<1>0. /\ gen \in [Ids -> Nat] /\ dead \in [Ids -> Nat] /\ view.epoch \in Nat
      /\ \A i \in Ids : hist[i].gen \in Nat
  BY DEF IInv, Types, EntryTypes, WorkerTypes, History
<1>1. \A i \in Ids : i \in S /\ Stale(i) =>
        hist'[i].gen = gen[i] /\ ~hist'[i].dead /\ ~hist'[i].shadow
        /\ (hist'[i].counted <=> flags[i] # "none") /\ dead'[i] = 0
  BY RefreshedIs DEF SameMarks, RefreshedDead
<1>2. \A i \in Ids : ~(i \in S /\ Stale(i)) =>
        hist'[i].gen = hist[i].gen /\ (hist'[i].dead <=> hist[i].dead) /\ dead'[i] = dead[i]
        /\ (hist'[i].counted <=> hist[i].counted) /\ (hist'[i].shadow => hist[i].shadow)
  BY RefreshedIs DEF SameMarks, RefreshedDead
<1>3. Pending' = Pending /\ ~InHand' /\ ~InHand BY DEF Pending, Queued, InHand
<1>4. Lineage' BY <1>0, <1>1, <1>2 DEF IInv, Lineage, Stale
<1>5. Directory'
  <2>1. ~dirty' => view'.dead = dead'
    <3>1. ~dirty' => ~dirty /\ dead' = dead OBVIOUS
    <3>2. QED BY <3>1 DEF IInv, Directory
  <2>2. \A i \in Ids : /\ dead'[i] # 0 => hist'[i].dead /\ dead'[i] = hist'[i].gen
                       /\ hist'[i].dead => dead'[i] = hist'[i].gen /\ hist'[i].gen > 0
    BY <1>1, <1>2 DEF IInv, Directory
  <2>3. QED BY <2>1, <2>2 DEF IInv, Directory
<1>6. Retiring'
  <2>1. \A it \in Pending : it.id \in Ids /\ it.epoch < view.epoch
    BY <1>0, PendingTyped DEF IInv, Retiring
  <2>2. \A it \in Pending : (Current(it)' <=> Current(it)) /\ (Current(it) => ~Stale(it.id))
    BY <2>1 DEF IInv, Retiring, Current, Stale
  <2>3. QED BY <1>2, <1>3, <2>1, <2>2 DEF IInv, Retiring, Shows
<1>7. Backing'
  <2>1. ASSUME NEW i \in Ids, flags[i] = "cold"
        PROVE  /\ dead'[i] = gen[i] <=> dead[i] = gen[i]
               /\ Hidden(i) => Hidden(i)'
    <3>1. gen[i] > 0 BY <2>1 DEF IInv, Lineage
    <3>2. dead[i] = gen[i] => ~Stale(i) BY <1>0, <2>1, <3>1 DEF IInv, Directory, Stale
    <3>3. dead'[i] = gen[i] <=> dead[i] = gen[i] BY <1>0, <1>1, <1>2, <3>1, <3>2
    <3>4. QED BY <3>3 DEF Hidden
  <2>2. \A it \in Pending : Current(it)' <=> Current(it) BY DEF Current
  <2>3. QED BY <1>3, <2>1, <2>2 DEF IInv, Backing, Gone
<1>8. Counting'
  <2> SUFFICES ASSUME ~Rewound PROVE Counting' BY DEF Counting, Rewound
  <2>1. live' = Cardinality(LiveBlocks') BY RefreshCounts
  <2>2. \A i \in Ids : i \in S /\ Stale(i) => i < count /\ gen[i] = 1 /\ flags[i] # "none"
    BY DEF IInv, Counting, Lineage
  <2>3. QED BY <1>0, <1>1, <1>2, <2>1, <2>2 DEF IInv, Counting
<1>9. live' \in Int /\ dead' \in [Ids -> Nat]
  <2>1. dead' \in [Ids -> Nat] BY <1>0 DEF RefreshedDead
  <2>2. \A T \in SUBSET Ids : Cardinality(T) \in Nat
    <3>1. QED BY IdsFinite, FS_Subset, FS_CardinalityType
  <2>3. PICK L \in SUBSET Ids, G \in SUBSET Ids :
          RefreshedLive(S) = Max2(0, live - Cardinality(L)) + Cardinality(G)
    BY DEF RefreshedLive
  <2>4. live \in Int BY DEF IInv, Types, WorkerTypes
  <2>5. QED BY <2>1, <2>2, <2>3, <2>4 DEF Max2
<1>10. QED BY <1>4, <1>5, <1>6, <1>7, <1>8, <1>9

\* The start of a tick: uses of the working window, delivered scores, forgotten views.
LEMMA TickStartKeeps == ASSUME IInv, TickStart PROVE IInv'
<1> DEFINE scored == IF mail = NoMail THEN {}
                     ELSE {i \in Ids : mail.kinds[i] # "none" /\ mail.gens[i] = gen[i]}
           used == IF activeStep # step THEN lease[Working] ELSE {}
<1>1. /\ wpc = "idle" /\ wpc' = "check" /\ Touch(used)
      /\ lastUse' = [i \in Ids |-> IF i \in used THEN Max2(lastUse[i], step) ELSE lastUse[i]]
      /\ hist' = [i \in Ids |-> IF i \in scored
                    THEN Scored(Refreshed(i), mail.kinds[i], mail.step) ELSE hist[i]]
      /\ live' = RefreshedLive(scored) /\ dead' = RefreshedDead(scored)
      /\ dirty' = (dirty \/ dead' # dead) /\ mail' = NoMail
      /\ oldViews' = {v \in oldViews : \E h \in Holders : hold[h].epoch = v}
      /\ left' = Min2(Len(retired), ScanBlocks)
  BY DEF TickStart
<1>2. UNCHANGED <<gen, flags, count, step, lease, fg, hold, store, view, retired, item, shadow, cursor,
                  limit, ready, events>>
  BY DEF TickStart, request, sweep
<1>3. scored \in SUBSET Ids OBVIOUS
<1>4. \A i \in scored : SameMarks(hist'[i], Refreshed(i))
  <2> TAKE i \in scored
  <2>1. mail \in Event /\ mail.kinds[i] # "none" BY DEF IInv, Types, EntryTypes
  <2>2. mail.kinds[i] \in {"low", "mid", "high"} /\ mail.step \in Nat BY <2>1 DEF Event
  <2>3. Refreshed(i) \in History BY RefreshedIs
  <2>4. QED BY <1>1, <2>2, <2>3, ScoredIs
<1>5. \A i \in Ids \ scored : hist'[i] = hist[i] BY <1>1
<1>6. hist' \in [Ids -> History]
  <2>1. \A i \in Ids : hist'[i] \in History
    BY <1>4, <1>5 DEF SameMarks, IInv, Types, WorkerTypes
  <2>2. QED BY <1>1, <2>1
<1>7. ~Rewound => \A i \in scored : i < count BY DEF IInv, Counting
<1> HIDE DEF scored
<1>8. /\ Lineage' /\ Directory' /\ Retiring' /\ Backing' /\ Counting'
      /\ live' \in Int /\ dead' \in [Ids -> Nat]
  <2>1. oldViews' \subseteq oldViews BY <1>1
  <2>2. \A h \in Holders : hold[h].epoch \in oldViews => hold[h].epoch \in oldViews' BY <1>1
  <2>3. QED BY <1>1, <1>2, <1>3, <1>4, <1>5, <1>6, <1>7, <2>1, <2>2, RefreshKeeps
<1>9. Types'
  <2>1. touches' \in [Ids -> Nat] BY <1>1, TouchTyped DEF IInv
  <2>2. lastUse' \in [Ids -> Nat]
    <3>1. \A i \in Ids : Max2(lastUse[i], step) \in Nat BY DEF IInv, Types, EntryTypes, Max2
    <3>2. QED BY <1>1, <3>1 DEF IInv, Types, EntryTypes
  <2>3. EntryTypes' BY <1>1, <1>2, <2>1, <2>2 DEF IInv, Types, EntryTypes
  <2>4. left' \in Int /\ left' <= Len(retired)
    <3>1. Len(retired) \in Nat BY DEF IInv, Types, WorkerTypes
    <3>2. QED BY <1>1, <3>1, GcConfig DEF Min2
  <2>5. activeStep' \in Nat BY DEF TickStart, IInv, Types, EntryTypes
  <2>6. WorkerTypes' BY <1>1, <1>2, <1>6, <1>8, <2>4, <2>5 DEF IInv, Types, WorkerTypes, InHand
  <2>7. QED BY <2>3, <2>6 DEF Types
<1>10. QED BY <1>8, <1>9 DEF IInv

\* One block of the scan.
LEMMA ScanBlockKeeps == ASSUME IInv, ScanBlock PROVE IInv'
<1> DEFINE h == Refreshed(cursor)
           h2 == IF flags[cursor] = "none" THEN h ELSE Observed(cursor, h, RefreshedLive({cursor}))
<1>1. /\ wpc = "scan" /\ wpc' = "scan" /\ left > 0
      /\ hist' = [hist EXCEPT ![cursor] = h2]
      /\ live' = RefreshedLive({cursor}) /\ dead' = RefreshedDead({cursor})
      /\ dirty' = (dirty \/ dead' # dead)
      /\ ready' \in {ready, ready \cup {cursor}}
      /\ cursor' = cursor + 1 /\ left' = left - 1
  BY DEF ScanBlock
<1>2. UNCHANGED <<gen, flags, lastUse, count, step, lease, fg, hold, events, view, oldViews, retired,
                  item, shadow, limit, touches, store, mail, activeStep>>
  BY DEF ScanBlock, entries, request
<1>3. cursor \in Ids /\ cursor < limit
  <2>1. cursor \in Nat /\ limit \in 0 .. Capacity /\ left \in Int /\ left <= limit - cursor
    BY <1>1 DEF IInv, Types, WorkerTypes
  <2>2. QED BY <1>1, <2>1, GcConfig DEF Ids
<1>4. SameMarks(h2, h)
  <2>1. h \in History BY <1>3, RefreshedIs
  <2>2. SameMarks(h, h) BY <2>1 DEF SameMarks
  <2>3. QED BY <1>3, <2>1, <2>2, ObservedIs
<1> HIDE DEF h2
<1>5. hist \in [Ids -> History] BY DEF IInv, Types, WorkerTypes
<1>6. hist' \in [Ids -> History] /\ hist'[cursor] = h2 /\ \A i \in Ids \ {cursor} : hist'[i] = hist[i]
  BY <1>1, <1>3, <1>4, <1>5 DEF SameMarks
<1>7. ~Rewound => \A i \in {cursor} : i < count
  BY <1>3 DEF IInv, Types, EntryTypes, WorkerTypes, Counting
<1>8. /\ Lineage' /\ Directory' /\ Retiring' /\ Backing' /\ Counting'
      /\ live' \in Int /\ dead' \in [Ids -> Nat]
  <2>1. {cursor} \in SUBSET Ids BY <1>3
  <2>2. \A i \in {cursor} : SameMarks(hist'[i], Refreshed(i)) BY <1>4, <1>6
  <2>3. QED BY <1>1, <1>2, <1>6, <1>7, <2>1, <2>2, RefreshKeeps
<1>9. Types'
  <2>1. EntryTypes' BY <1>2 DEF IInv, Types, EntryTypes
  <2>2. WorkerTypes'
    <3>1. cursor' \in Nat /\ left' \in Int /\ cursor' <= limit /\ left' <= limit - cursor'
      BY <1>1, <1>3 DEF IInv, Types, WorkerTypes
    <3>2. ready' \in SUBSET Ids BY <1>1, <1>3 DEF IInv, Types, WorkerTypes
    <3>3. QED BY <1>1, <1>2, <1>6, <1>8, <3>1, <3>2 DEF IInv, Types, WorkerTypes, InHand
  <2>3. QED BY <2>1, <2>2 DEF Types
<1>10. QED BY <1>8, <1>9 DEF IInv

\* Taking the head of the queue, and putting an item at its end.
LEMMA TailIs ==
  ASSUME NEW q \in Seq(Retirement), q # <<>>
  PROVE  /\ Head(q) \in Retirement /\ Tail(q) \in Seq(Retirement)
         /\ {q[k] : k \in DOMAIN q} = {Head(q)} \cup {Tail(q)[k] : k \in DOMAIN Tail(q)}
         /\ (\A j, k \in DOMAIN q : j # k => ~Same(q[j], q[k])) =>
              /\ \A j, k \in DOMAIN Tail(q) : j # k => ~Same(Tail(q)[j], Tail(q)[k])
              /\ \A k \in DOMAIN Tail(q) : ~Same(Head(q), Tail(q)[k])
<1>1. /\ Head(q) = q[1] /\ Head(q) \in Retirement /\ 1 \in DOMAIN q
      /\ Tail(q) \in Seq(Retirement) /\ Len(q) \in Nat \ {0} /\ DOMAIN q = 1 .. Len(q)
      /\ DOMAIN Tail(q) = 1 .. (Len(q) - 1)
  OBVIOUS
<1>2. \A k \in DOMAIN Tail(q) : Tail(q)[k] = q[k + 1] /\ k + 1 \in DOMAIN q /\ k + 1 # 1 BY <1>1
<1>3. \A k \in DOMAIN q : k # 1 => k - 1 \in DOMAIN Tail(q) /\ q[k] = Tail(q)[k - 1] BY <1>1
<1>4. \A j, k \in DOMAIN Tail(q) : j # k => j + 1 # k + 1 BY <1>1
<1>5. {q[k] : k \in DOMAIN q} = {Head(q)} \cup {Tail(q)[k] : k \in DOMAIN Tail(q)}
  <2> DEFINE Q == {q[k] : k \in DOMAIN q}
             T == {Head(q)} \cup {Tail(q)[k] : k \in DOMAIN Tail(q)}
  <2>1. \A k \in DOMAIN q : q[k] \in T BY <1>1, <1>3
  <2>2. Head(q) \in Q BY <1>1
  <2>3. \A k \in DOMAIN Tail(q) : Tail(q)[k] \in Q BY <1>2
  <2>4. Q \subseteq T
    <3> HIDE DEF T
    <3>1. QED BY <2>1
  <2>5. T \subseteq Q
    <3> HIDE DEF Q
    <3>1. QED BY <2>2, <2>3
  <2>6. QED BY <2>4, <2>5
<1>6. QED BY <1>1, <1>2, <1>4, <1>5

LEMMA AppendIs ==
  ASSUME NEW q \in Seq(Retirement), NEW it \in Retirement
  PROVE  /\ Append(q, it) \in Seq(Retirement)
         /\ {Append(q, it)[k] : k \in DOMAIN Append(q, it)} = {q[k] : k \in DOMAIN q} \cup {it}
         /\ (\A j, k \in DOMAIN q : j # k => ~Same(q[j], q[k])) /\ (\A k \in DOMAIN q : ~Same(it, q[k])) =>
              \A j, k \in DOMAIN Append(q, it) : j # k => ~Same(Append(q, it)[j], Append(q, it)[k])
<1> DEFINE a == Append(q, it)
<1>1. /\ a \in Seq(Retirement) /\ Len(q) \in Nat /\ DOMAIN q = 1 .. Len(q)
      /\ DOMAIN a = 1 .. (Len(q) + 1) /\ a[Len(q) + 1] = it
      /\ \A k \in DOMAIN q : a[k] = q[k]
  OBVIOUS
<1> HIDE DEF a
<1>2. \A k \in DOMAIN a : k \in DOMAIN q \/ k = Len(q) + 1 BY <1>1
<1>3. \A k \in DOMAIN q : k \in DOMAIN a BY <1>1
<1>4. {a[k] : k \in DOMAIN a} = {q[k] : k \in DOMAIN q} \cup {it} BY <1>1, <1>2, <1>3
<1>5. ASSUME \A j, k \in DOMAIN q : j # k => ~Same(q[j], q[k]), \A k \in DOMAIN q : ~Same(it, q[k])
      PROVE  \A j, k \in DOMAIN a : j # k => ~Same(a[j], a[k])
  BY <1>1, <1>2, <1>5 DEF Same
<1>6. QED BY <1>1, <1>4, <1>5 DEF a

\* A step of the worker that at most takes items out of the queue, or looks at one.
LEMMA QueueKeeps ==
  ASSUME IInv, UNCHANGED <<gen, flags, count, lease, fg, hold, view, oldViews, dead, dirty, hist, live,
                           store, mail>>,
         limit' \in {limit, count},
         wpc # "pick", Pending' \subseteq Pending,
         \A j, k \in DOMAIN retired' : j # k => ~Same(retired'[j], retired'[k]),
         InHand' => \A k \in DOMAIN retired' : ~Same(item', retired'[k]),
         wpc' \in {"recheck", "release"} =>
           \A h \in Holders : hold[h] # NoView => hold[h].epoch > item'.epoch,
         wpc' = "release" /\ Current(item)' =>
           flags[item'.id] = "cold" /\ \A l \in Leases : item'.id \notin lease[l]
  PROVE  Lineage' /\ Directory' /\ Retiring' /\ Backing' /\ Counting'
<1>1. Lineage' BY DEF IInv, Lineage
<1>2. Directory' BY DEF IInv, Directory
<1>3. Retiring'
  <2>1. \A it \in Pending : it.epoch \in Nat /\ view.epoch \in Nat
    BY PendingTyped DEF IInv, Types, WorkerTypes
  <2>2. \A it \in Pending : (Current(it)' <=> Current(it)) /\ it.epoch # view.epoch
    BY DEF Current, IInv, Retiring
  <2>3. QED BY <2>1, <2>2 DEF IInv, Retiring, Shows
<1>4. Backing'
  <2>1. \A i \in Ids : Hidden(i) => Hidden(i)' BY DEF Hidden
  <2>2. QED BY <2>1, BackingStays DEF IInv
<1>5. Counting' BY DEF IInv, Types, EntryTypes, Counting, Rewound, LiveBlocks, Live
<1>6. QED BY <1>1, <1>2, <1>3, <1>4, <1>5

\* The item goes back to the end of the queue.
LEMMA RequeueIs ==
  ASSUME IInv, InHand, Requeue
  PROVE  /\ retired' \in Seq(Retirement) /\ Pending' = Pending /\ wpc' = "check" /\ ~InHand'
         /\ Len(retired) <= Len(retired')
         /\ \A j, k \in DOMAIN retired' : j # k => ~Same(retired'[j], retired'[k])
<1>1. retired' = Append(retired, item) /\ wpc' = "check" BY DEF Requeue
<1>2. retired \in Seq(Retirement) /\ item \in Retirement BY DEF IInv, Types, WorkerTypes
<1>3. Pending' = Pending
  <2>1. {Append(retired, item)[k] : k \in DOMAIN Append(retired, item)} = Queued \cup {item}
    BY <1>2, AppendIs DEF Queued
  <2>2. Pending' = Queued' /\ Queued' = {Append(retired, item)[k] : k \in DOMAIN Append(retired, item)}
    BY <1>1 DEF Pending, Queued, InHand
  <2>3. QED BY <2>1, <2>2 DEF Pending
<1>4. QED BY <1>1, <1>2, <1>3, AppendIs DEF IInv, Retiring, InHand

\* Only directories that show the retirement are held when the second look begins.
LEMMA CheckReadersKeeps == ASSUME IInv, CheckReaders PROVE IInv'
<1>1. /\ wpc = "readers" /\ InHand
      /\ IF ReadersBefore(item.epoch) THEN Requeue ELSE wpc' = "recheck" /\ UNCHANGED <<retired, item>>
      /\ UNCHANGED <<gen, flags, lastUse, count, step, lease, fg, hold, events, view, oldViews, dead, dirty,
                     hist, live, shadow, cursor, limit, ready, left, touches, store, mail, activeStep>>
  BY DEF CheckReaders, InHand, entries, request, directory, history, sweep
<1>2. EntryTypes' BY <1>1 DEF IInv, Types, EntryTypes
<1>3. CASE ReadersBefore(item.epoch)
  <2>1. Requeue BY <1>1, <1>3
  <2>2. /\ retired' \in Seq(Retirement) /\ Pending' = Pending /\ wpc' = "check" /\ ~InHand'
        /\ Len(retired) <= Len(retired') /\ Len(retired) \in Nat /\ Len(retired') \in Nat
        /\ \A j, k \in DOMAIN retired' : j # k => ~Same(retired'[j], retired'[k])
    BY <1>1, <2>1, RequeueIs DEF IInv, Types, WorkerTypes
  <2>3. WorkerTypes' BY <1>1, <2>2 DEF IInv, Types, WorkerTypes
  <2>4. Lineage' /\ Directory' /\ Retiring' /\ Backing' /\ Counting' BY <1>1, <2>2, QueueKeeps
  <2>5. QED BY <1>2, <2>3, <2>4 DEF IInv, Types
<1>4. CASE ~ReadersBefore(item.epoch)
  <2>1. wpc' = "recheck" /\ UNCHANGED <<retired, item>> BY <1>1, <1>4
  <2>2. InHand' /\ Pending' = Pending BY <1>1, <2>1 DEF Pending, Queued, InHand
  <2>3. WorkerTypes' BY <1>1, <2>1, <2>2 DEF IInv, Types, WorkerTypes
  <2>4. \A h \in Holders : hold[h] # NoView => hold[h].epoch > item.epoch
    <3> TAKE h \in Holders
    <3> HAVE hold[h] # NoView
    <3>1. hold[h].epoch \in oldViews \cup {view.epoch} BY DEF IInv, Directory
    <3>2. item.epoch \in Nat /\ view.epoch \in Nat /\ oldViews \subseteq Nat /\ item.epoch < view.epoch
      BY <1>1, PendingTyped DEF IInv, Types, WorkerTypes, Retiring
    <3>3. CASE hold[h].epoch = view.epoch BY <3>2, <3>3
    <3>4. CASE hold[h].epoch \in oldViews
      <4>1. ~(hold[h].epoch <= item.epoch) BY <1>4, <3>4 DEF ReadersBefore
      <4>2. hold[h].epoch \in Nat BY <3>2, <3>4
      <4>3. QED BY <3>2, <4>1, <4>2
    <3>5. QED BY <3>1, <3>3, <3>4
  <2>5. Lineage' /\ Directory' /\ Retiring' /\ Backing' /\ Counting'
    <3>1. /\ \A j, k \in DOMAIN retired : j # k => ~Same(retired[j], retired[k])
          /\ \A k \in DOMAIN retired : ~Same(item, retired[k])
      BY <1>1 DEF IInv, Retiring
    <3>2. QED BY <1>1, <2>1, <2>2, <2>4, <3>1, QueueKeeps
  <2>6. QED BY <1>2, <2>3, <2>5 DEF IInv, Types
<1>5. QED BY <1>3, <1>4

\* The second look: nobody has a lease when the release begins.
LEMMA RecheckKeeps == ASSUME IInv, Recheck PROVE IInv'
<1>1. /\ wpc = "recheck" /\ InHand
      /\ IF LateUse THEN Requeue ELSE wpc' = "release" /\ UNCHANGED <<retired, item>>
      /\ UNCHANGED <<gen, flags, lastUse, count, step, lease, fg, hold, events, view, oldViews, dead, dirty,
                     hist, live, shadow, cursor, limit, ready, left, touches, store, mail, activeStep>>
  BY DEF Recheck, InHand, entries, request, directory, history, sweep
<1>2. EntryTypes' BY <1>1 DEF IInv, Types, EntryTypes
<1>3. CASE LateUse
  <2>1. Requeue BY <1>1, <1>3
  <2>2. /\ retired' \in Seq(Retirement) /\ Pending' = Pending /\ wpc' = "check" /\ ~InHand'
        /\ Len(retired) <= Len(retired') /\ Len(retired) \in Nat /\ Len(retired') \in Nat
        /\ \A j, k \in DOMAIN retired' : j # k => ~Same(retired'[j], retired'[k])
    BY <1>1, <2>1, RequeueIs DEF IInv, Types, WorkerTypes
  <2>3. WorkerTypes' BY <1>1, <2>2 DEF IInv, Types, WorkerTypes
  <2>4. Lineage' /\ Directory' /\ Retiring' /\ Backing' /\ Counting' BY <1>1, <2>2, QueueKeeps
  <2>5. QED BY <1>2, <2>3, <2>4 DEF IInv, Types
<1>4. CASE ~LateUse
  <2>1. wpc' = "release" /\ UNCHANGED <<retired, item>> BY <1>1, <1>4
  <2>2. InHand' /\ Pending' = Pending BY <1>1, <2>1 DEF Pending, Queued, InHand
  <2>3. WorkerTypes' BY <1>1, <2>1, <2>2 DEF IInv, Types, WorkerTypes
  <2>4. item.id \in Ids /\ ~ProtectedNow(item.id) BY <1>1, <1>4, PendingTyped DEF IInv, LateUse
  <2>5. flags[item.id] = "cold" /\ \A l \in Leases : item.id \notin lease[l]
    BY <2>4, PinsAre DEF IInv, ProtectedNow
  <2>6. Lineage' /\ Directory' /\ Retiring' /\ Backing' /\ Counting'
    <3>1. /\ \A j, k \in DOMAIN retired : j # k => ~Same(retired[j], retired[k])
          /\ \A k \in DOMAIN retired : ~Same(item, retired[k])
          /\ \A h \in Holders : hold[h] # NoView => hold[h].epoch > item.epoch
      BY <1>1 DEF IInv, Retiring
    <3>2. QED BY <1>1, <2>1, <2>2, <2>5, <3>1, QueueKeeps
  <2>7. QED BY <1>2, <2>3, <2>6 DEF IInv, Types
<1>5. QED BY <1>3, <1>4

\* Between the loops.
LEMMA ScanStartKeeps == ASSUME IInv, ScanStart PROVE IInv'
<1>1. /\ wpc = "check" /\ wpc' = "scan"
      /\ limit' = (IF cursor = 0 THEN Max2(limit, count) ELSE limit)
      /\ left' = Min2(ScanBlocks, limit' - cursor)
      /\ UNCHANGED <<gen, flags, lastUse, count, step, lease, fg, hold, events, view, oldViews, dead, dirty,
                     hist, live, retired, item, shadow, cursor, ready, touches, store, mail, activeStep>>
  BY DEF ScanStart, ScanQuota, entries, request, directory, history
<1>2. EntryTypes' BY <1>1 DEF IInv, Types, EntryTypes
<1>3. /\ limit' \in {limit, count} /\ limit <= limit' /\ limit' \in 0 .. Capacity
      /\ cursor \in Nat /\ cursor <= limit'
  BY <1>1, GcConfig DEF IInv, Types, EntryTypes, WorkerTypes, Max2
<1>4. left' \in Int /\ left' <= limit' - cursor BY <1>1, <1>3, GcConfig DEF Min2
<1>5. ~InHand' /\ Pending' = Pending BY <1>1 DEF Pending, Queued, InHand
<1>6. WorkerTypes' BY <1>1, <1>3, <1>4, <1>5 DEF IInv, Types, WorkerTypes
<1>7. Lineage' /\ Directory' /\ Retiring' /\ Backing' /\ Counting'
  <2>1. \A j, k \in DOMAIN retired : j # k => ~Same(retired[j], retired[k]) BY DEF IInv, Retiring
  <2>2. QED BY <1>1, <1>3, <1>5, <2>1, QueueKeeps
<1>8. QED BY <1>2, <1>6, <1>7 DEF IInv, Types

\* A retirement is cancelled: the tombstone goes, and no other item is about the block.
LEMMA CancelKeeps ==
  ASSUME IInv, NEW it \in Pending, ~InHand, ~InHand', wpc # "pick",
         UNCHANGED <<gen, flags, count, lease, fg, hold, view, oldViews, store, mail, limit>>,
         gen[it.id] = it.gen,
         dead' = [dead EXCEPT ![it.id] = 0],
         hist' = [hist EXCEPT ![it.id].dead = FALSE, ![it.id].cstep = 0],
         live' = live + 1, dirty' = TRUE,
         Pending' \subseteq Pending, \A jt \in Pending' : ~Same(it, jt),
         \A j, k \in DOMAIN retired' : j # k => ~Same(retired'[j], retired'[k])
  PROVE  /\ Lineage' /\ Directory' /\ Retiring' /\ Backing' /\ Counting'
         /\ hist' \in [Ids -> History] /\ live' \in Int /\ dead' \in [Ids -> Nat]
<1>1. it.id \in Ids /\ it.gen \in Nat BY PendingTyped DEF IInv
<1>2. hist \in [Ids -> History] /\ dead \in [Ids -> Nat] /\ live \in Int
  BY DEF IInv, Types, WorkerTypes
<1>3. PICK q : q = [hist[it.id] EXCEPT !.dead = FALSE, !.cstep = 0] OBVIOUS
<1>4. /\ q \in History /\ q.gen = hist[it.id].gen /\ q.counted = hist[it.id].counted
      /\ q.dead = FALSE /\ q.shadow = hist[it.id].shadow
  <2>1. hist[it.id] \in History BY <1>1, <1>2
  <2>2. PICK p : p = [hist[it.id] EXCEPT !.dead = FALSE] OBVIOUS
  <2>3. /\ p \in History /\ p.gen = hist[it.id].gen /\ p.counted = hist[it.id].counted
        /\ p.dead = FALSE /\ p.shadow = hist[it.id].shadow
    BY <2>1, <2>2 DEF History
  <2>4. q = [p EXCEPT !.cstep = 0] BY <1>3, <2>2
  <2>5. SameMarks(q, p) BY <2>3, <2>4, EvidenceIs
  <2>6. QED BY <2>3, <2>5 DEF SameMarks
<1>5. hist' = [hist EXCEPT ![it.id] = q] BY <1>1, <1>2, <1>3
<1>6. /\ hist' \in [Ids -> History] /\ hist'[it.id] = q
      /\ \A i \in Ids : i # it.id => hist'[i] = hist[i] /\ dead'[i] = dead[i]
      /\ dead' \in [Ids -> Nat] /\ dead'[it.id] = 0
  <2>1. hist' \in [Ids -> History] BY <1>2, <1>4, <1>5
  <2>2. hist'[it.id] = q BY <1>1, <1>2, <1>5
  <2>3. \A i \in Ids : i # it.id => hist'[i] = hist[i] BY <1>2, <1>5
  <2>4. /\ dead' \in [Ids -> Nat] /\ dead'[it.id] = 0
        /\ \A i \in Ids : i # it.id => dead'[i] = dead[i]
    BY <1>1, <1>2
  <2>5. QED BY <2>1, <2>2, <2>3, <2>4
<1>7. Lineage' BY <1>1, <1>4, <1>6 DEF IInv, Lineage
<1>8. Directory' BY <1>1, <1>4, <1>6 DEF IInv, Directory
<1>9. Retiring'
  <2>1. \A jt \in Pending : jt.epoch \in Nat /\ view.epoch \in Nat /\ jt.id \in Ids
    BY PendingTyped DEF IInv, Types, WorkerTypes
  <2>2. \A jt \in Pending' : (Current(jt)' <=> Current(jt)) /\ (Current(jt) => jt.id # it.id)
                             /\ jt.epoch # view.epoch
    BY DEF Current, Same, IInv, Retiring
  <2>3. QED BY <1>6, <2>1, <2>2 DEF IInv, Retiring, Shows, InHand
<1>10. Backing'
  <2>1. \A i \in Ids : Gone(i) => i # it.id BY DEF Gone
  <2>2. \A i \in Ids : Gone(i) => Gone(i)' BY <1>6, <2>1 DEF Gone
  <2>3. \A i \in Ids : Hidden(i) => Hidden(i)' BY DEF Hidden
  <2>4. gen[it.id] # 0 BY <1>1 DEF IInv, Retiring
  <2>5. \A i \in Ids : dead'[i] = gen[i] => dead[i] = gen[i] BY <1>6, <2>4
  <2>6. \A jt \in Pending : Current(jt)' <=> Current(jt) BY DEF Current
  <2>7. QED BY <2>2, <2>3, <2>5, <2>6 DEF IInv, Backing
<1>11. Counting'
  <2> SUFFICES ASSUME ~Rewound PROVE Counting' BY DEF Counting, Rewound
  <2>1. Current(it)
    <3>1. gen[it.id] = 1 BY <1>1 DEF IInv, Counting, Retiring
    <3>2. ~(fg.op = "register" /\ fg.id = it.id)
      <4>1. fg.op = "register" /\ fg.id = it.id => it.gen < gen[it.id] BY DEF IInv, Retiring
      <4>2. QED BY <1>1, <4>1
    <3>3. it.id < count BY <1>1, <3>1, <3>2 DEF IInv, Counting
    <3>4. QED BY <1>1, <3>3 DEF IInv, Lineage, Current
  <2>2. hist[it.id].dead /\ hist[it.id].counted /\ ~hist[it.id].shadow
    BY <1>1, <2>1 DEF IInv, Retiring, Counting
  <2>3. LiveBlocks' = LiveBlocks \cup {it.id} /\ it.id \notin LiveBlocks
    BY <1>1, <1>4, <1>6, <2>2 DEF LiveBlocks, Live
  <2>4. IsFiniteSet(LiveBlocks) BY IdsFinite, FS_Subset DEF LiveBlocks
  <2>5. Cardinality(LiveBlocks \cup {it.id}) = Cardinality(LiveBlocks) + 1
    BY <2>3, <2>4, FS_AddElement
  <2>6. live' = Cardinality(LiveBlocks') BY <2>3, <2>5 DEF IInv, Counting
  <2>7. QED BY <1>1, <1>4, <1>6, <2>6 DEF IInv, Counting
<1>12. QED BY <1>2, <1>6, <1>7, <1>8, <1>9, <1>10, <1>11

\* The first look at an item: dropped, cancelled or taken in hand.
LEMMA CheckItemKeeps == ASSUME IInv, CheckItem PROVE IInv'
<1> DEFINE it == Head(retired)
<1>1. /\ wpc = "check" /\ left > 0 /\ left' = left - 1 /\ retired' = Tail(retired)
      /\ UNCHANGED <<gen, flags, lastUse, count, step, lease, fg, hold, events, view, oldViews,
                     shadow, cursor, limit, ready, touches, store, mail, activeStep>>
  BY DEF CheckItem, entries, request, sweep
<1>2. \/ gen[it.id] # it.gen /\ UNCHANGED <<item, hist, dead, live, dirty, wpc>>
      \/ /\ gen[it.id] = it.gen
         /\ dead' = [dead EXCEPT ![it.id] = 0]
         /\ hist' = [hist EXCEPT ![it.id].dead = FALSE, ![it.id].cstep = 0]
         /\ live' = live + 1 /\ dirty' = TRUE
         /\ UNCHANGED <<item, wpc>>
      \/ item' = it /\ wpc' = "readers" /\ UNCHANGED <<hist, dead, live, dirty>>
  BY DEF CheckItem, CancelledLive
<1>3. retired \in Seq(Retirement) /\ retired # <<>> /\ Len(retired') = Len(retired) - 1
      /\ left <= Len(retired) /\ left \in Int /\ Len(retired) \in Nat
  <2>1. retired \in Seq(Retirement) /\ left <= Len(retired) /\ left \in Int /\ Len(retired) \in Nat
    BY <1>1 DEF IInv, Types, WorkerTypes
  <2>2. retired # <<>> BY <1>1, <2>1
  <2>3. QED BY <1>1, <2>1, <2>2
<1>4. /\ it \in Retirement /\ retired' \in Seq(Retirement)
      /\ Queued = {it} \cup Queued'
      /\ \A j, k \in DOMAIN retired' : j # k => ~Same(retired'[j], retired'[k])
      /\ \A k \in DOMAIN retired' : ~Same(it, retired'[k])
  <2>1. \A j, k \in DOMAIN retired : j # k => ~Same(retired[j], retired[k]) BY DEF IInv, Retiring
  <2>2. /\ it \in Retirement /\ Tail(retired) \in Seq(Retirement)
        /\ {retired[k] : k \in DOMAIN retired} = {it} \cup {Tail(retired)[k] : k \in DOMAIN Tail(retired)}
        /\ \A j, k \in DOMAIN Tail(retired) : j # k => ~Same(Tail(retired)[j], Tail(retired)[k])
        /\ \A k \in DOMAIN Tail(retired) : ~Same(it, Tail(retired)[k])
    BY <1>3, <2>1, TailIs
  <2>3. Queued = {retired[k] : k \in DOMAIN retired}
        /\ Queued' = {Tail(retired)[k] : k \in DOMAIN Tail(retired)}
    BY <1>1 DEF Queued
  <2>4. QED BY <1>1, <2>2, <2>3
<1>5. ~InHand /\ Pending = Queued /\ it \in Pending BY <1>1, <1>4 DEF Pending, InHand
<1>6. EntryTypes' BY <1>1 DEF IInv, Types, EntryTypes
<1> HIDE DEF it
<1>7. CASE gen[it.id] # it.gen /\ UNCHANGED <<item, hist, dead, live, dirty, wpc>>
  <2>1. ~InHand' /\ Pending' = Queued' BY <1>5, <1>7 DEF Pending, InHand
  <2>2. WorkerTypes' BY <1>1, <1>3, <1>4, <1>7, <2>1 DEF IInv, Types, WorkerTypes
  <2>3. Lineage' /\ Directory' /\ Retiring' /\ Backing' /\ Counting'
    BY <1>1, <1>4, <1>5, <1>7, <2>1, QueueKeeps
  <2>4. QED BY <1>6, <2>2, <2>3 DEF IInv, Types
<1>8. CASE /\ gen[it.id] = it.gen
           /\ dead' = [dead EXCEPT ![it.id] = 0]
           /\ hist' = [hist EXCEPT ![it.id].dead = FALSE, ![it.id].cstep = 0]
           /\ live' = live + 1 /\ dirty' = TRUE
           /\ UNCHANGED <<item, wpc>>
  <2>1. ~InHand' /\ Pending' = Queued' BY <1>5, <1>8 DEF Pending, InHand
  <2>2. \A jt \in Pending' : ~Same(it, jt) BY <1>4, <2>1 DEF Queued
  <2>3. /\ Lineage' /\ Directory' /\ Retiring' /\ Backing' /\ Counting'
        /\ hist' \in [Ids -> History] /\ live' \in Int /\ dead' \in [Ids -> Nat]
    BY <1>1, <1>4, <1>5, <1>8, <2>1, <2>2, CancelKeeps
  <2>4. WorkerTypes' BY <1>1, <1>3, <1>4, <1>8, <2>1, <2>3 DEF IInv, Types, WorkerTypes
  <2>5. QED BY <1>6, <2>3, <2>4 DEF IInv, Types
<1>9. CASE item' = it /\ wpc' = "readers" /\ UNCHANGED <<hist, dead, live, dirty>>
  <2>1. InHand' /\ Pending' = Pending BY <1>4, <1>5, <1>9 DEF Pending, InHand
  <2>2. WorkerTypes' BY <1>1, <1>3, <1>4, <1>9, <2>1 DEF IInv, Types, WorkerTypes
  <2>3. Lineage' /\ Directory' /\ Retiring' /\ Backing' /\ Counting'
    BY <1>1, <1>4, <1>5, <1>9, <2>1, QueueKeeps
  <2>4. QED BY <1>6, <2>2, <2>3 DEF IInv, Types
<1>10. QED BY <1>2, <1>7, <1>8, <1>9 DEF it

\* A release frees the allocations of the item's lineage in the tiers it finds free; the
\* block is hidden by then, and with the last tier its retirement cannot be cancelled.
LEMMA ReleaseKeeps == ASSUME IInv, NEW busy \in SUBSET Tiers, Release(busy) PROVE IInv'
<1> DEFINE now == Tiers \ (item.done \cup busy)
           all == item.done \cup now
           it == [item EXCEPT !.done = all]
<1>1. /\ wpc = "release" /\ wpc' = "check" /\ InHand /\ ~InHand'
      /\ store' = [t \in Tiers |-> IF t \in now
                     THEN [store[t] EXCEPT ![item.id] = FreeExact(t, item.id, item.alloc[t])]
                     ELSE store[t]]
      /\ IF all = Tiers THEN retired' = retired ELSE retired' = Append(retired, it)
      /\ UNCHANGED <<gen, flags, lastUse, count, step, lease, fg, hold, events, view, oldViews, dead, dirty,
                     hist, live, shadow, cursor, limit, ready, left, touches, mail, activeStep>>
  BY DEF Release, InHand, entries, request, directory, history, sweep
<1>2. /\ item \in Retirement /\ item \in Pending /\ item.id \in Ids /\ item.gen \in Nat
      /\ retired \in Seq(Retirement)
      /\ item.gen > 0 /\ \A t \in Tiers : item.alloc[t] = item.gen
  BY <1>1, PendingTyped DEF IInv, Types, WorkerTypes, Retiring
<1>3. /\ it \in Retirement /\ it.id = item.id /\ it.gen = item.gen /\ it.epoch = item.epoch
      /\ it.alloc = item.alloc /\ it.done = all
  <2>1. all \in SUBSET Tiers BY <1>2 DEF Retirement
  <2> HIDE DEF all
  <2>2. QED BY <1>2, <2>1 DEF Retirement
<1>4. \A t \in Tiers, i \in Ids :
        /\ store'[t][i] = store[t][i] \/ (store'[t][i] = 0 /\ i = item.id /\ gen[i] = item.gen)
        /\ store'[t][i] \in Nat
  <2> TAKE t \in Tiers, i \in Ids
  <2>1. store[t] \in [Ids -> Nat] /\ store[t][i] \in {0, gen[i]} /\ gen[i] \in Nat
    BY DEF IInv, Types, EntryTypes, Lineage
  <2>2. FreeExact(t, item.id, item.alloc[t])
          = (IF store[t][item.id] = item.gen THEN 0 ELSE store[t][item.id])
    BY <1>2 DEF FreeExact
  <2>3. QED BY <1>1, <1>2, <2>1, <2>2
<1> HIDE DEF it, all, now
<1>5. store' \in [Tiers -> [Ids -> Nat]]
  <2>1. \A t \in Tiers : store[t] \in [Ids -> Nat] BY DEF IInv, Types, EntryTypes
  <2>2. \A t \in Tiers : store'[t] \in [Ids -> Nat] BY <1>1, <1>2, <1>4, <2>1
  <2>3. QED BY <1>1, <2>2
<1>6. EntryTypes' BY <1>1, <1>5 DEF IInv, Types, EntryTypes
<1>7. /\ retired' \in Seq(Retirement) /\ Len(retired) <= Len(retired')
      /\ Len(retired) \in Nat /\ Len(retired') \in Nat
      /\ Pending' = (IF all = Tiers THEN Queued ELSE Queued \cup {it})
      /\ \A j, k \in DOMAIN retired' : j # k => ~Same(retired'[j], retired'[k])
  <2>1. /\ \A j, k \in DOMAIN retired : j # k => ~Same(retired[j], retired[k])
        /\ \A k \in DOMAIN retired : ~Same(it, retired[k])
    BY <1>1, <1>3 DEF IInv, Retiring, Same
  <2>2. Pending' = {retired'[k] : k \in DOMAIN retired'} BY <1>1 DEF Pending, Queued
  <2>3. CASE all = Tiers BY <1>1, <1>2, <2>1, <2>2, <2>3 DEF Queued
  <2>4. CASE all # Tiers
    <3>1. retired' = Append(retired, it) BY <1>1, <2>4
    <3>2. {Append(retired, it)[k] : k \in DOMAIN Append(retired, it)} = Queued \cup {it}
      BY <1>2, <1>3, AppendIs DEF Queued
    <3>3. QED BY <1>2, <1>3, <2>1, <2>2, <2>4, <3>1, <3>2, AppendIs
  <2>5. QED BY <2>3, <2>4
<1>8. WorkerTypes' BY <1>1, <1>7 DEF IInv, Types, WorkerTypes
<1>9. \A jt \in Pending' : \E kt \in Pending : Same(jt, kt) /\ jt.epoch = kt.epoch /\ jt.alloc = kt.alloc
  <2>1. \A jt \in Queued : jt \in Pending BY DEF Pending
  <2>2. QED BY <1>2, <1>3, <1>7, <2>1 DEF Same
<1>10. Lineage' BY <1>1, <1>4 DEF IInv, Types, EntryTypes, Lineage
<1>11. Directory' BY <1>1 DEF IInv, Directory
<1>12. Retiring'
  <2>1. \A jt \in Pending' :
       /\ 0 < jt.gen /\ jt.gen <= gen[jt.id]
       /\ \A t \in Tiers : jt.alloc[t] = jt.gen
       /\ jt.epoch <= view.epoch /\ jt.epoch # view.epoch
       /\ fg.op = "register" /\ fg.id = jt.id => jt.gen < gen[jt.id]
       /\ Current(jt) =>
            /\ hist[jt.id].dead /\ hist[jt.id].gen = jt.gen
            /\ view.epoch > jt.epoch => Shows(view, jt)
            /\ \A h \in Holders : hold[h] # NoView /\ hold[h].epoch > jt.epoch => Shows(hold[h], jt)
    <3> TAKE jt \in Pending'
    <3>1. PICK kt \in Pending : Same(jt, kt) /\ jt.epoch = kt.epoch /\ jt.alloc = kt.alloc BY <1>9
    <3>2. QED BY <1>1, <3>1 DEF IInv, Retiring, Same, Current, Shows
  <2>2. \A jt \in Pending' : Current(jt)' <=> Current(jt) BY <1>1 DEF Current
  <2>3. QED BY <1>1, <1>7, <2>1, <2>2 DEF Retiring, Shows
<1>13. Backing'
  <2>1. \A t \in Tiers, i \in Ids :
          store'[t][i] # store[t][i] => i = item.id /\ gen[i] = item.gen /\ t \in all
    BY <1>1, <1>2, <1>4 DEF all
  <2>2. \A jt \in Pending' : Current(jt)' => \A t \in Tiers \ jt.done : store'[t][jt.id] = jt.gen
    <3> SUFFICES ASSUME NEW jt \in Pending', Current(jt), NEW t \in Tiers \ jt.done
                 PROVE  store'[t][jt.id] = jt.gen
      BY <1>1 DEF Current
    <3>1. CASE jt \in Queued
      <4>1. jt \in Pending /\ ~Same(item, jt) BY <1>1, <3>1 DEF Pending, Queued, IInv, Retiring
      <4>2. store[t][jt.id] = jt.gen /\ jt.id \in Ids BY <4>1, PendingTyped DEF IInv, Backing
      <4>3. QED BY <2>1, <4>1, <4>2 DEF Same, Current
    <3>2. CASE jt = it
      <4>1. t \notin all /\ t \notin item.done BY <1>3, <3>2 DEF all
      <4>2. Current(item) BY <1>3, <3>2 DEF Current
      <4>3. store[t][item.id] = item.gen BY <1>2, <4>1, <4>2 DEF IInv, Backing
      <4>4. QED BY <1>2, <1>3, <2>1, <3>2, <4>1, <4>3
    <3>3. QED BY <1>7, <3>1, <3>2
  <2>3. ASSUME NEW i \in Ids, flags[i] = "cold", Hidden(i) PROVE Hidden(i)' BY <1>1, <2>3 DEF Hidden
  <2>4. ASSUME NEW i \in Ids, flags[i] = "cold", Gone(i) PROVE Gone(i)'
    <3>1. \A jt \in Pending' : jt.id = i => jt.gen # gen[i] BY <1>9, <2>4 DEF Gone, Same
    <3>2. QED BY <1>1, <2>4, <3>1 DEF Gone
  <2>5. ASSUME NEW i \in Ids, i = item.id, Current(item) PROVE Hidden(i)'
    <3>1. item.epoch < view.epoch
      <4>1. item.epoch \in Nat /\ view.epoch \in Nat BY <1>1, PendingTyped DEF IInv, Types, WorkerTypes
      <4>2. QED BY <1>1, <1>2, <4>1 DEF IInv, Retiring
    <3>2. /\ view.dead[i] = gen[i] /\ \A l \in Leases : i \notin lease[l]
          /\ \A h \in Holders : hold[h] # NoView => hold[h].dead[i] = gen[i]
      BY <1>1, <1>2, <2>5, <3>1 DEF IInv, Retiring, Shows, Current
    <3>3. QED BY <1>1, <3>2 DEF Hidden
  <2>6. ASSUME NEW i \in Ids, i = item.id, Current(item), \A t \in Tiers : store'[t][i] # gen[i]
        PROVE  Gone(i)'
    <3>1. \A t \in Tiers : t \in all
      <4> TAKE t \in Tiers
      <4>1. CASE t \in item.done BY <4>1 DEF all
      <4>2. CASE t \notin item.done
        <5>1. store[t][i] = gen[i] BY <1>2, <2>6, <4>2 DEF IInv, Backing, Current
        <5>2. QED BY <1>2, <2>1, <2>6, <5>1
      <4>3. QED BY <4>1, <4>2
    <3>2. all = Tiers BY <1>2, <3>1 DEF all, now, Retirement
    <3>3. \A jt \in Pending' : jt.id = i => jt.gen # gen[i]
      BY <1>1, <1>7, <2>6, <3>2 DEF IInv, Retiring, Queued, Same, Current
    <3>4. dead[i] = gen[i] BY <1>2, <2>6 DEF IInv, Retiring, Directory, Current
    <3>5. QED BY <1>1, <3>3, <3>4 DEF Gone
  <2>7. \A i \in Ids : flags[i] = "cold" /\ (\E t \in Tiers : store'[t][i] # store[t][i])
                       => i = item.id /\ Current(item)
    BY <2>1 DEF Current
  <2>8. ASSUME NEW i \in Ids, flags[i] = "cold"
        PROVE  /\ dead[i] = gen[i] /\ (\E t \in Tiers : store'[t][i] # gen[i]) => Hidden(i)'
               /\ (\A t \in Tiers : store'[t][i] # gen[i]) => Gone(i)'
    <3>1. CASE \A t \in Tiers : store'[t][i] = store[t][i]
      BY <2>3, <2>4, <2>8, <3>1 DEF IInv, Backing
    <3>2. CASE \E t \in Tiers : store'[t][i] # store[t][i]
      BY <2>5, <2>6, <2>7, <2>8, <3>2
    <3>3. QED BY <3>1, <3>2
  <2>9. QED BY <1>1, <2>2, <2>8 DEF Backing
<1>14. Counting' BY <1>1 DEF IInv, Counting, Rewound, LiveBlocks, Live
<1>15. QED BY <1>6, <1>8, <1>10, <1>11, <1>12, <1>13, <1>14 DEF IInv, Types

\* A candidate is live: it is registered, of the lineage its history is about.
LEMMA CandidateIs ==
  ASSUME IInv, NEW id \in Ids, StillCandidate(id)
  PROVE  /\ gen[id] = hist[id].gen /\ hist[id].gen > 0 /\ ~hist[id].dead /\ ~hist[id].shadow
         /\ flags[id] = "cold" /\ id < count
         /\ ~Rewound => Live(id)
<1>1. /\ gen[id] = hist[id].gen /\ ~hist[id].dead /\ ~hist[id].shadow /\ flags[id] = "cold"
  BY DEF StillCandidate, ProtectedNow
<1>2. gen[id] > 0 /\ id < count BY <1>1 DEF IInv, Types, EntryTypes, Lineage, Ids
<1>3. QED BY <1>1, <1>2 DEF IInv, Counting, Live

\* Taking a block out of the live ones keeps the count exact.
LEMMA LiveLess ==
  ASSUME NEW id, id \in LiveBlocks, live = Cardinality(LiveBlocks),
         LiveBlocks' = LiveBlocks \ {id}, live' = live - 1
  PROVE  live' = Cardinality(LiveBlocks')
<1>1. IsFiniteSet(LiveBlocks) BY IdsFinite, FS_Subset DEF LiveBlocks
<1>2. Cardinality(LiveBlocks \ {id}) = Cardinality(LiveBlocks) - 1 BY <1>1, FS_RemoveElement
<1>3. Cardinality(LiveBlocks') = Cardinality(LiveBlocks \ {id}) OBVIOUS
<1>4. QED BY <1>2, <1>3

\* A nomination in shadow mode.
LEMMA NominateKeeps ==
  ASSUME IInv, NEW id \in Ids, StillCandidate(id), wpc = "pick",
         UNCHANGED <<gen, flags, count, lease, fg, hold, view, oldViews, store, mail, limit, dead, dirty,
                     retired, item, wpc>>,
         hist' = [hist EXCEPT ![id].shadow = TRUE], live' = live - 1
  PROVE  Lineage' /\ Directory' /\ Retiring' /\ Backing' /\ Counting' /\ hist' \in [Ids -> History]
<1>1. hist \in [Ids -> History] BY DEF IInv, Types, WorkerTypes
<1>2. PICK q : q = [hist[id] EXCEPT !.shadow = TRUE] OBVIOUS
<1>3. /\ q \in History /\ q.gen = hist[id].gen /\ q.counted = hist[id].counted
      /\ q.dead = hist[id].dead /\ q.shadow = TRUE
  <2>1. hist[id] \in History BY <1>1
  <2>2. QED BY <1>2, <2>1 DEF History
<1>4. hist' \in [Ids -> History] /\ hist'[id] = q /\ \A i \in Ids : i # id => hist'[i] = hist[i]
  BY <1>1, <1>2, <1>3
<1>5. \A i \in Ids : hist'[i].gen = hist[i].gen /\ (hist'[i].dead <=> hist[i].dead)
                     /\ (hist'[i].counted <=> hist[i].counted)
  BY <1>3, <1>4
<1>6. Pending' = Pending /\ InHand' = InHand BY DEF Pending, Queued, InHand
<1>7. Lineage' BY <1>5 DEF IInv, Lineage
<1>8. Directory' BY <1>5 DEF IInv, Directory
<1>9. Retiring'
  <2>1. \A it \in Pending : it.id \in Ids BY PendingTyped DEF IInv
  <2>2. \A it \in Pending : Current(it)' <=> Current(it) BY DEF Current
  <2>3. QED BY <1>5, <1>6, <2>1, <2>2 DEF IInv, Retiring, Shows, InHand
<1>10. Backing'
  <2>1. \A i \in Ids : Hidden(i) => Hidden(i)' BY DEF Hidden
  <2>2. QED BY <1>6, <2>1, BackingStays DEF IInv
<1>11. Counting'
  <2> SUFFICES ASSUME ~Rewound PROVE Counting' BY DEF Counting, Rewound
  <2>1. Live(id) BY CandidateIs
  <2>2. LiveBlocks' = LiveBlocks \ {id} /\ id \in LiveBlocks
    BY <1>3, <1>4, <2>1 DEF LiveBlocks, Live
  <2>3. live' = Cardinality(LiveBlocks') BY <2>2, LiveLess DEF IInv, Counting
  <2>4. QED BY <1>3, <1>4, <2>1, <2>3 DEF IInv, Counting, Live
<1>12. QED BY <1>4, <1>7, <1>8, <1>9, <1>10, <1>11

\* A retirement: the block gets a tombstone and an item that holds its allocations.  No
\* item of its lineage was there, since its history was not dead.
LEMMA RetireKeeps ==
  ASSUME IInv, NEW id \in Ids, StillCandidate(id), wpc = "pick", NEW it,
         UNCHANGED <<gen, flags, count, lease, fg, hold, view, oldViews, store, mail, limit, item, wpc>>,
         \A t \in Tiers : store[t][id] # 0,
         it = [id |-> id, gen |-> hist[id].gen, epoch |-> view.epoch, touches |-> hist[id].ctouch,
               level |-> hist[id].clevel, done |-> {}, alloc |-> [t \in Tiers |-> store[t][id]]],
         retired' = Append(retired, it),
         hist' = [hist EXCEPT ![id].dead = TRUE],
         dead' = [dead EXCEPT ![id] = hist[id].gen], live' = live - 1, dirty' = TRUE
  PROVE  /\ Lineage' /\ Directory' /\ Retiring' /\ Backing' /\ Counting'
         /\ hist' \in [Ids -> History] /\ dead' \in [Ids -> Nat] /\ retired' \in Seq(Retirement)
<1>1. /\ hist \in [Ids -> History] /\ hist[id] \in History /\ dead \in [Ids -> Nat]
      /\ retired \in Seq(Retirement) /\ view.epoch \in Nat
  BY DEF IInv, Types, WorkerTypes
<1>2. /\ gen[id] = hist[id].gen /\ hist[id].gen > 0 /\ ~hist[id].dead /\ ~hist[id].shadow
      /\ flags[id] = "cold" /\ id < count
  BY CandidateIs
<1>3. PICK q : q = [hist[id] EXCEPT !.dead = TRUE] OBVIOUS
<1>4. /\ q \in History /\ q.gen = hist[id].gen /\ q.counted = hist[id].counted
      /\ q.dead = TRUE /\ q.shadow = hist[id].shadow
  BY <1>1, <1>3 DEF History
<1>5. /\ hist' \in [Ids -> History] /\ hist'[id] = q
      /\ \A i \in Ids : i # id => hist'[i] = hist[i] /\ dead'[i] = dead[i]
      /\ dead' \in [Ids -> Nat] /\ dead'[id] = hist[id].gen
  <2>1. hist[id].gen \in Nat BY <1>1 DEF History
  <2>2. QED BY <1>1, <1>3, <1>4, <2>1
<1>6. /\ it \in Retirement /\ it.id = id /\ it.gen = gen[id] /\ it.epoch = view.epoch /\ it.done = {}
      /\ \A t \in Tiers : it.alloc[t] = it.gen
  <2>1. \A t \in Tiers : store[t][id] \in Nat /\ store[t][id] = gen[id]
    BY DEF IInv, Types, EntryTypes, Lineage
  <2>2. hist[id].gen \in Nat /\ hist[id].ctouch \in Nat /\ hist[id].clevel \in Nat BY <1>1 DEF History
  <2>3. [t \in Tiers |-> store[t][id]] \in [Tiers -> Nat] BY <2>1
  <2>4. it \in Retirement BY <1>1, <2>2, <2>3 DEF Retirement
  <2>5. QED BY <1>2, <2>1, <2>4
<1>7. ~InHand /\ ~InHand' BY DEF InHand
<1>8. \A jt \in Pending : jt \in Retirement /\ jt.id \in Ids /\ ~Same(it, jt)
  <2>1. \A jt \in Pending : jt \in Retirement /\ jt.id \in Ids BY PendingTyped DEF IInv
  <2>2. \A jt \in Pending : Same(it, jt) => Current(jt) BY <1>2, <1>6 DEF Same, Current
  <2>3. QED BY <1>2, <1>6, <2>1, <2>2 DEF IInv, Retiring, Same
<1>9. /\ retired' \in Seq(Retirement) /\ Pending' = Pending \cup {it}
      /\ \A j, k \in DOMAIN retired' : j # k => ~Same(retired'[j], retired'[k])
  <2>1. Pending = Queued /\ Pending' = Queued' BY <1>7 DEF Pending
  <2>2. /\ \A j, k \in DOMAIN retired : j # k => ~Same(retired[j], retired[k])
        /\ \A k \in DOMAIN retired : ~Same(it, retired[k])
    BY <1>8, <2>1 DEF IInv, Retiring, Queued
  <2>3. {Append(retired, it)[k] : k \in DOMAIN Append(retired, it)} = Queued \cup {it}
    BY <1>1, <1>6, AppendIs DEF Queued
  <2>4. Queued' = {Append(retired, it)[k] : k \in DOMAIN Append(retired, it)} BY DEF Queued
  <2>5. /\ retired' \in Seq(Retirement)
        /\ \A j, k \in DOMAIN retired' : j # k => ~Same(retired'[j], retired'[k])
    <3>1. retired \in Seq(Retirement) /\ it \in Retirement BY <1>1, <1>6
    <3>2. /\ Append(retired, it) \in Seq(Retirement)
          /\ \A j, k \in DOMAIN Append(retired, it) :
               j # k => ~Same(Append(retired, it)[j], Append(retired, it)[k])
      BY <2>2, <3>1, AppendIs, ZenonT(60)
    <3>3. QED BY <3>2, ZenonT(60)
  <2>6. QED BY <2>1, <2>3, <2>4, <2>5
<1>10. Lineage'
  <2>1. ~(fg.op = "register" /\ fg.id = id) BY <1>2 DEF IInv, Lineage, Types, EntryTypes, Ids
  <2>2. QED BY <1>4, <1>5, <2>1 DEF IInv, Lineage
<1>11. Directory' BY <1>2, <1>4, <1>5 DEF IInv, Directory
<1>12. Retiring'
  <2>1. ~(fg.op = "register" /\ fg.id = id) BY <1>2 DEF IInv, Lineage, Types, EntryTypes, Ids
  <2>2. \A jt \in Pending : (Current(jt)' <=> Current(jt)) /\ (Current(jt) => jt.id # id)
    BY <1>2, <1>8 DEF Current, IInv, Retiring
  <2>3. \A jt \in Pending :
       /\ 0 < jt.gen /\ jt.gen <= gen[jt.id]
       /\ \A t \in Tiers : jt.alloc[t] = jt.gen
       /\ jt.epoch <= view.epoch
       /\ fg.op = "register" /\ fg.id = jt.id => jt.gen < gen[jt.id]
       /\ Current(jt) =>
            /\ hist'[jt.id].dead /\ hist'[jt.id].gen = jt.gen
            /\ view.epoch > jt.epoch => Shows(view, jt)
            /\ \A h \in Holders : hold[h] # NoView /\ hold[h].epoch > jt.epoch => Shows(hold[h], jt)
    BY <1>5, <1>8, <2>2 DEF IInv, Retiring
  <2>4. \A h \in Holders : hold[h] # NoView => ~(hold[h].epoch > it.epoch)
    <3>1. \A h \in Holders : hold[h].epoch \in Int BY DEF IInv, Types, EntryTypes, View
    <3>2. QED BY <1>1, <1>6, <3>1 DEF IInv, Directory
  <2>5. /\ 0 < it.gen /\ it.gen <= gen[it.id] /\ it.epoch <= view.epoch /\ ~(view.epoch > it.epoch)
        /\ hist'[it.id].dead /\ hist'[it.id].gen = it.gen
    <3>1. gen[id] \in Nat BY DEF IInv, Types, EntryTypes
    <3>2. QED BY <1>1, <1>2, <1>4, <1>5, <1>6, <3>1
  <2>6. \A jt \in Pending' :
       /\ 0 < jt.gen /\ jt.gen <= gen'[jt.id]
       /\ \A t \in Tiers : jt.alloc[t] = jt.gen
       /\ jt.epoch <= view'.epoch
       /\ fg'.op = "register" /\ fg'.id = jt.id => jt.gen < gen'[jt.id]
       /\ Current(jt)' =>
            /\ hist'[jt.id].dead /\ hist'[jt.id].gen = jt.gen
            /\ view'.epoch > jt.epoch => Shows(view', jt)
            /\ \A h \in Holders : hold'[h] # NoView /\ hold'[h].epoch > jt.epoch => Shows(hold'[h], jt)
    <3> TAKE jt \in Pending'
    <3>1. CASE jt \in Pending BY <2>2, <2>3, <3>1
    <3>2. CASE jt = it BY <1>6, <2>1, <2>4, <2>5, <3>2
    <3>3. QED BY <1>9, <3>1, <3>2
  <2>7. QED BY <1>7, <1>9, <2>6 DEF Retiring, Shows
<1>13. Backing'
  <2>1. \A t \in Tiers : store[t][id] = gen[id] BY DEF IInv, Lineage
  <2>2. \E t \in Tiers : TRUE BY DEF Tiers
  <2>3. \A jt \in Pending' : Current(jt)' => \A t \in Tiers \ jt.done : store'[t][jt.id] = jt.gen
    BY <1>6, <1>9, <2>1 DEF IInv, Backing, Current
  <2>4. ASSUME NEW i \in Ids, flags[i] = "cold"
        PROVE  /\ dead'[i] = gen[i] /\ (\E t \in Tiers : store[t][i] # gen[i]) => Hidden(i)'
               /\ (\A t \in Tiers : store[t][i] # gen[i]) => Gone(i)'
    <3>1. CASE i = id BY <2>1, <2>2, <3>1
    <3>2. CASE i # id BY <1>5, <1>6, <1>9, <2>4, <3>2 DEF IInv, Backing, Hidden, Gone
    <3>3. QED BY <3>1, <3>2
  <2>5. QED BY <2>3, <2>4 DEF Backing
<1>14. Counting'
  <2> SUFFICES ASSUME ~Rewound PROVE Counting' BY DEF Counting, Rewound
  <2>1. Live(id) BY CandidateIs
  <2>2. LiveBlocks' = LiveBlocks \ {id} /\ id \in LiveBlocks
    BY <1>4, <1>5, <2>1 DEF LiveBlocks, Live
  <2>3. live' = Cardinality(LiveBlocks') BY <2>2, LiveLess DEF IInv, Counting
  <2>4. QED BY <1>2, <1>4, <1>5, <2>1, <2>3 DEF IInv, Counting, Live
<1>15. QED BY <1>5, <1>9, <1>10, <1>11, <1>12, <1>13, <1>14

\* One ranked candidate.
LEMMA PickKeeps == ASSUME IInv, NEW id \in Ids, Pick(id) PROVE IInv'
<1>1. /\ wpc = "pick" /\ left > 0 /\ ready' = ready \ {id}
      /\ UNCHANGED <<gen, flags, lastUse, count, step, lease, fg, hold, events, view, oldViews, item, shadow,
                     cursor, limit, touches, store, mail, activeStep, wpc>>
  BY DEF Pick, entries, request
<1>2. EntryTypes' BY <1>1 DEF IInv, Types, EntryTypes
<1>3. ready' \in SUBSET Ids /\ left \in Int /\ live \in Int
  BY <1>1 DEF IInv, Types, WorkerTypes
<1>4. ~InHand /\ ~InHand' BY <1>1 DEF InHand
<1>5. CASE UNCHANGED <<hist, live, left, retired, dead, dirty>>
  <2>1. WorkerTypes' BY <1>1, <1>3, <1>4, <1>5 DEF IInv, Types, WorkerTypes
  <2>2. Pending' = Pending /\ LiveBlocks' = LiveBlocks
    BY <1>1, <1>4, <1>5 DEF Pending, Queued, LiveBlocks, Live
  <2>3. Lineage' /\ Directory' BY <1>1, <1>5 DEF IInv, Lineage, Directory
  <2>4. Retiring' BY <1>1, <1>4, <1>5, <2>2 DEF IInv, Retiring, Shows, Current
  <2>5. \A i \in Ids : Hidden(i) => Hidden(i)' BY <1>1 DEF Hidden
  <2>6. Backing' BY <1>1, <1>5, <2>2, <2>5, BackingStays DEF IInv
  <2>7. Counting' BY <1>1, <1>5, <2>2 DEF IInv, Counting, Rewound
  <2>8. QED BY <1>2, <2>1, <2>3, <2>4, <2>6, <2>7 DEF IInv, Types
<1>6. CASE /\ StillCandidate(id) /\ hist' = [hist EXCEPT ![id].shadow = TRUE]
           /\ live' = live - 1 /\ left' = left - 1 /\ UNCHANGED <<retired, dead, dirty>>
  <2>1. Lineage' /\ Directory' /\ Retiring' /\ Backing' /\ Counting' /\ hist' \in [Ids -> History]
    BY <1>1, <1>6, NominateKeeps
  <2>2. WorkerTypes' BY <1>1, <1>3, <1>4, <1>6, <2>1 DEF IInv, Types, WorkerTypes
  <2>3. QED BY <1>2, <2>1, <2>2 DEF IInv, Types
<1>7. CASE /\ StillCandidate(id) /\ \A t \in Tiers : store[t][id] # 0
           /\ retired' = Append(retired,
                [id |-> id, gen |-> hist[id].gen, epoch |-> view.epoch, touches |-> hist[id].ctouch,
                 level |-> hist[id].clevel, done |-> {}, alloc |-> [t \in Tiers |-> store[t][id]]])
           /\ hist' = [hist EXCEPT ![id].dead = TRUE] /\ dead' = [dead EXCEPT ![id] = hist[id].gen]
           /\ live' = live - 1 /\ left' = left - 1 /\ dirty' = TRUE
  <2>1. PICK it : it = [id |-> id, gen |-> hist[id].gen, epoch |-> view.epoch, touches |-> hist[id].ctouch,
                        level |-> hist[id].clevel, done |-> {}, alloc |-> [t \in Tiers |-> store[t][id]]]
    OBVIOUS
  <2>2. retired' = Append(retired, it) BY <1>7, <2>1
  <2>3. /\ Lineage' /\ Directory' /\ Retiring' /\ Backing' /\ Counting'
        /\ hist' \in [Ids -> History] /\ dead' \in [Ids -> Nat] /\ retired' \in Seq(Retirement)
    BY <1>1, <1>7, <2>1, <2>2, RetireKeeps
  <2>4. left' \in Int /\ live' \in Int /\ wpc' = "pick" BY <1>1, <1>3, <1>7
  <2>5. WorkerTypes' BY <1>1, <1>3, <1>4, <2>3, <2>4 DEF IInv, Types, WorkerTypes
  <2>6. QED BY <1>2, <2>3, <2>5 DEF IInv, Types
<1>8. QED BY <1>5, <1>6, <1>7 DEF Pick

\* The end of a tick publishes the tombstones: a newer directory shows every retirement.
LEMMA EndTickKeeps ==
  ASSUME IInv, ~InHand, EndTick,
         UNCHANGED <<gen, flags, count, lease, fg, hold, store, mail, hist, live, dead, retired, limit>>
  PROVE  /\ Lineage' /\ Directory' /\ Retiring' /\ Backing' /\ Counting'
         /\ view' \in View /\ view'.epoch \in Nat /\ oldViews' \subseteq Nat /\ wpc' = "idle" /\ ~InHand'
<1>1. /\ view \in View /\ view.epoch \in Nat /\ oldViews \subseteq Nat /\ dead \in [Ids -> Nat]
      /\ hold \in [Holders -> View]
  BY DEF IInv, Types, EntryTypes, WorkerTypes
<1>2. wpc' = "idle" /\ ~InHand' BY DEF EndTick, InHand
<1>3. Pending' = Pending /\ LiveBlocks' = LiveBlocks
  BY <1>2 DEF Pending, Queued, LiveBlocks, Live
<1>4. Lineage' BY DEF IInv, Lineage
<1>5. Counting' BY <1>3 DEF IInv, Counting, Rewound
<1>6. \A it \in Pending : it.id \in Ids /\ it.epoch \in Nat /\ (Current(it)' <=> Current(it))
  BY PendingTyped DEF IInv, Current
<1>7. CASE dirty
  <2>1. /\ view' = [epoch |-> view.epoch + 1, dead |-> dead]
        /\ oldViews' = oldViews \cup {view.epoch} /\ dirty' = FALSE
    BY <1>7 DEF EndTick, Publish
  <2>2. /\ view' \in View /\ view'.epoch = view.epoch + 1 /\ view'.dead = dead
        /\ view'.epoch \in Nat /\ oldViews' \subseteq Nat
    <3>1. view' \in View BY <1>1, <2>1 DEF View
    <3>2. view'.epoch = view.epoch + 1 /\ view'.dead = dead BY <2>1
    <3>3. oldViews' \subseteq Nat BY <1>1, <2>1
    <3>4. QED BY <1>1, <3>1, <3>2, <3>3
  <2>3. \A h \in Holders : hold[h].epoch \in Int BY <1>1 DEF View
  <2>4. Directory' BY <1>1, <2>1, <2>2, <2>3 DEF IInv, Directory
  <2>5. Retiring'
    <3>1. \A it \in Pending : it.epoch < view.epoch + 1 BY <1>1, <1>6 DEF IInv, Retiring
    <3>2. \A it \in Pending : Current(it) => dead[it.id] = it.gen
      BY <1>6 DEF IInv, Retiring, Directory
    <3>3. QED BY <1>1, <1>2, <1>3, <1>6, <2>2, <3>1, <3>2 DEF IInv, Retiring, Shows
  <2>6. Backing'
    <3>1. \A it \in Pending : Current(it)' => \A t \in Tiers \ it.done : store'[t][it.id] = it.gen
      BY <1>6 DEF IInv, Backing
    <3>2. ASSUME NEW i \in Ids, dead[i] = gen[i], Hidden(i) PROVE Hidden(i)' BY <2>2, <3>2 DEF Hidden
    <3>3. ASSUME NEW i \in Ids, Gone(i) PROVE Gone(i)' BY <1>3, <3>3 DEF Gone
    <3>4. QED BY <1>3, <3>1, <3>2, <3>3 DEF IInv, Backing
  <2>7. QED BY <1>2, <1>4, <1>5, <2>2, <2>4, <2>5, <2>6
<1>8. CASE ~dirty
  <2>1. UNCHANGED <<view, oldViews, dirty>> BY <1>8 DEF EndTick
  <2>2. Directory' BY <2>1 DEF IInv, Directory
  <2>3. Retiring' BY <1>2, <1>3, <1>6, <1>8, <2>1 DEF IInv, Retiring, Shows
  <2>4. Backing'
    <3>1. \A i \in Ids : Hidden(i) => Hidden(i)' BY <2>1 DEF Hidden
    <3>2. QED BY <1>3, <3>1, BackingStays DEF IInv
  <2>5. QED BY <1>1, <1>2, <1>4, <1>5, <2>1, <2>2, <2>3, <2>4
<1>9. QED BY <1>7, <1>8

\* The end of the scan and of the pick loop.
LEMMA ScanEndKeeps == ASSUME IInv, ScanEnd PROVE IInv'
<1>1. /\ wpc = "scan" /\ ~InHand
      /\ UNCHANGED <<gen, flags, lastUse, count, step, lease, fg, hold, events, hist, live, dead, retired,
                     item, shadow, ready, touches, store, mail, activeStep>>
  BY DEF ScanEnd, InHand, entries, request, history
<1>2. EntryTypes' BY <1>1 DEF IInv, Types, EntryTypes
<1>3. CASE EndTick /\ UNCHANGED <<cursor, limit, left>>
  <2>1. /\ Lineage' /\ Directory' /\ Retiring' /\ Backing' /\ Counting'
        /\ view' \in View /\ view'.epoch \in Nat /\ oldViews' \subseteq Nat /\ wpc' = "idle" /\ ~InHand'
    BY <1>1, <1>3, EndTickKeeps
  <2>2. WorkerTypes' BY <1>1, <1>3, <2>1 DEF IInv, Types, WorkerTypes
  <2>3. QED BY <1>2, <2>1, <2>2 DEF IInv, Types
<1>4. CASE /\ cursor' = 0 /\ limit' = count /\ left' = BatchBlocks /\ wpc' = "pick"
           /\ UNCHANGED <<view, oldViews, dirty>>
  <2>1. ~InHand' /\ Pending' = Pending BY <1>1, <1>4 DEF Pending, Queued, InHand
  <2>2. WorkerTypes'
    <3>1. count \in 0 .. Capacity /\ 0 <= count /\ left' \in Int
      BY <1>4, GcConfig DEF IInv, Types, EntryTypes
    <3>2. QED BY <1>1, <1>4, <2>1, <3>1 DEF IInv, Types, WorkerTypes
  <2>3. \A j, k \in DOMAIN retired : j # k => ~Same(retired[j], retired[k]) BY DEF IInv, Retiring
  <2>4. Lineage' /\ Directory' /\ Retiring' /\ Backing' /\ Counting' BY <1>1, <1>4, <2>1, <2>3, QueueKeeps
  <2>5. QED BY <1>2, <2>2, <2>4 DEF IInv, Types
<1>5. QED BY <1>3, <1>4 DEF ScanEnd

LEMMA PickEndKeeps == ASSUME IInv, PickEnd PROVE IInv'
<1>1. /\ wpc = "pick" /\ ~InHand /\ ready' = {} /\ EndTick
      /\ UNCHANGED <<gen, flags, lastUse, count, step, lease, fg, hold, events, hist, live, dead, retired,
                     item, left, shadow, cursor, limit, touches, store, mail, activeStep>>
  BY DEF PickEnd, InHand, entries, request, history, queue
<1>2. EntryTypes' BY <1>1 DEF IInv, Types, EntryTypes
<1>3. /\ Lineage' /\ Directory' /\ Retiring' /\ Backing' /\ Counting'
      /\ view' \in View /\ view'.epoch \in Nat /\ oldViews' \subseteq Nat /\ wpc' = "idle" /\ ~InHand'
  BY <1>1, EndTickKeeps
<1>4. WorkerTypes' BY <1>1, <1>3 DEF IInv, Types, WorkerTypes
<1>5. QED BY <1>2, <1>3, <1>4 DEF IInv, Types

----------------------------------------------------------------------------
LEMMA GcStep == ASSUME IInv, [Next]_vars PROVE IInv'
<1>1. CASE Foreground
  BY <1>1, RegisterBeginKeeps, RegisterEndKeeps, PinEndKeeps, StageOutKeeps, StageInKeeps, ForgetTailKeeps,
     ViewStepsKeep, UnpinKeeps, PinBeginKeeps, SubmitScoresKeeps
  DEF Foreground
<1>2. CASE Worker
  BY <1>2, TickStartKeeps, CheckItemKeeps, CheckReadersKeeps, RecheckKeeps, ReleaseKeeps, ScanStartKeeps,
     ScanBlockKeeps, ScanEndKeeps, PickKeeps, PickEndKeeps
  DEF Worker
<1>3. CASE UNCHANGED vars
  <2>1. UNCHANGED <<gen, flags, lastUse, count, step, lease, fg, hold, events, touches, store, mail, worker>>
    BY <1>3 DEF vars, entries, request
  <2>2. EntryTypes' BY <2>1 DEF IInv, Types, EntryTypes
  <2>3. WorkerTypes' BY <2>1, WorkerStays DEF IInv, Types, WorkerTypes, InHand
  <2>4. Lineage' /\ Directory' BY <2>1, WorkerStays DEF IInv, Lineage, Directory
  <2>5. Retiring' BY <2>1, WorkerStays DEF IInv, Retiring, Shows, Current, InHand
  <2>6. Backing' /\ Counting'
    <3>1. \A i \in Ids : Hidden(i) => Hidden(i)' BY <2>1, WorkerStays DEF Hidden
    <3>2. QED BY <2>1, <3>1, WorkerStays, BackingStays DEF IInv, Counting, Rewound
  <2>7. QED BY <2>2, <2>3, <2>4, <2>5, <2>6 DEF IInv, Types
<1>4. QED BY <1>1, <1>2, <1>3 DEF Next

\* Every reachable state satisfies the invariant, whatever the executor does between the
\* steps of a tick.
THEOREM HistoryInvariant == Spec => []IInv
<1>1. QED BY GcInit, GcStep, PTL DEF Spec

\* The published directory shows exactly what is retired, once it is not dirty.
THEOREM TombstoneJustifiedAlways == Spec => []TombstoneJustified
<1>1. IInv => TombstoneJustified BY DEF IInv, Directory, TombstoneJustified
<1>2. QED BY <1>1, HistoryInvariant, PTL

\* live_count_ is exact until a rewind.
THEOREM LiveCountExactAlways == Spec => []LiveCountExact
<1>1. IInv => LiveCountExact BY DEF IInv, Counting, LiveCountExact, LiveBlocks, Live
<1>2. QED BY <1>1, HistoryInvariant, PTL

\* Whichever allocators each release attempt finds busy, what a lease or a held directory
\* reaches has its storage: a block that lacks some was cancelled in the middle of its
\* release and has the rest, and one that lacks all of it never comes back.
THEOREM ReclaimedIsHiddenAlways == Spec => []ReclaimedIsHidden
<1>1. ASSUME IInv PROVE ReclaimedIsHidden
  <2> SUFFICES ASSUME NEW id \in Ids, id < count, flags[id] = "cold", Reachable(id),
                      NEW t \in Tiers, store[t][id] # gen[id]
               PROVE  dead[id] # gen[id] /\ \E u \in Tiers : store[u][id] = gen[id]
    BY DEF ReclaimedIsHidden
  <2>1. ~Hidden(id)
    <3>1. SUFFICES ASSUME Hidden(id) PROVE FALSE OBVIOUS
    <3>2. gen[id] > 0 /\ gen[id] \in Nat BY <1>1 DEF IInv, Types, EntryTypes, Lineage
    <3>3. Pins(id) = 0 BY <1>1, <3>1, PinsAre DEF IInv, Hidden
    <3>4. QED BY <3>1, <3>2, <3>3 DEF Hidden, Reachable, IsLive
  <2>2. dead[id] # gen[id] BY <1>1, <2>1 DEF IInv, Backing
  <2>3. QED BY <1>1, <2>2 DEF IInv, Backing, Gone
<1>2. QED BY <1>1, HistoryInvariant, PTL

\* A release frees the lineage it was prepared for, however late it comes.
THEOREM ExactReleaseAlways == Spec => ExactRelease
<1>1. ASSUME IInv, [Next]_vars
      PROVE  [\A t \in Tiers, id \in Ids :
                (wpc = "release" /\ wpc' = "check" /\ store'[t][id] # store[t][id])
                  => store[t][id] = item.gen]_vars
  <2> SUFFICES ASSUME Next, wpc = "release", wpc' = "check",
                      NEW t \in Tiers, NEW id \in Ids, store'[t][id] # store[t][id]
               PROVE  store[t][id] = item.gen
    BY <1>1
  <2>1. PICK busy \in SUBSET Tiers : Release(busy)
    BY DEF Next, Foreground, Worker, RegisterBegin, RegisterEnd, PinEnd, StageOut, StageIn, ForgetTail,
           BeginStep, DropView, ShareView, Unpin, PinBegin, SubmitScores, TickStart, CheckItem, CheckReaders,
           Recheck, ScanStart, ScanBlock, ScanEnd, Pick, PickEnd, worker
  <2>2. /\ store[t] \in [Ids -> Nat] /\ item.id \in Ids /\ item.alloc[t] = item.gen
    BY <1>1, PendingTyped DEF IInv, Types, EntryTypes, InHand, Retiring
  <2>3. QED BY <2>1, <2>2 DEF Release, FreeExact
<1>2. QED BY <1>1, HistoryInvariant, PTL DEF Spec, ExactRelease

\* Until a rewind, the collector retires a block only while the registered blocks without
\* a tombstone are more than max_live_blocks: the count it compares is never above theirs.
THEOREM RetireUnderPressureAlways == Spec => RetireUnderPressure
<1> DEFINE Untombed == {i \in Ids : flags[i] # "none" /\ dead[i] # gen[i]}
<1>1. ASSUME IInv, [Next]_vars
      PROVE  [~Rewound /\ wpc = "pick" /\ Len(retired') > Len(retired)
                => Cardinality(Untombed) > MaxLive]_vars
  <2> SUFFICES ASSUME Next, ~Rewound, wpc = "pick", Len(retired') > Len(retired)
               PROVE  Cardinality(Untombed) > MaxLive
    BY <1>1
  <2>1. live > MaxLive
    <3>1. retired' # retired /\ Len(retired) \in Nat BY <1>1 DEF IInv, Types, WorkerTypes
    <3>2. PICK id \in Ids : Pick(id)
      BY <3>1 DEF Next, Foreground, Worker, RegisterBegin, RegisterEnd, PinEnd, StageOut, StageIn,
           ForgetTail, BeginStep, DropView, ShareView, Unpin, PinBegin, SubmitScores, TickStart,
           CheckItem, CheckReaders, Recheck, Release, ScanStart, ScanBlock, ScanEnd, PickEnd, worker,
           queue
    <3>3. QED BY <3>2 DEF Pick, Pressure
  <2>2. live = Cardinality(LiveBlocks) BY <1>1 DEF IInv, Counting
  <2>3. LiveBlocks \subseteq Untombed
    <3> SUFFICES ASSUME NEW i \in Ids, Live(i) PROVE flags[i] # "none" /\ dead[i] # gen[i]
      BY DEF LiveBlocks
    <3>1. i < count /\ gen[i] = 1 BY <1>1 DEF IInv, Counting, Live
    <3>2. flags[i] # "none" BY <1>1, <3>1 DEF IInv, Lineage
    <3>3. dead[i] = 0 BY <1>1 DEF IInv, Directory, Live
    <3>4. QED BY <3>1, <3>2, <3>3
  <2>4. IsFiniteSet(Ids) BY IdsFinite
  <2>5. IsFiniteSet(Untombed) BY <2>4, FS_Subset
  <2>6. Cardinality(LiveBlocks) <= Cardinality(Untombed) BY <2>3, <2>5, FS_Subset
  <2>7. Cardinality(LiveBlocks) \in Nat /\ Cardinality(Untombed) \in Nat
    BY <2>3, <2>5, FS_Subset, FS_CardinalityType
  <2>8. QED BY <2>1, <2>2, <2>6, <2>7, GcConfig
<1>2. QED BY <1>1, HistoryInvariant, PTL DEF Spec, RetireUnderPressure
=============================================================================
