----------------------- MODULE KvMemRepositoryGcProofs -----------------------
(***************************************************************************)
(* For any number of slots, readers, ticks and calls, without the bounds   *)
(* that TLC needs: a snapshot the worker accepts is not torn, a block is   *)
(* given up only on a decision that is still right, nobody's lease is on a *)
(* block the worker withdrew, the counters of the worker are exact and it  *)
(* never condemns a block above the high watermark.                        *)
(*                                                                         *)
(* The inductive invariant says who holds the worker's and the             *)
(* foreground's lease (Holding), what the version of a slot tells a reader *)
(* (Versions), when the metadata are up to date with the store (Synced),   *)
(* what a withdrawal guarantees (Withdrawing) and what the history marks   *)
(* mean (Marks).                                                           *)
(***************************************************************************)
EXTENDS KvMemRepositoryGc, FiniteSetTheorems, TLAPS

Metadata == [version : Nat, generation : Nat, flags : {"hot", "cold"}]
Candidate == [slot : Slots, generation : Nat, version : Nat, level : {2, 3}]
History == [generation : Nat, version : Nat, observed : BOOLEAN, step : Nat, end : Nat,
            pending : BOOLEAN, shadow : BOOLEAN]
KvMemBlock == [generation : Nat, valid : BOOLEAN, gpu : BOOLEAN, backed : BOOLEAN, position : Int]
Phases == {"Free", "Writing", "Live", "Retired", "Releasing", "Cancelled"}

Types ==
  /\ phase \in [Slots -> Phases] /\ block \in [Slots -> Nat] /\ issued \in Nat
  /\ readers \in [Slots -> SUBSET Leases]
  /\ meta \in [Slots -> Metadata] /\ snap \in Metadata
  /\ store \in [Slots -> KvMemBlock]
  /\ begin \in [Slots -> Nat] /\ total \in Nat /\ history_end \in Nat /\ rposition \in Nat
  /\ step \in Nat /\ now \in Nat
  /\ aslot \in Slots /\ fslot \in Slots /\ slot \in Slots /\ cursor \in Slots
  /\ todo \in SUBSET Slots
  /\ fpc \in ForegroundPc /\ wpc \in WorkerPc /\ use \in {"assess", "verify", "recheck"}
  /\ fpc \in {"sync", "capture", "discard", "drop"} => todo # {}
  /\ cands \in SUBSET Candidate /\ cand \in Candidate
  /\ hist \in [Slots -> History] /\ pending_count \in Int /\ shadow_live \in Int

\* Where the worker reads a snapshot, and where it uses one it accepted.
Taking == {"version", "generation", "flags", "check"}
Using == {"assess", "verify", "retire", "recheck"}

\* Where the worker and the foreground hold their leases.
Leased == Taking \cup Using \cup {"rescue", "unpin"}
Publishing == {"generation", "flags", "close"}
Updating == Publishing \cup {"pinned", "unpin", "evict", "stage"}

Holding ==
  /\ \A s \in Slots : Worker \in readers[s] <=> s = slot /\ wpc \in Leased
  /\ \A s \in Slots : Foreground \in readers[s] <=> s = fslot /\ fpc \in Updating
  /\ \A s \in Slots : phase[s] \in {"Free", "Releasing"} => readers[s] = {}

\* The version is odd while publish() writes; fields read under an even version are the
\* published ones for as long as the version stays.
Versions ==
  /\ \A s \in Slots : meta[s].version % 2 = (IF s = fslot /\ fpc \in Publishing THEN 1 ELSE 0)
  /\ wpc \in (Taking \cup Using) \ {"version"} =>
       snap.version % 2 = 0 /\ snap.version <= meta[slot].version
  /\ wpc \in {"flags", "check"} \cup Using /\ snap.version = meta[slot].version =>
       snap.generation = meta[slot].generation
  /\ wpc \in {"check"} \cup Using /\ snap.version = meta[slot].version =>
       snap.flags = meta[slot].flags

\* What is published about a block is what the foreground would publish now, except
\* under the foreground's lease.
Synced ==
  \A s \in Slots :
    /\ meta[s].generation <= store[s].generation
    /\ store[s].generation <= block[s] /\ block[s] <= issued
    /\ phase[s] \in {"Writing", "Cancelled"} => store[s].generation < block[s]
    /\ s = fslot /\ fpc \in {"flags", "close", "unpin"} => meta[s].generation = store[s].generation
    /\ s = fslot /\ fpc \in {"close", "unpin"} => meta[s].flags = Flags(s)
    /\ Installed(s) /\ meta[s].generation = store[s].generation /\ Foreground \notin readers[s] =>
         meta[s].flags = Flags(s)

\* The worker has withdrawn the block of its slot and can still bring it back.
Withdrawn == wpc \in {"recheck", "rescue"} \/ (wpc \in Taking /\ use = "recheck")

\* A withdrawn block that the store has not discarded is the worker's alone, and its
\* metadata do not change under the second look.
Withdrawing ==
  /\ LeasedStaysLive
  /\ DecisionCurrent
  /\ Withdrawn => phase[slot] = "Retired"
  /\ wpc \in Leased /\ Installed(slot) /\ phase[slot] = "Retired" => Withdrawn
  /\ Withdrawn /\ Installed(slot) /\ wpc \in (Taking \cup Using) \ {"version"} =>
       snap.version = meta[slot].version

\* The pick loop is at work on a candidate.
Deciding == wpc \in {"verify", "retire", "recheck"} \/ (wpc \in Taking /\ use \in {"verify", "recheck"})

Marks ==
  /\ PendingExact
  /\ \A s \in Slots : hist[s].generation <= block[s]
  /\ \A c \in cands : c.generation <= hist[c.slot].generation
  /\ Deciding => hist[slot].generation = block[slot]
  /\ Withdrawn => ~hist[slot].pending
  /\ wpc = "release" => Reclaimable(slot)
  /\ wpc = "callback" => phase[slot] = "Releasing" /\ hist[slot].pending
  /\ \A s \in Slots : Condemned(s) => hist[s].pending \/ (wpc = "release" /\ s = slot)

\* The watermark the pick loop looked at still holds.
Budget == Deciding => Ready + pending_count + shadow_live < ReadyHigh

IInv == Types /\ Holding /\ Versions /\ Synced /\ Withdrawing /\ Marks /\ Budget

-----------------------------------------------------------------------------
\* The worker's and the foreground's leases are nobody else's.
LEMMA LeasesApart ==
  /\ Worker \in Leases /\ Foreground \in Leases /\ Worker # Foreground
  /\ \A s \in Slots : /\ {Resident(s), Captured(s)} \subseteq Leases
                      /\ Resident(s) \notin {Worker, Foreground}
                      /\ Captured(s) \notin {Worker, Foreground}
  /\ \A r \in Readers : r \in Leases /\ r \notin {Worker, Foreground}
  BY ReadersAssumption DEF Leases, OwnLeases, Worker, Foreground, Resident, Captured

\* There is a slot, and finitely many.
LEMMA SlotsFinite ==
  0 \in Slots /\ Slots \subseteq Nat /\ \A T \in SUBSET Slots : IsFiniteSet(T) /\ Cardinality(T) \in Nat
<1>1. IsFiniteSet(Slots) BY ConfigAssumption, FS_Interval DEF Slots
<1>2. \A T \in SUBSET Slots : IsFiniteSet(T) /\ Cardinality(T) \in Nat
  BY <1>1, FS_Subset, FS_CardinalityType
<1>3. 0 \in Slots /\ Slots \subseteq Nat BY ConfigAssumption DEF Slots
<1>4. QED BY <1>2, <1>3

\* A version is even or odd, and the next one is the other.
LEMMA Parity == \A n \in Nat : n % 2 \in {0, 1} /\ (n + 1) % 2 = 1 - (n % 2)
  OBVIOUS

\* The invariant holds before the first call.
LEMMA GcInit == Init => IInv
<1> SUFFICES ASSUME Init PROVE IInv OBVIOUS
<1> USE SlotsFinite DEF Init, Repository!Init, NoSnapshot
<1>1. Types
  BY DEF Types, Phases, Metadata, KvMemBlock, Nowhere, ForegroundPc, WorkerPc, Candidate,
         NoCandidate, History, NoHistory
<1>2. Holding BY DEF Holding, Taking, Using, Leased, Publishing, Updating
<1>3. Versions BY DEF Versions, Taking, Using, Publishing
<1>4. Synced BY DEF Synced, Installed
<1>5. Withdrawing
  BY DEF Withdrawing, LeasedStaysLive, DecisionCurrent, Condemned, Installed, Withdrawn,
         Taking, Using, Leased
<1>6. Marks
  <2>1. {s \in Slots : hist[s].pending} = {} /\ {s \in Slots : hist[s].shadow} = {} BY DEF NoHistory
  <2>2. PendingExact BY <2>1, FS_EmptySet DEF PendingExact, NoHistory
  <2>3. QED
    BY <2>2 DEF Marks, Withdrawn, Deciding, Taking, Condemned, NoHistory
<1>7. Budget BY DEF Budget, Deciding, Taking
<1>8. QED BY <1>1, <1>2, <1>3, <1>4, <1>5, <1>6, <1>7 DEF IInv

-----------------------------------------------------------------------------
\* The number of ready slots, and how it can move without a release.
LEMMA ReadyFalls ==
  ASSUME IInv, \A s \in Slots : phase'[s] = "Free" => phase[s] = "Free"
  PROVE  Ready \in Nat /\ Ready' \in Nat /\ Ready' <= Ready
<1> DEFINE F == {s \in Slots : phase[s] = "Free"}
           G == {s \in Slots : phase'[s] = "Free"}
<1>1. G \subseteq F /\ F \in SUBSET Slots /\ G \in SUBSET Slots OBVIOUS
<1>2. Ready = Cardinality(F) /\ Ready' = Cardinality(G) BY DEF Ready, Slots
<1> HIDE DEF F, G
<1>3. IsFiniteSet(F) /\ Cardinality(F) \in Nat /\ Cardinality(G) \in Nat BY <1>1, SlotsFinite
<1>4. Cardinality(G) <= Cardinality(F) BY <1>1, <1>3, FS_Subset
<1>5. QED BY <1>2, <1>3, <1>4

\* The budget of a candidate stays while no slot becomes free and no mark is added.
LEMMA BudgetStays ==
  ASSUME IInv, Deciding, UNCHANGED <<pending_count, shadow_live>>,
         \A s \in Slots : phase'[s] = "Free" => phase[s] = "Free"
  PROVE  Budget'
<1>1. Ready \in Nat /\ Ready' \in Nat /\ Ready' <= Ready BY ReadyFalls
<1>2. Ready + pending_count + shadow_live < ReadyHigh BY DEF IInv, Budget
<1>3. pending_count \in Int /\ shadow_live \in Int BY DEF IInv, Types
<1>4. ReadyHigh \in Nat BY ConfigAssumption
<1>5. ASSUME NEW a \in Nat, NEW b \in Nat, NEW p \in Int, NEW q \in Int, NEW n \in Nat,
             b <= a, a + p + q < n
      PROVE  b + p + q < n
  BY <1>5
<1> HIDE DEF Ready
<1>6. Ready' + pending_count + shadow_live < ReadyHigh BY <1>1, <1>2, <1>3, <1>4, <1>5
<1>7. QED BY <1>6 DEF Budget

\* A step of the foreground or of a reader leaves the marks alone: it withdraws nothing
\* the worker counts on, frees no slot and condemns no block.
LEMMA MarksStay ==
  ASSUME IInv, UNCHANGED workerVars,
         \A s \in Slots :
           /\ phase'[s] = "Free" => phase[s] = "Free"
           /\ Reclaimable(s) => phase'[s] = phase[s]
           /\ phase[s] # "Free" => block'[s] = block[s]
           /\ block'[s] \in Nat /\ block[s] <= block'[s]
           /\ Condemned(s)' => Condemned(s)
  PROVE  Marks' /\ Budget'
<1> USE DEF workerVars, controlVars, pickVars, historyVars
<1>1. Types /\ Holding /\ Marks /\ Budget BY DEF IInv
<1>2. PendingExact' BY <1>1 DEF Marks, PendingExact, Reclaimable, Slots
<1>3. Deciding \/ Withdrawn => phase[slot] # "Free" /\ slot \in Slots
  BY <1>1 DEF Deciding, Withdrawn, Holding, Leased, Taking, Using, Types
<1>4. \A s \in Slots : hist[s].generation \in Nat /\ block[s] \in Nat BY <1>1 DEF Types, History
<1>5. Marks'
  BY <1>1, <1>2, <1>3, <1>4 DEF Types, Marks, Deciding, Withdrawn, Reclaimable
<1>6. Budget' BY BudgetStays DEF Budget, Deciding
<1>7. QED BY <1>5, <1>6

\* A step that publishes nothing, changes no flag and neither takes nor drops the
\* worker's or the foreground's lease.
LEMMA BystanderKeeps ==
  ASSUME IInv, Types', UNCHANGED <<phase, block, issued, meta, workerVars>>,
         \A s \in Slots :
           /\ store'[s].generation = store[s].generation /\ store'[s].valid = store[s].valid
           /\ store'[s].gpu = store[s].gpu /\ store'[s].backed = store[s].backed
           /\ phase[s] # "Live" => readers'[s] \subseteq readers[s]
           /\ Worker \in readers'[s] <=> Worker \in readers[s]
           /\ Foreground \in readers'[s] <=> Foreground \in readers[s],
         \/ UNCHANGED <<fpc, fslot>>
         \/ fpc \notin Updating /\ fpc' \notin Updating
         \/ fpc \in {"evict", "stage"} /\ fpc' = "pinned" /\ fslot' = fslot
  PROVE  IInv'
<1> USE DEF workerVars, controlVars
<1>1. Types /\ Holding /\ Versions /\ Synced /\ Withdrawing BY DEF IInv
<1>2. \A s \in Slots : (Installed(s)' <=> Installed(s)) /\ Flags(s)' = Flags(s)
  BY DEF Installed, Flags
<1>3. Holding' BY <1>1 DEF Types, Holding, Updating, Publishing
<1>4. Versions' BY <1>1 DEF Types, Versions, Updating, Publishing
<1>5. Synced'
  <2>1. fpc' \in {"flags", "close", "unpin"} => fpc' = fpc /\ fslot' = fslot BY DEF Updating, Publishing
  <2>2. QED BY <1>1, <1>2, <2>1 DEF Synced
<1>6. Withdrawing'
  BY <1>1, <1>2 DEF Types, Withdrawing, LeasedStaysLive, DecisionCurrent, Condemned, Withdrawn
<1>7. Marks' /\ Budget'
  <2>1. \A s \in Slots : Condemned(s)' => Condemned(s) BY <1>2 DEF Condemned
  <2>2. \A s \in Slots : block[s] \in Nat BY <1>1 DEF Types
  <2>3. QED BY <2>1, <2>2, MarksStay
<1>8. QED BY <1>3, <1>4, <1>5, <1>6, <1>7 DEF IInv

-----------------------------------------------------------------------------
\* A call that goes on has a next slot.
LEMMA LeastIs == ASSUME NEW T \in SUBSET Slots, T # {} PROVE Least(T) \in T
<1> DEFINE R == OpToRel(<, Nat)
<1>1. T \in SUBSET Nat BY SlotsFinite
<1>2. \A m, n \in Nat : n < m => <<n, m>> \in R BY DEF OpToRel
<1>3. IsWellFoundedOn(R, Nat) BY NatLessThanWellFounded, Zenon
<1> HIDE DEF R
<1>4. PICK m \in T : \A n \in T : <<n, m>> \notin R BY <1>1, <1>3, WFMin
<1>5. \A n \in T : ~(n < m) BY <1>1, <1>2, <1>4
<1>6. \A n \in T : m <= n BY <1>1, <1>5
<1>7. QED BY <1>6 DEF Least

\* Steps of the foreground that touch neither the directory nor the metadata.
LEMMA CallsKeep ==
  ASSUME IInv,
         \/ StoreEnd \/ SyncSkip \/ BeginStep \/ SubmitScores \/ StoreSubmitted
         \/ CommitRewind \/ CutHistory \/ AbandonRewind
         \/ \E p \in RewindTo : PrepareRewind(p)
         \/ \E s \in Slots : CaptureHole(s)
  PROVE  IInv'
<1>1. Types BY DEF IInv
<1> USE DEF Types, repositoryVars, signalVars, storeVars, preparedVars, callVars, workerVars,
        controlVars, tickVars, pickVars, historyVars, Idle, CapturedSlots, ForegroundPc, Updating,
        Publishing
<1>2. CASE StoreEnd
  <2>1. Types' BY <1>1, <1>2 DEF StoreEnd
  <2>2. QED BY <1>2, <2>1, BystanderKeeps DEF StoreEnd
<1>3. CASE SyncSkip
  <2>1. Types' BY <1>1, <1>3 DEF SyncSkip, AfterSync
  <2>2. QED BY <1>3, <2>1, BystanderKeeps DEF SyncSkip, AfterSync
<1>4. CASE BeginStep
  <2>1. Types' BY <1>1, <1>4 DEF BeginStep, AfterSync
  <2>2. QED BY <1>4, <2>1, BystanderKeeps DEF BeginStep, AfterSync
<1>5. CASE SubmitScores
  <2>1. Types' BY <1>1, <1>5 DEF SubmitScores
  <2>2. QED BY <1>5, <2>1, BystanderKeeps DEF SubmitScores
<1>6. CASE StoreSubmitted
  <2>1. Types' BY <1>1, <1>6 DEF StoreSubmitted
  <2>2. QED BY <1>6, <2>1, BystanderKeeps DEF StoreSubmitted
<1>7. CASE CommitRewind
  <2>1. Types' BY <1>1, <1>7 DEF CommitRewind
  <2>2. QED BY <1>7, <2>1, BystanderKeeps DEF CommitRewind
<1>8. CASE CutHistory
  <2>0. store' \in [Slots -> KvMemBlock]
    <3>1. \A v \in KvMemBlock : [v EXCEPT !.position = Nowhere] \in KvMemBlock BY DEF Nowhere, KvMemBlock
    <3>2. QED BY <1>1, <1>8, <3>1 DEF CutHistory
  <2>1. Types' BY <1>1, <1>8, <2>0 DEF CutHistory
  <2>2. \A s \in Slots :
          /\ store'[s].generation = store[s].generation /\ store'[s].valid = store[s].valid
          /\ store'[s].gpu = store[s].gpu /\ store'[s].backed = store[s].backed
    BY <1>1, <1>8 DEF CutHistory, KvMemBlock
  <2>3. QED BY <1>8, <2>1, <2>2, BystanderKeeps DEF CutHistory
<1>9. CASE AbandonRewind
  <2>1. Types' BY <1>1, <1>9 DEF AbandonRewind
  <2>2. QED BY <1>9, <2>1, BystanderKeeps DEF AbandonRewind
<1>10. ASSUME NEW p \in RewindTo, PrepareRewind(p) PROVE IInv'
  <2>1. Types' BY <1>1, <1>10, ConfigAssumption DEF PrepareRewind
  <2>2. QED BY <1>10, <2>1, BystanderKeeps DEF PrepareRewind
<1>11. ASSUME NEW s \in Slots, CaptureHole(s) PROVE IInv'
  <2>1. Types' BY <1>1, <1>11 DEF CaptureHole, Captures
  <2>2. QED BY <1>11, <2>1, BystanderKeeps DEF CaptureHole, Captures
<1>12. QED BY <1>2, <1>3, <1>4, <1>5, <1>6, <1>7, <1>8, <1>9, <1>10, <1>11

\* Steps that take or drop a resident, a captured or a reader's lease.
LEMMA OtherLeasesKeep ==
  ASSUME IInv,
         \/ DropReservation \/ DropResident \/ TakeResident \/ DiscardResident \/ DropCaptured
         \/ \E s \in Slots : Capture(s)
         \/ ReaderNext
  PROVE  IInv'
<1>1. Types BY DEF IInv
<1> USE LeasesApart
    DEF Types, signalVars, storeVars, preparedVars, callVars, foregroundVars, workerVars,
        controlVars, tickVars, pickVars, historyVars, ForegroundPc, Updating, Publishing,
        Repository!Pin, Repository!Leave
<1>2. CASE DropReservation
  <2>1. Types' BY <1>1, <1>2 DEF DropReservation
  <2>2. QED BY <1>1, <1>2, <2>1, BystanderKeeps DEF DropReservation
<1>3. CASE DropResident
  <2>1. Types' BY <1>1, <1>3 DEF DropResident
  <2>2. QED BY <1>1, <1>3, <2>1, BystanderKeeps DEF DropResident
<1>4. CASE TakeResident
  <2>1. Types' BY <1>1, <1>4 DEF TakeResident
  <2>2. QED BY <1>1, <1>4, <2>1, BystanderKeeps DEF TakeResident
<1>5. CASE DiscardResident
  <2>1. Types' BY <1>1, <1>5 DEF DiscardResident
  <2>2. QED BY <1>1, <1>5, <2>1, BystanderKeeps DEF DiscardResident
<1>6. CASE DropCaptured
  <2> DEFINE s == Least(todo)
  <2>1. s \in Slots /\ s \in todo BY <1>1, <1>6, LeastIs DEF DropCaptured
  <2>2. /\ fpc = "drop" /\ Repository!Leave(s, Captured(s)) /\ todo' = todo \ {s}
        /\ fpc' = (IF todo' = {} THEN "idle" ELSE "drop")
        /\ UNCHANGED <<meta, signalVars, storeVars, preparedVars, fslot, used, workerVars>>
    BY <1>6 DEF DropCaptured
  <2> HIDE DEF s
  <2>3. Types' BY <1>1, <2>1, <2>2
  <2>4. QED BY <1>1, <2>1, <2>2, <2>3, BystanderKeeps
<1>7. ASSUME NEW s \in Slots, Capture(s) PROVE IInv'
  <2>1. Types' BY <1>1, <1>7 DEF Capture, Captures
  <2>2. QED BY <1>1, <1>7, <2>1, BystanderKeeps DEF Capture, Captures
<1>8. ASSUME NEW r \in Readers, NEW s \in Slots, ReaderPin(r, s) PROVE IInv'
  <2>1. Types' BY <1>1, <1>8 DEF ReaderPin
  <2>2. QED BY <1>1, <1>8, <2>1, BystanderKeeps DEF ReaderPin
<1>9. ASSUME NEW r \in Readers, NEW s \in Slots, ReaderDrop(r, s) PROVE IInv'
  <2>1. Types' BY <1>1, <1>9 DEF ReaderDrop
  <2>2. QED BY <1>1, <1>9, <2>1, BystanderKeeps DEF ReaderDrop
<1>10. QED BY <1>2, <1>3, <1>4, <1>5, <1>6, <1>7, <1>8, <1>9 DEF ReaderNext

-----------------------------------------------------------------------------
\* The next version of the metadata in hand.
LEMMA NextVersion ==
  ASSUME Types, meta' = [meta EXCEPT ![fslot].version = @ + 1]
  PROVE  /\ meta' \in [Slots -> Metadata]
         /\ \A s \in Slots : s # fslot => meta'[s] = meta[s]
         /\ meta'[fslot].version = meta[fslot].version + 1
         /\ meta'[fslot].generation = meta[fslot].generation
         /\ meta'[fslot].flags = meta[fslot].flags
<1>1. meta \in [Slots -> Metadata] /\ fslot \in Slots BY DEF Types
<1>2. meta[fslot] \in Metadata BY <1>1
<1>3. meta[fslot].version + 1 \in Nat BY <1>2 DEF Metadata
<1>4. [meta[fslot] EXCEPT !.version = @ + 1] \in Metadata BY <1>2, <1>3 DEF Metadata
<1>5. QED BY <1>1, <1>2, <1>4 DEF Metadata

\* A seqlock: a field changes only under an odd version, and both ends of a publication
\* leave the version of every snapshot behind.
LEMMA VersionsKept ==
  ASSUME IInv, meta' \in [Slots -> Metadata], \A s \in Slots : s # fslot => meta'[s] = meta[s],
         UNCHANGED <<fslot, wpc, slot, snap>>,
         \/ /\ fpc \in Publishing /\ fpc' \in Publishing
            /\ meta'[fslot].version = meta[fslot].version
         \/ /\ (fpc \in Publishing) # (fpc' \in Publishing)
            /\ meta'[fslot].version = meta[fslot].version + 1
  PROVE  Versions'
<1>1. Types /\ Versions BY DEF IInv
<1>2. \A s \in Slots : meta[s].version \in Nat /\ meta'[s].version \in Nat BY <1>1 DEF Types, Metadata
<1>3. fslot \in Slots /\ slot \in Slots /\ snap.version \in Nat BY <1>1 DEF Types, Metadata
<1>4. \A s \in Slots : meta'[s].version % 2 = (IF s = fslot /\ fpc' \in Publishing THEN 1 ELSE 0)
  BY <1>1, <1>2, <1>3, Parity DEF Versions
<1>5. meta[slot].version <= meta'[slot].version BY <1>2, <1>3
<1>6. ASSUME wpc \in (Taking \cup Using) \ {"version"}, snap.version = meta'[slot].version
      PROVE  slot # fslot
  <2>1. snap.version % 2 = 0 /\ snap.version <= meta[slot].version BY <1>1, <1>6 DEF Versions
  <2>2. CASE meta'[fslot].version = meta[fslot].version
    BY <1>1, <1>2, <1>3, <1>6, <2>1, <2>2 DEF Versions
  <2>3. CASE meta'[fslot].version = meta[fslot].version + 1 BY <1>2, <1>3, <1>6, <2>1, <2>3
  <2>4. QED BY <2>2, <2>3
<1>7. QED BY <1>1, <1>2, <1>3, <1>4, <1>5, <1>6 DEF Versions, Taking, Using

\* A reserved block is newer than anything installed or published.
LEMMA PrepareAppendKeeps == ASSUME IInv, NEW r \in Slots, PrepareAppend(r) PROVE IInv'
<1>1. Types /\ Holding /\ Versions /\ Synced /\ Withdrawing BY DEF IInv
<1> USE LeasesApart, Parity
    DEF Types, repositoryVars, signalVars, storeVars, preparedVars, callVars, workerVars, controlVars,
        tickVars, pickVars, historyVars, Updating, Publishing, PrepareAppend, Idle,
        Repository!Reserve, Repository!SetPhase
<1>2. Types' BY <1>1 DEF Phases, KvMemBlock, ForegroundPc
<1>3. Holding' BY <1>1 DEF Holding
<1>4. Versions' BY <1>1, <1>2 DEF Versions, Metadata
<1>5. Synced' BY <1>1, <1>2 DEF Synced, Holding, Installed, Flags, Metadata, KvMemBlock
<1>6. Withdrawing'
  BY <1>1, <1>2 DEF Withdrawing, LeasedStaysLive, DecisionCurrent, Condemned, Withdrawn, Holding,
                    Installed, Flags, Taking, Using, Leased
<1>7. Marks' /\ Budget'
  <2>1. \A s \in Slots : block[s] \in Nat /\ block'[s] \in Nat /\ block[s] <= block'[s]
    BY <1>1 DEF Synced
  <2>2. QED BY <1>1, <2>1, MarksStay
        DEF Withdrawing, DecisionCurrent, Condemned, Installed, Reclaimable, Holding
<1>8. QED BY <1>2, <1>3, <1>4, <1>5, <1>6, <1>7 DEF IInv

\* The metadata of a block just installed are about an older one.
LEMMA CommitAppendKeeps == ASSUME IInv, CommitAppend PROVE IInv'
<1>1. Types /\ Holding /\ Versions /\ Synced /\ Withdrawing BY DEF IInv
<1> USE LeasesApart, Parity
    DEF Types, repositoryVars, signalVars, storeVars, preparedVars, callVars, workerVars, controlVars,
        tickVars, pickVars, historyVars, Updating, Publishing, CommitAppend, Idle,
        Repository!Publish, Repository!SetPhase
<1>2. Types' BY <1>1 DEF Phases, KvMemBlock, ForegroundPc
<1>3. Holding' BY <1>1 DEF Holding
<1>4. Versions' BY <1>1, <1>2 DEF Versions, Metadata
<1>5. Synced' BY <1>1, <1>2 DEF Synced, Holding, Installed, Flags, Metadata, KvMemBlock
<1>6. Withdrawing'
  BY <1>1, <1>2 DEF Withdrawing, LeasedStaysLive, DecisionCurrent, Condemned, Withdrawn, Holding,
                    Installed, Flags, Taking, Using, Leased
<1>7. Marks' /\ Budget'
  BY <1>1, MarksStay
  DEF Withdrawing, DecisionCurrent, Condemned, Installed, Reclaimable, Holding
<1>8. QED BY <1>2, <1>3, <1>4, <1>5, <1>6, <1>7 DEF IInv

\* A cancelled reservation was never installed.
LEMMA CancelAppendKeeps == ASSUME IInv, CancelAppend PROVE IInv'
<1>1. Types /\ Holding /\ Versions /\ Synced /\ Withdrawing BY DEF IInv
<1> USE LeasesApart, Parity
    DEF Types, repositoryVars, signalVars, storeVars, preparedVars, callVars, workerVars, controlVars,
        tickVars, pickVars, historyVars, Updating, Publishing, CancelAppend, Idle,
        Repository!Abandon, Repository!SetPhase
<1>2. Types' BY <1>1 DEF Phases, KvMemBlock, ForegroundPc
<1>3. Holding' BY <1>1 DEF Holding
<1>4. Versions' BY <1>1, <1>2 DEF Versions, Metadata
<1>5. Synced' BY <1>1, <1>2 DEF Synced, Holding, Installed, Flags, Metadata, KvMemBlock
<1>6. Withdrawing'
  BY <1>1, <1>2 DEF Withdrawing, LeasedStaysLive, DecisionCurrent, Condemned, Withdrawn, Holding,
                    Installed, Flags, Taking, Using, Leased
<1>7. Marks' /\ Budget'
  BY <1>1, MarksStay
  DEF Withdrawing, DecisionCurrent, Condemned, Installed, Reclaimable, Holding
<1>8. QED BY <1>2, <1>3, <1>4, <1>5, <1>6, <1>7 DEF IInv

\* Nothing to publish: the metadata are up to date.
LEMMA PublishSameKeeps == ASSUME IInv, PublishSame PROVE IInv'
<1>1. Types /\ Holding /\ Versions /\ Synced /\ Withdrawing BY DEF IInv
<1> USE LeasesApart, Parity
    DEF Types, repositoryVars, signalVars, storeVars, preparedVars, callVars, workerVars, controlVars,
        tickVars, pickVars, historyVars, Updating, Publishing, PublishSame, Fresh
<1>2. Types' BY <1>1 DEF Phases, KvMemBlock, ForegroundPc
<1>3. Holding' BY <1>1 DEF Holding
<1>4. Versions' BY <1>1, <1>2 DEF Versions, Metadata
<1>5. Synced' BY <1>1, <1>2 DEF Synced, Holding, Installed, Flags, Metadata, KvMemBlock
<1>6. Withdrawing'
  BY <1>1, <1>2 DEF Withdrawing, LeasedStaysLive, DecisionCurrent, Condemned, Withdrawn, Holding,
                    Installed, Flags, Taking, Using, Leased
<1>7. Marks' /\ Budget'
  BY <1>1, MarksStay
  DEF Withdrawing, DecisionCurrent, Condemned, Installed, Reclaimable, Holding
<1>8. QED BY <1>2, <1>3, <1>4, <1>5, <1>6, <1>7 DEF IInv

\* The version becomes odd and leaves every snapshot behind.
LEMMA PublishOpenKeeps == ASSUME IInv, PublishOpen PROVE IInv'
<1>1. Types /\ Holding /\ Versions /\ Synced /\ Withdrawing BY DEF IInv
<1> USE LeasesApart, Parity
    DEF Types, repositoryVars, signalVars, storeVars, preparedVars, callVars, workerVars, controlVars,
        tickVars, pickVars, historyVars, Updating, Publishing, PublishOpen, Fresh
<1>0. /\ meta' \in [Slots -> Metadata]
      /\ \A s \in Slots : s # fslot => meta'[s] = meta[s]
      /\ meta'[fslot].version = meta[fslot].version + 1
      /\ meta'[fslot].generation = meta[fslot].generation
      /\ meta'[fslot].flags = meta[fslot].flags
  BY <1>1, NextVersion
<1>2. Types' BY <1>1, <1>0 DEF Phases, KvMemBlock, ForegroundPc
<1>3. Holding' BY <1>1 DEF Holding
<1>4. Versions' BY <1>0, VersionsKept
<1>5. Synced' 
  <2>1. \A s \in Slots : {store[s].generation, meta[s].generation, block[s], issued} \subseteq Nat
    BY <1>1 DEF Metadata, KvMemBlock
  <2>2. \A s \in Slots : Flags(s)' = Flags(s) /\ Installed(s)' = Installed(s) BY DEF Flags, Installed
  <2>3. QED BY <1>0, <1>1, <2>1, <2>2 DEF Synced, Holding
<1>6. Withdrawing'
  BY <1>1, <1>2 DEF Withdrawing, LeasedStaysLive, DecisionCurrent, Condemned, Withdrawn, Holding,
                    Installed, Flags, Taking, Using, Leased
<1>7. Marks' /\ Budget'
  BY <1>1, MarksStay
  DEF Withdrawing, DecisionCurrent, Condemned, Installed, Reclaimable, Holding
<1>8. QED BY <1>2, <1>3, <1>4, <1>5, <1>6, <1>7 DEF IInv

\* A field is written under an odd version, which no snapshot has.
LEMMA PublishGenerationKeeps == ASSUME IInv, PublishGeneration PROVE IInv'
<1>1. Types /\ Holding /\ Versions /\ Synced /\ Withdrawing BY DEF IInv
<1> USE LeasesApart, Parity
    DEF Types, repositoryVars, signalVars, storeVars, preparedVars, callVars, workerVars, controlVars,
        tickVars, pickVars, historyVars, Updating, Publishing, PublishGeneration
<1>0. /\ meta' \in [Slots -> Metadata]
      /\ \A s \in Slots : s # fslot => meta'[s] = meta[s]
      /\ meta'[fslot].version = meta[fslot].version
      /\ meta'[fslot].generation = store[fslot].generation
      /\ meta'[fslot].flags = meta[fslot].flags
  BY <1>1 DEF Metadata, KvMemBlock
<1>2. Types' BY <1>1, <1>0 DEF Phases, KvMemBlock, ForegroundPc
<1>3. Holding' BY <1>1 DEF Holding
<1>4. Versions' BY <1>0, VersionsKept
<1>5. Synced' 
  <2>1. \A s \in Slots : {store[s].generation, meta[s].generation, block[s], issued} \subseteq Nat
    BY <1>1 DEF Metadata, KvMemBlock
  <2>2. \A s \in Slots : Flags(s)' = Flags(s) /\ Installed(s)' = Installed(s) BY DEF Flags, Installed
  <2>3. QED BY <1>0, <1>1, <2>1, <2>2 DEF Synced, Holding
<1>6. Withdrawing'
  BY <1>1, <1>2 DEF Withdrawing, LeasedStaysLive, DecisionCurrent, Condemned, Withdrawn, Holding,
                    Installed, Flags, Taking, Using, Leased
<1>7. Marks' /\ Budget'
  BY <1>1, MarksStay
  DEF Withdrawing, DecisionCurrent, Condemned, Installed, Reclaimable, Holding
<1>8. QED BY <1>2, <1>3, <1>4, <1>5, <1>6, <1>7 DEF IInv

\* The flags follow.
LEMMA PublishFlagsKeeps == ASSUME IInv, PublishFlags PROVE IInv'
<1>1. Types /\ Holding /\ Versions /\ Synced /\ Withdrawing BY DEF IInv
<1> USE LeasesApart, Parity
    DEF Types, repositoryVars, signalVars, storeVars, preparedVars, callVars, workerVars, controlVars,
        tickVars, pickVars, historyVars, Updating, Publishing, PublishFlags
<1>0. /\ meta' \in [Slots -> Metadata]
      /\ \A s \in Slots : s # fslot => meta'[s] = meta[s]
      /\ meta'[fslot].version = meta[fslot].version
      /\ meta'[fslot].generation = meta[fslot].generation
      /\ meta'[fslot].flags = Flags(fslot)
  BY <1>1 DEF Metadata, Flags
<1>2. Types' BY <1>1, <1>0 DEF Phases, KvMemBlock, ForegroundPc
<1>3. Holding' BY <1>1 DEF Holding
<1>4. Versions' BY <1>0, VersionsKept
<1>5. Synced' 
  <2>1. \A s \in Slots : {store[s].generation, meta[s].generation, block[s], issued} \subseteq Nat
    BY <1>1 DEF Metadata, KvMemBlock
  <2>2. \A s \in Slots : Flags(s)' = Flags(s) /\ Installed(s)' = Installed(s) BY DEF Flags, Installed
  <2>3. QED BY <1>0, <1>1, <2>1, <2>2 DEF Synced, Holding
<1>6. Withdrawing'
  BY <1>1, <1>2 DEF Withdrawing, LeasedStaysLive, DecisionCurrent, Condemned, Withdrawn, Holding,
                    Installed, Flags, Taking, Using, Leased
<1>7. Marks' /\ Budget'
  BY <1>1, MarksStay
  DEF Withdrawing, DecisionCurrent, Condemned, Installed, Reclaimable, Holding
<1>8. QED BY <1>2, <1>3, <1>4, <1>5, <1>6, <1>7 DEF IInv

\* The version becomes even again, another one than before.
LEMMA PublishCloseKeeps == ASSUME IInv, PublishClose PROVE IInv'
<1>1. Types /\ Holding /\ Versions /\ Synced /\ Withdrawing BY DEF IInv
<1> USE LeasesApart, Parity
    DEF Types, repositoryVars, signalVars, storeVars, preparedVars, callVars, workerVars, controlVars,
        tickVars, pickVars, historyVars, Updating, Publishing, PublishClose
<1>0. /\ meta' \in [Slots -> Metadata]
      /\ \A s \in Slots : s # fslot => meta'[s] = meta[s]
      /\ meta'[fslot].version = meta[fslot].version + 1
      /\ meta'[fslot].generation = meta[fslot].generation
      /\ meta'[fslot].flags = meta[fslot].flags
  BY <1>1, NextVersion
<1>2. Types' BY <1>1, <1>0 DEF Phases, KvMemBlock, ForegroundPc
<1>3. Holding' BY <1>1 DEF Holding
<1>4. Versions' BY <1>0, VersionsKept
<1>5. Synced' 
  <2>1. \A s \in Slots : {store[s].generation, meta[s].generation, block[s], issued} \subseteq Nat
    BY <1>1 DEF Metadata, KvMemBlock
  <2>2. \A s \in Slots : Flags(s)' = Flags(s) /\ Installed(s)' = Installed(s) BY DEF Flags, Installed
  <2>3. QED BY <1>0, <1>1, <2>1, <2>2 DEF Synced, Holding
<1>6. Withdrawing'
  BY <1>1, <1>2 DEF Withdrawing, LeasedStaysLive, DecisionCurrent, Condemned, Withdrawn, Holding,
                    Installed, Flags, Taking, Using, Leased
<1>7. Marks' /\ Budget'
  BY <1>1, MarksStay
  DEF Withdrawing, DecisionCurrent, Condemned, Installed, Reclaimable, Holding
<1>8. QED BY <1>2, <1>3, <1>4, <1>5, <1>6, <1>7 DEF IInv

\* repository_sync_gc pins the next block of the call.
LEMMA SyncPinKeeps == ASSUME IInv, SyncPin PROVE IInv'
<1>1. Types /\ Holding /\ Versions /\ Synced /\ Withdrawing BY DEF IInv
<1> USE LeasesApart, Parity
    DEF Types, repositoryVars, signalVars, storeVars, preparedVars, callVars, workerVars, controlVars,
        tickVars, pickVars, historyVars, Updating, Publishing, Repository!Pin
<1> DEFINE n == Least(todo)
<1>2. n \in Slots /\ n \in todo BY <1>1, LeastIs DEF SyncPin
<1>3. /\ fpc = "sync" /\ fpc' = "pinned" /\ fslot' = n /\ todo' = todo \ {n}
      /\ Repository!Pin(n, Foreground)
      /\ UNCHANGED <<meta, signalVars, storeVars, preparedVars, used, workerVars>>
  BY DEF SyncPin
<1> HIDE DEF n
<1>4. Types' BY <1>1, <1>2, <1>3 DEF Phases, KvMemBlock, ForegroundPc
<1>5. Holding' BY <1>1, <1>2, <1>3 DEF Holding
<1>6. Versions' BY <1>1, <1>2, <1>3, <1>4 DEF Versions, Metadata
<1>7. Synced' BY <1>1, <1>2, <1>3, <1>4 DEF Synced, Holding, Installed, Flags, Metadata, KvMemBlock
<1>8. Withdrawing'
  BY <1>1, <1>2, <1>3, <1>4
  DEF Withdrawing, LeasedStaysLive, DecisionCurrent, Condemned, Withdrawn, Holding, Installed, Flags,
      Taking, Using, Leased
<1>9. Marks' /\ Budget'
  BY <1>1, <1>2, <1>3, MarksStay
  DEF Withdrawing, DecisionCurrent, Condemned, Installed, Reclaimable, Holding
<1>10. QED BY <1>4, <1>5, <1>6, <1>7, <1>8, <1>9 DEF IInv

\* The lease ends when what it covers is published.
LEMMA SyncUnpinKeeps == ASSUME IInv, SyncUnpin PROVE IInv'
<1>1. Types /\ Holding /\ Versions /\ Synced /\ Withdrawing BY DEF IInv
<1> USE LeasesApart, Parity
    DEF Types, repositoryVars, signalVars, storeVars, preparedVars, callVars, workerVars, controlVars,
        tickVars, pickVars, historyVars, Updating, Publishing, SyncUnpin, AfterSync, Repository!Leave
<1>2. Types' BY <1>1 DEF Phases, KvMemBlock, ForegroundPc
<1>3. Holding' BY <1>1 DEF Holding
<1>4. Versions' BY <1>1, <1>2 DEF Versions, Metadata
<1>5. Synced' BY <1>1, <1>2 DEF Synced, Holding, Installed, Flags, Metadata, KvMemBlock
<1>6. Withdrawing'
  BY <1>1, <1>2 DEF Withdrawing, LeasedStaysLive, DecisionCurrent, Condemned, Withdrawn, Holding,
                    Installed, Flags, Taking, Using, Leased
<1>7. Marks' /\ Budget'
  BY <1>1, MarksStay
  DEF Withdrawing, DecisionCurrent, Condemned, Installed, Reclaimable, Holding
<1>8. QED BY <1>2, <1>3, <1>4, <1>5, <1>6, <1>7 DEF IInv

\* The flags of an installed block change under a lease taken while the block is Live.
LEMMA MutateKeeps == ASSUME IInv, NEW m \in Slots, NEW b \in BOOLEAN, NEW g \in BOOLEAN,
                           NEW pc \in {"pinned", "evict", "stage"}, Mutate(m, b, g, pc) PROVE IInv'
<1>1. Types /\ Holding /\ Versions /\ Synced /\ Withdrawing BY DEF IInv
<1> USE LeasesApart, Parity
    DEF Types, repositoryVars, signalVars, storeVars, preparedVars, callVars, workerVars, controlVars,
        tickVars, pickVars, historyVars, Updating, Publishing, Mutate, Idle, Repository!Pin
<1>2. Types'
  <2>1. store' \in [Slots -> KvMemBlock]
    <3>1. ASSUME NEW v \in KvMemBlock PROVE [v EXCEPT !.backed = b, !.gpu = g] \in KvMemBlock
      BY DEF KvMemBlock
    <3>2. QED BY <1>1, <3>1
  <2>2. QED BY <1>1, <2>1 DEF Phases, ForegroundPc
<1>3. Holding' BY <1>1 DEF Holding
<1>4. Versions' BY <1>1, <1>2 DEF Versions, Metadata
<1>5. Synced' BY <1>1, <1>2 DEF Synced, Holding, Installed, Flags, Metadata, KvMemBlock
<1>6. Withdrawing'
  BY <1>1, <1>2 DEF Withdrawing, LeasedStaysLive, DecisionCurrent, Condemned, Withdrawn, Holding,
                    Installed, Flags, Taking, Using, Leased
<1>7. Marks' /\ Budget'
  BY <1>1, MarksStay
  DEF Withdrawing, DecisionCurrent, Condemned, Installed, Reclaimable, Holding
<1>8. QED BY <1>2, <1>3, <1>4, <1>5, <1>6, <1>7 DEF IInv

\* A rewind withdraws a block that it marks as discarded.
LEMMA DiscardKeeps == ASSUME IInv, NEW d \in Slots, Discard(d) PROVE IInv'
<1>1. Types /\ Holding /\ Versions /\ Synced /\ Withdrawing BY DEF IInv
<1> USE LeasesApart, Parity
    DEF Types, repositoryVars, signalVars, storeVars, preparedVars, callVars, workerVars, controlVars,
        tickVars, pickVars, historyVars, Updating, Publishing, Discard,
        Repository!Withdraw, Repository!SetPhase
<1>2. Types'
  <2>1. store' \in [Slots -> KvMemBlock]
    <3>1. ASSUME NEW v \in KvMemBlock PROVE [v EXCEPT !.valid = FALSE, !.backed = FALSE] \in KvMemBlock
      BY DEF KvMemBlock
    <3>2. QED BY <1>1, <3>1
  <2>2. QED BY <1>1, <2>1 DEF Phases, ForegroundPc
<1>3. Holding' BY <1>1 DEF Holding
<1>4. Versions' BY <1>1, <1>2 DEF Versions, Metadata
<1>5. Synced' BY <1>1, <1>2 DEF Synced, Holding, Installed, Flags, Metadata, KvMemBlock
<1>6. Withdrawing'
  BY <1>1, <1>2 DEF Withdrawing, LeasedStaysLive, DecisionCurrent, Condemned, Withdrawn, Holding,
                    Installed, Flags, Taking, Using, Leased
<1>7. Marks' /\ Budget'
  BY <1>1, MarksStay
  DEF Withdrawing, DecisionCurrent, Condemned, Installed, Reclaimable, Holding
<1>8. QED BY <1>2, <1>3, <1>4, <1>5, <1>6, <1>7 DEF IInv

\* Every step of the foreground and of the readers.
LEMMA ForegroundKeeps == ASSUME IInv, ForegroundNext \/ ReaderNext PROVE IInv'
<1>1. ASSUME NEW s \in Slots, SetFlags(s) \/ Evict(s) \/ StageIn(s) PROVE IInv'
  <2>1. store[s].backed \in BOOLEAN /\ store[s].gpu \in BOOLEAN BY DEF IInv, Types, KvMemBlock
  <2>2. CASE SetFlags(s) BY <2>1, <2>2, MutateKeeps DEF SetFlags
  <2>3. CASE Evict(s) BY <2>1, <2>3, MutateKeeps DEF Evict
  <2>4. CASE StageIn(s) BY <2>1, <2>4, MutateKeeps DEF StageIn
  <2>5. QED BY <1>1, <2>2, <2>3, <2>4
<1>2. QED
  BY <1>1, CallsKeep, OtherLeasesKeep, PrepareAppendKeeps, CommitAppendKeeps, CancelAppendKeeps,
     PublishSameKeeps, PublishOpenKeeps, PublishGenerationKeeps, PublishFlagsKeeps,
     PublishCloseKeeps, SyncPinKeeps, SyncUnpinKeeps, DiscardKeeps
  DEF ForegroundNext

-----------------------------------------------------------------------------
\* A step of the worker that only moves it, between its loops or on from a snapshot.
LEMMA MovesKeep ==
  ASSUME IInv, Types', UNCHANGED <<repositoryVars, foregroundVars, snap, historyVars>>,
         cands' \subseteq cands,
         \/ /\ wpc \notin Leased \cup {"release"} /\ wpc' \notin Leased \cup {"callback"}
            /\ wpc' = "release" => Reclaimable(slot')
         \/ /\ UNCHANGED <<slot, use>>
            /\ \/ wpc \in {"assess", "verify", "retire"} /\ wpc' = "unpin"
               \/ wpc = "verify" /\ wpc' = "retire"
               \/ wpc = "recheck" /\ wpc' = "rescue"
  PROVE  IInv'
<1>1. Types /\ Holding /\ Versions /\ Synced /\ Withdrawing /\ Marks /\ Budget BY DEF IInv
<1> USE DEF repositoryVars, foregroundVars, signalVars, storeVars, preparedVars, callVars,
        historyVars, Leased, Taking, Using
<1>2. \A s \in Slots : (Condemned(s)' <=> Condemned(s)) /\ (Installed(s)' <=> Installed(s))
  BY DEF Condemned, Installed
<1>3. Holding' BY <1>1 DEF Holding
<1>4. Versions' BY <1>1 DEF Versions
<1>5. Synced' BY <1>1, <1>2 DEF Synced, Flags
<1>6. Withdrawing'
  BY <1>1, <1>2 DEF Types, Withdrawing, LeasedStaysLive, DecisionCurrent, Flags, Withdrawn
<1>7. Marks'
  <2>1. PendingExact' BY <1>1 DEF Marks, PendingExact, Reclaimable
  <2>2. \A s \in Slots : Reclaimable(s)' <=> Reclaimable(s) BY DEF Reclaimable
  <2>3. QED BY <1>1, <1>2, <2>1, <2>2 DEF Types, Marks, Deciding, Withdrawn
<1>8. Budget' BY <1>1 DEF Budget, Deciding, Ready
<1>9. QED BY <1>3, <1>4, <1>5, <1>6, <1>7, <1>8 DEF IInv

\* The steps of the worker that decide without changing anything another step looks at.
LEMMA DecisionsKeep ==
  ASSUME IInv,
         \/ NoScores \/ StartTick \/ ScanSlot \/ EndScan \/ PinSlotFails \/ AssessStale
         \/ VerifyFails \/ VerifyDelete \/ RetireFails \/ Reprieve \/ ReleaseFails \/ EndTick
         \/ \E c \in cands : PickSkip(c)
  PROVE  IInv'
<1>1. Types BY DEF IInv
<1> USE DEF Types, repositoryVars, foregroundVars, signalVars, storeVars, preparedVars, callVars,
        controlVars, tickVars, pickVars, historyVars, Goto, WorkerPc, Leased, Taking, Using
<1>2. CASE NoScores
  <2>1. Types' BY <1>1, <1>2 DEF NoScores
  <2>2. QED BY <1>2, <2>1, MovesKeep DEF NoScores
<1>3. CASE StartTick
  <2>1. Types' BY <1>1, <1>3 DEF StartTick
  <2>2. QED BY <1>3, <2>1, MovesKeep DEF StartTick
<1>4. CASE ScanSlot
  <2>1. cursor' \in Slots
    <3>1. cursor' = IF cursor + 1 = Capacity THEN 0 ELSE cursor + 1 BY <1>4 DEF ScanSlot
    <3>2. cursor \in 0 .. Capacity - 1 BY <1>1 DEF Slots
    <3>3. QED BY <3>1, <3>2, ConfigAssumption DEF Slots
  <2>2. /\ wpc' \in {"release", "loop", "pin"} /\ slot' = cursor /\ use' = use /\ now' = now
        /\ wpc' = "release" => Reclaimable(cursor)
    BY <1>4 DEF ScanSlot
  <2>3. UNCHANGED <<repositoryVars, foregroundVars, snap, pickVars, historyVars>> /\ wpc = "loop"
    BY <1>4 DEF ScanSlot
  <2>4. Types' BY <1>1, <2>1, <2>2, <2>3
  <2>5. Reclaimable(slot)' <=> Reclaimable(cursor) BY <2>2, <2>3 DEF Reclaimable
  <2>6. QED BY <2>2, <2>3, <2>4, <2>5, MovesKeep DEF Reclaimable
<1>5. CASE EndScan
  <2>1. Types' BY <1>1, <1>5 DEF EndScan
  <2>2. QED BY <1>5, <2>1, MovesKeep DEF EndScan
<1>6. CASE PinSlotFails
  <2>1. Types' BY <1>1, <1>6 DEF PinSlotFails
  <2>2. QED BY <1>6, <2>1, MovesKeep DEF PinSlotFails
<1>7. CASE AssessStale
  <2>1. Types' BY <1>1, <1>7 DEF AssessStale
  <2>2. QED BY <1>7, <2>1, MovesKeep DEF AssessStale
<1>8. CASE VerifyFails
  <2>1. Types' BY <1>1, <1>8 DEF VerifyFails
  <2>2. QED BY <1>8, <2>1, MovesKeep DEF VerifyFails
<1>9. CASE VerifyDelete
  <2>1. Types' BY <1>1, <1>9 DEF VerifyDelete
  <2>2. QED BY <1>9, <2>1, MovesKeep DEF VerifyDelete
<1>10. CASE RetireFails
  <2>1. Types' BY <1>1, <1>10 DEF RetireFails
  <2>2. QED BY <1>10, <2>1, MovesKeep DEF RetireFails
<1>11. CASE Reprieve
  <2>1. Types' BY <1>1, <1>11 DEF Reprieve
  <2>2. QED BY <1>11, <2>1, MovesKeep DEF Reprieve
<1>12. CASE ReleaseFails
  <2>1. Types' BY <1>1, <1>12 DEF ReleaseFails
  <2>2. QED BY <1>12, <2>1, MovesKeep DEF ReleaseFails
<1>13. CASE EndTick
  <2>1. Types' BY <1>1, <1>13, SlotsFinite DEF EndTick, NoCandidate, Candidate
  <2>2. QED BY <1>13, <2>1, MovesKeep DEF EndTick
<1>14. ASSUME NEW c \in cands, PickSkip(c) PROVE IInv'
  <2>1. Types' BY <1>1, <1>14 DEF PickSkip, Picks
  <2>2. QED BY <1>14, <2>1, MovesKeep DEF PickSkip, Picks
<1>15. QED BY <1>2, <1>3, <1>4, <1>5, <1>6, <1>7, <1>8, <1>9, <1>10, <1>11, <1>12, <1>13, <1>14

\* snapshot(): what was read under a version is right while the version stays; after a
\* withdrawal nobody can publish, so there it does stay.
LEMMA SnapshotKeeps ==
  ASSUME IInv, ReadVersion \/ ReadGeneration \/ ReadFlags \/ ReadAgain
  PROVE  IInv'
<1>1. Types /\ Holding /\ Versions /\ Synced /\ Withdrawing /\ Marks /\ Budget BY DEF IInv
<1> USE DEF repositoryVars, foregroundVars, signalVars, storeVars, preparedVars, callVars,
        tickVars, pickVars, historyVars, Leased, Taking, Using, Goto, SnapshotFailed
<1>2. meta[slot] \in Metadata /\ snap \in Metadata /\ slot \in Slots BY <1>1 DEF Types
<1>3. meta[slot].version \in Nat /\ meta[slot].version % 2 \in {0, 1} BY <1>2, Parity DEF Metadata
<1>4. \/ /\ wpc = "version" /\ snap' = [snap EXCEPT !.version = meta[slot].version]
         /\ wpc' = IF meta[slot].version % 2 = 1 THEN SnapshotFailed ELSE "generation"
      \/ /\ wpc = "generation" /\ snap' = [snap EXCEPT !.generation = meta[slot].generation]
         /\ wpc' = "flags"
      \/ /\ wpc = "flags" /\ snap' = [snap EXCEPT !.flags = meta[slot].flags] /\ wpc' = "check"
      \/ /\ wpc = "check" /\ snap' = snap
         /\ wpc' = IF meta[slot].version = snap.version THEN use ELSE SnapshotFailed
  BY DEF ReadVersion, ReadGeneration, ReadFlags, ReadAgain
<1>5. UNCHANGED <<repositoryVars, foregroundVars, loop, use, slot, tickVars, pickVars, historyVars>>
  BY DEF ReadVersion, ReadGeneration, ReadFlags, ReadAgain
<1>6. Types'
  <2>1. snap' \in Metadata BY <1>2, <1>4 DEF Metadata
  <2>2. wpc' \in WorkerPc BY <1>1, <1>4 DEF Types, WorkerPc
  <2>3. QED BY <1>1, <1>5, <2>1, <2>2 DEF Types
<1>7. Holding' BY <1>1, <1>4, <1>5 DEF Types, Holding
<1>8. Versions' BY <1>1, <1>2, <1>3, <1>4, <1>5 DEF Versions, Metadata
<1>9. Synced' BY <1>1, <1>5 DEF Synced, Installed, Flags
<1>10. Withdrawing'
  BY <1>1, <1>2, <1>3, <1>4, <1>5
  DEF Types, Withdrawing, LeasedStaysLive, DecisionCurrent, Condemned, Installed, Flags, Withdrawn,
      Metadata
<1>11. Marks'
  <2>1. PendingExact' BY <1>1, <1>5 DEF Marks, PendingExact, Reclaimable
  <2>2. QED BY <1>1, <1>4, <1>5, <2>1
        DEF Types, Marks, Deciding, Withdrawn, Condemned, Installed, Reclaimable
<1>12. Budget' BY <1>1, <1>4, <1>5 DEF Types, Budget, Deciding, Ready
<1>13. QED BY <1>6, <1>7, <1>8, <1>9, <1>10, <1>11, <1>12 DEF IInv

\* A step of the worker that takes, uses or drops its lease and marks nothing.
LEMMA MarksMove ==
  ASSUME IInv, UNCHANGED <<block, historyVars>>, cands' \subseteq cands, PendingExact',
         \A s \in Slots : Condemned(s)' => Condemned(s),
         wpc # "release", wpc' \notin {"release", "callback"},
         Deciding' => hist[slot'].generation = block[slot'],
         Withdrawn' => ~hist[slot'].pending
  PROVE  Marks'
<1>1. Marks BY DEF IInv
<1>2. QED BY <1>1 DEF Marks, historyVars

\* The scan pins the block it looks at.
LEMMA PinSlotKeeps == ASSUME IInv, PinSlot PROVE IInv'
<1>1. Types /\ Holding /\ Versions /\ Synced /\ Withdrawing /\ Marks /\ Budget BY DEF IInv
<1> USE LeasesApart
    DEF foregroundVars, signalVars, storeVars, preparedVars, callVars, tickVars, pickVars,
        historyVars, Leased, Taking, Using, Goto, PinSlot, Repository!Pin, Repository!Idle
<1>2. Types' BY <1>1 DEF Types, WorkerPc, Phases, Metadata, NoSnapshot
<1>3. Holding' BY <1>1, <1>2 DEF Types, Holding
<1>4. Versions' BY <1>1, <1>2 DEF Types, Versions
<1>5. Synced' BY <1>1, <1>2 DEF Types, Synced, Installed, Flags
<1>6. Withdrawing'
  BY <1>1, <1>2
  DEF Types, Holding, Withdrawing, LeasedStaysLive, DecisionCurrent, Condemned, Installed, Flags,
      Withdrawn
<1>7. Marks'
  <2>1. PendingExact' BY <1>1 DEF Types, Marks, PendingExact, Reclaimable
  <2>2. \A s \in Slots : Condemned(s)' => Condemned(s)
    BY <1>1 DEF Types, Holding, Withdrawing, Withdrawn, Condemned, Installed
  <2>3. ~Deciding' /\ ~Withdrawn' BY DEF Deciding, Withdrawn
  <2>4. QED BY <2>1, <2>2, <2>3, MarksMove
<1>8. Budget' BY DEF Budget, Deciding
<1>9. QED BY <1>2, <1>3, <1>4, <1>5, <1>6, <1>7, <1>8 DEF IInv

\* The pick loop pins a candidate that still has its generation, in its budget.
LEMMA PickPinKeeps == ASSUME IInv, NEW c \in cands, PickPin(c) PROVE IInv'
<1>1. Types /\ Holding /\ Versions /\ Synced /\ Withdrawing /\ Marks /\ Budget BY DEF IInv
<1> USE LeasesApart
    DEF foregroundVars, signalVars, storeVars, preparedVars, callVars, tickVars, pickVars,
        historyVars, Leased, Taking, Using, Goto, PickPin, Picks, Pinnable,
        Repository!Pin, Repository!Idle
<1>2. c \in Candidate /\ c.slot \in Slots /\ cands' \in SUBSET Candidate BY <1>1 DEF Types, Candidate
<1>3. c.generation \in Nat /\ \A s \in Slots : {hist[s].generation, block[s]} \subseteq Nat
  BY <1>2, <1>1 DEF Types, Candidate, History
<1>4. Types' BY <1>2, <1>1 DEF Types, WorkerPc
<1>5. Holding' BY <1>1, <1>4 DEF Types, Holding
<1>6. Versions' BY <1>1, <1>4 DEF Types, Versions
<1>7. Synced' BY <1>1, <1>4 DEF Types, Synced, Installed, Flags
<1>8. Withdrawing'
  BY <1>1, <1>2, <1>4
  DEF Types, Holding, Withdrawing, LeasedStaysLive, DecisionCurrent, Condemned, Installed, Flags,
      Withdrawn
<1>9. Marks'
  <2>1. PendingExact' BY <1>1 DEF Types, Marks, PendingExact, Reclaimable
  <2>2. \A s \in Slots : Condemned(s)' => Condemned(s)
    BY <1>1, <1>2 DEF Types, Condemned, Installed
  <2>3. hist[c.slot].generation = block[c.slot] BY <1>1, <1>2, <1>3 DEF Marks
  <2>4. ~Withdrawn' BY DEF Withdrawn
  <2>5. QED BY <2>1, <2>2, <2>3, <2>4, MarksMove
<1>10. Budget' BY DEF Budget, InBudget, Ready
<1>11. QED BY <1>4, <1>5, <1>6, <1>7, <1>8, <1>9, <1>10 DEF IInv

\* A lease the worker drops is not on a block it withdrew.
LEMMA UnpinKeeps == ASSUME IInv, Unpin PROVE IInv'
<1>1. Types /\ Holding /\ Versions /\ Synced /\ Withdrawing /\ Marks /\ Budget BY DEF IInv
<1> USE LeasesApart
    DEF foregroundVars, signalVars, storeVars, preparedVars, callVars, tickVars, pickVars,
        historyVars, Leased, Taking, Using, Goto, Unpin, Repository!Leave
<1>2. Types' BY <1>1 DEF Types, WorkerPc, Phases, Metadata, NoSnapshot
<1>3. Holding' BY <1>1, <1>2 DEF Types, Holding
<1>4. Versions' BY <1>1, <1>2 DEF Types, Versions
<1>5. Synced' BY <1>1, <1>2 DEF Types, Synced, Installed, Flags
<1>6. Withdrawing'
  BY <1>1, <1>2
  DEF Types, Holding, Withdrawing, LeasedStaysLive, DecisionCurrent, Condemned, Installed, Flags,
      Withdrawn
<1>7. Marks'
  <2>1. PendingExact' BY <1>1 DEF Types, Marks, PendingExact, Reclaimable
  <2>2. \A s \in Slots : Condemned(s)' => Condemned(s)
    BY <1>1 DEF Types, Holding, Withdrawing, Withdrawn, Condemned, Installed
  <2>3. ~Deciding' /\ ~Withdrawn' BY DEF Deciding, Withdrawn
  <2>4. QED BY <2>1, <2>2, <2>3, MarksMove
<1>8. Budget' BY DEF Budget, Deciding
<1>9. QED BY <1>2, <1>3, <1>4, <1>5, <1>6, <1>7, <1>8 DEF IInv

\* retire_if_only_reader withdraws a block that nobody else can see changing.
LEMMA RetireKeeps == ASSUME IInv, RetireOnlyReader PROVE IInv'
<1>1. Types /\ Holding /\ Versions /\ Synced /\ Withdrawing /\ Marks /\ Budget BY DEF IInv
<1> USE LeasesApart
    DEF foregroundVars, signalVars, storeVars, preparedVars, callVars, tickVars, pickVars,
        historyVars, Leased, Taking, Using, Goto, RetireOnlyReader, OnlyReader,
        Repository!Withdraw, Repository!SetPhase
<1>2. Types' BY <1>1 DEF Types, WorkerPc, Phases, Metadata, NoSnapshot
<1>3. Holding' BY <1>1, <1>2 DEF Types, Holding
<1>4. Versions' BY <1>1, <1>2 DEF Types, Versions
<1>5. Synced' BY <1>1, <1>2 DEF Types, Synced, Installed, Flags
<1>6. Withdrawing'
  BY <1>1, <1>2
  DEF Types, Holding, Withdrawing, LeasedStaysLive, DecisionCurrent, Condemned, Installed, Flags,
      Withdrawn
<1>7. Marks'
  <2>1. PendingExact' BY <1>1 DEF Types, Marks, PendingExact, Reclaimable
  <2>2. ~hist[slot].pending BY <1>1 DEF Types, Marks, PendingExact, Reclaimable
  <2>3. \A s \in Slots : Condemned(s)' => Condemned(s)
    BY <1>1 DEF Types, Holding, Condemned, Installed
  <2>4. hist[slot].generation = block[slot] BY <1>1 DEF Marks, Deciding
  <2>5. QED BY <2>1, <2>2, <2>3, <2>4, MarksMove
<1>8. Budget'
  <2>1. Deciding BY DEF Deciding
  <2>2. \A s \in Slots : phase'[s] = "Free" => phase[s] = "Free" BY <1>1 DEF Types
  <2>3. QED BY <2>1, <2>2, BudgetStays
<1>9. QED BY <1>2, <1>3, <1>4, <1>5, <1>6, <1>7, <1>8 DEF IInv

\* A rescue brings back a block that is not marked.
LEMMA RescueKeeps == ASSUME IInv, Rescue PROVE IInv'
<1>1. Types /\ Holding /\ Versions /\ Synced /\ Withdrawing /\ Marks /\ Budget BY DEF IInv
<1> USE LeasesApart
    DEF foregroundVars, signalVars, storeVars, preparedVars, callVars, tickVars, pickVars,
        historyVars, Leased, Taking, Using, Goto, Rescue, Repository!Restore, Repository!SetPhase
<1>2. Types' BY <1>1 DEF Types, WorkerPc, Phases, Metadata, NoSnapshot
<1>3. Holding' BY <1>1, <1>2 DEF Types, Holding
<1>4. Versions' BY <1>1, <1>2 DEF Types, Versions
<1>5. Synced' BY <1>1, <1>2 DEF Types, Synced, Installed, Flags
<1>6. Withdrawing'
  BY <1>1, <1>2
  DEF Types, Holding, Withdrawing, LeasedStaysLive, DecisionCurrent, Condemned, Installed, Flags,
      Withdrawn
<1>7. Marks'
  <2>1. PendingExact'
    <3>1. ~hist[slot].pending BY <1>1 DEF Marks, Withdrawn
    <3>2. QED BY <1>1, <3>1 DEF Types, Marks, PendingExact, Reclaimable
  <2>2. \A s \in Slots : Condemned(s)' => Condemned(s)
    BY <1>1 DEF Types, Holding, Withdrawing, Withdrawn, Condemned, Installed
  <2>3. ~Deciding' /\ ~Withdrawn' BY DEF Deciding, Withdrawn
  <2>4. QED BY <2>1, <2>2, <2>3, MarksMove
<1>8. Budget' BY DEF Budget, Deciding
<1>9. QED BY <1>2, <1>3, <1>4, <1>5, <1>6, <1>7, <1>8 DEF IInv

-----------------------------------------------------------------------------
Pending == {s \in Slots : hist[s].pending}
Shadowed == {s \in Slots : hist[s].shadow}

\* One slot more or less in a set of slots.
LEMMA CountAt ==
  ASSUME NEW A \in SUBSET Slots, NEW B \in SUBSET Slots, NEW x \in Slots, A \ {x} = B \ {x}
  PROVE  Cardinality(B) = Cardinality(A) + Count(x \in B) - Count(x \in A)
<1>1. IsFiniteSet(A) /\ IsFiniteSet(B) /\ Cardinality(A) \in Nat /\ Cardinality(B) \in Nat
  BY SlotsFinite
<1>2. CASE x \in A /\ x \notin B
  <2>1. B = A \ {x} BY <1>2
  <2>2. Cardinality(B) = Cardinality(A) - 1 BY <1>1, <1>2, <2>1, FS_RemoveElement
  <2>3. QED BY <1>1, <1>2, <2>2 DEF Count
<1>3. CASE x \notin A /\ x \in B
  <2>1. A = B \ {x} BY <1>3
  <2>2. Cardinality(A) = Cardinality(B) - 1 BY <1>1, <1>3, <2>1, FS_RemoveElement
  <2>3. QED BY <1>1, <1>3, <2>2 DEF Count
<1>4. CASE x \in A <=> x \in B
  <2>1. A = B BY <1>4
  <2>2. QED BY <1>1, <2>1 DEF Count
<1>5. QED BY <1>2, <1>3, <1>4

\* The counters when the history of one slot changes.
LEMMA MarkedAt ==
  ASSUME IInv, \A s \in Slots : s # slot => hist'[s] = hist[s]
  PROVE  /\ Cardinality(Pending') =
              pending_count + Count(hist'[slot].pending) - Count(hist[slot].pending)
         /\ Cardinality(Shadowed') =
              shadow_live + Count(hist'[slot].shadow) - Count(hist[slot].shadow)
<1>1. slot \in Slots /\ pending_count = Cardinality(Pending) /\ shadow_live = Cardinality(Shadowed)
  BY DEF IInv, Types, Marks, PendingExact, Pending, Shadowed
<1>2. /\ Pending \in SUBSET Slots /\ Pending' \in SUBSET Slots /\ Pending \ {slot} = Pending' \ {slot}
      /\ Shadowed \in SUBSET Slots /\ Shadowed' \in SUBSET Slots
      /\ Shadowed \ {slot} = Shadowed' \ {slot}
  BY DEF Pending, Shadowed, Slots
<1>3. /\ Cardinality(Pending') =
           Cardinality(Pending) + Count(slot \in Pending') - Count(slot \in Pending)
      /\ Cardinality(Shadowed') =
           Cardinality(Shadowed) + Count(slot \in Shadowed') - Count(slot \in Shadowed)
  BY <1>1, <1>2, CountAt
<1>4. /\ slot \in Pending <=> hist[slot].pending
      /\ slot \in Pending' <=> hist'[slot].pending
      /\ slot \in Shadowed <=> hist[slot].shadow
      /\ slot \in Shadowed' <=> hist'[slot].shadow
  BY <1>1 DEF Pending, Shadowed, Slots
<1>5. QED BY <1>1, <1>3, <1>4 DEF Count

\* The pending mark of one slot is set or cleared, and nothing else.
LEMMA SetPending ==
  ASSUME Types, NEW b \in BOOLEAN, hist' = [hist EXCEPT ![slot].pending = b]
  PROVE  /\ hist' \in [Slots -> History] /\ \A s \in Slots : s # slot => hist'[s] = hist[s]
         /\ hist'[slot].generation = hist[slot].generation /\ hist'[slot].shadow = hist[slot].shadow
         /\ hist'[slot].pending = b
<1>1. slot \in Slots /\ hist \in [Slots -> History] BY DEF Types
<1>2. ASSUME NEW h \in History
      PROVE  /\ [h EXCEPT !.pending = b] \in History
             /\ [h EXCEPT !.pending = b].generation = h.generation
             /\ [h EXCEPT !.pending = b].shadow = h.shadow
             /\ [h EXCEPT !.pending = b].pending = b
  BY DEF History
<1>3. QED BY <1>1, <1>2

\* The worker gives up its lease on a block that is still due: the second snapshot was
\* taken when nobody else could publish, and the metadata are what the store would say.
LEMMA CondemnKeeps == ASSUME IInv, Condemn PROVE IInv'
<1>1. Types /\ Holding /\ Versions /\ Synced /\ Withdrawing /\ Marks BY DEF IInv
<1> USE LeasesApart
    DEF foregroundVars, signalVars, storeVars, preparedVars, callVars, tickVars, Leased, Taking,
        Using, Goto, Repository!Leave
<1>2. /\ wpc = "recheck" /\ wpc' \in {"release", "loop"} /\ slot' = slot /\ use' = use
      /\ readers' = [readers EXCEPT ![slot] = @ \ {Worker}]
      /\ UNCHANGED <<phase, block, issued, meta, storeVars, foregroundVars, cands, cand, shadow_live>>
      /\ snap' = NoSnapshot /\ StillDue
  BY DEF Condemn
<1>3. \/ hist' = hist /\ pending_count' = pending_count /\ wpc' = "release"
      \/ hist' = [hist EXCEPT ![slot].pending = TRUE] /\ wpc' = "loop"
         /\ pending_count' = pending_count + Count(~hist[slot].pending)
  BY DEF Condemn
<1>4. slot \in Slots /\ hist \in [Slots -> History] /\ hist[slot] \in History BY <1>1 DEF Types
<1>5. /\ hist' \in [Slots -> History] /\ \A s \in Slots : s # slot => hist'[s] = hist[s]
      /\ hist'[slot].generation = hist[slot].generation /\ hist'[slot].shadow = hist[slot].shadow
      /\ wpc' = "loop" => hist'[slot].pending
      /\ wpc' = "release" => hist'[slot].pending = hist[slot].pending
  BY <1>1, <1>3, <1>4, SetPending
<1>6. Types'
  <2>1. snap' \in Metadata BY <1>2 DEF NoSnapshot, Metadata
  <2>2. pending_count' \in Int BY <1>1, <1>3 DEF Types, Count
  <2>3. UNCHANGED tickVars BY DEF Condemn
  <2>4. readers' \in [Slots -> SUBSET Leases] BY <1>1, <1>2 DEF Types
  <2>5. QED BY <1>1, <1>2, <1>5, <2>1, <2>2, <2>3, <2>4 DEF Types, WorkerPc
<1>7. Holding' BY <1>1, <1>2 DEF Types, Holding
<1>8. Versions' BY <1>1, <1>2 DEF Types, Versions
<1>9. Synced' BY <1>1, <1>2 DEF Types, Synced, Installed, Flags
<1>10. phase[slot] = "Retired" /\ hist[slot].generation = block[slot] /\ ~hist[slot].pending
  BY <1>1, <1>2 DEF Withdrawing, Withdrawn, Marks, Deciding
<1>11. Withdrawing'
  <2>1. ASSUME Installed(slot)
        PROVE  /\ readers[slot] = {Worker} /\ meta[slot].version % 2 = 0
               /\ meta[slot].generation = block[slot]
               /\ meta[slot].flags = "cold" /\ Flags(slot) = "cold"
    <3>1. readers[slot] = {Worker}
      BY <1>1, <1>2, <1>4, <1>10, <2>1 DEF Types, Holding, Withdrawing, LeasedStaysLive
    <3>2. snap.version = meta[slot].version BY <1>1, <1>2, <2>1 DEF Withdrawing, Withdrawn
    <3>3. snap.generation = meta[slot].generation /\ snap.flags = meta[slot].flags
      BY <1>1, <1>2, <3>2 DEF Versions
    <3>4. snap.generation = block[slot] /\ snap.flags # "hot"
      BY <1>2 DEF StillDue, Unchanged, protected_now
    <3>5. meta[slot].flags = "cold" BY <1>1, <1>4, <3>3, <3>4 DEF Types, Metadata
    <3>6. meta[slot].version % 2 = 0 BY <1>1, <1>2, <3>2 DEF Versions
    <3>7. Flags(slot) = "cold"
      BY <1>1, <1>4, <2>1, <3>1, <3>3, <3>4, <3>5 DEF Synced, Installed
    <3>8. QED BY <3>1, <3>3, <3>4, <3>5, <3>6, <3>7
  <2>2. \A s \in Slots : (Installed(s)' <=> Installed(s)) /\ Flags(s)' = Flags(s)
    BY <1>2 DEF Installed, Flags
  <2>3. QED
    BY <1>1, <1>2, <2>1, <2>2
    DEF Types, Withdrawing, LeasedStaysLive, DecisionCurrent, Condemned, Withdrawn
<1>12. Marks'
  <2>1. /\ pending_count' = Cardinality(Pending') /\ shadow_live' = Cardinality(Shadowed')
    <3>1. Cardinality(Pending') = pending_count + Count(hist'[slot].pending) - Count(hist[slot].pending)
      BY <1>5, MarkedAt
    <3>2. Cardinality(Shadowed') = shadow_live + Count(hist'[slot].shadow) - Count(hist[slot].shadow)
      BY <1>5, MarkedAt
    <3>3. QED BY <1>1, <1>2, <1>3, <1>5, <1>10, <3>1, <3>2 DEF Types, Count
  <2>2. PendingExact'
    BY <1>1, <1>2, <1>5, <1>10, <2>1
    DEF Types, Marks, PendingExact, Pending, Shadowed, Reclaimable, Slots
  <2>3. \A s \in Slots : Condemned(s)' => Condemned(s) \/ s = slot
    BY <1>1, <1>2 DEF Types, Condemned, Installed
  <2>4. \A c \in cands : c.slot \in Slots BY <1>1 DEF Types, Candidate
  <2>5. \A c \in cands : hist'[c.slot].generation = hist[c.slot].generation BY <1>5, <2>4
  <2>6. QED
    BY <1>1, <1>2, <1>5, <1>10, <2>2, <2>3, <2>5
    DEF Types, Marks, Deciding, Withdrawn, Reclaimable
<1>13. Budget' BY <1>2 DEF Budget, Deciding
<1>14. QED BY <1>6, <1>7, <1>8, <1>9, <1>11, <1>12, <1>13 DEF IInv

-----------------------------------------------------------------------------
\* refresh(): the marks of a history that another generation or version ends.
LEMMA RefreshIs ==
  ASSUME NEW h \in History, NEW m \in Metadata
  PROVE  /\ refresh(h, m) \in History
         /\ refresh(h, m).generation = m.generation
         /\ refresh(h, m).pending <=> h.pending /\ ~Restarted(h, m)
         /\ refresh(h, m).shadow <=> h.shadow /\ ~Unmarked(h, m)
<1> DEFINE kept == IF Restarted(h, m) THEN [NoHistory EXCEPT !.generation = m.generation] ELSE h
<1>1. /\ kept \in History /\ kept.generation = m.generation
      /\ kept.pending <=> h.pending /\ ~Restarted(h, m)
      /\ kept.shadow <=> h.shadow /\ ~Restarted(h, m)
      /\ ~Restarted(h, m) => kept.version = h.version
  BY DEF History, Metadata, NoHistory, Restarted
<1>2. refresh(h, m) = IF kept.version = m.version THEN kept
                      ELSE [kept EXCEPT !.version = m.version, !.observed = FALSE, !.shadow = FALSE]
  BY DEF refresh
<1> HIDE DEF kept
<1>3. CASE kept.version = m.version BY <1>1, <1>2, <1>3 DEF Unmarked
<1>4. CASE kept.version # m.version
  <2>1. [kept EXCEPT !.version = m.version, !.observed = FALSE, !.shadow = FALSE] \in History
    BY <1>1 DEF History, Metadata
  <2>2. QED BY <1>1, <1>2, <1>4, <2>1 DEF Unmarked, History
<1>5. QED BY <1>3, <1>4

\* A step of the worker that changes only what it remembers: it moves the history of a
\* slot to the block in it and takes no pending mark away.
LEMMA HistoryKeeps ==
  ASSUME IInv, Types', PendingExact',
         UNCHANGED <<repositoryVars, foregroundVars, snap, slot, use>>,
         \A s \in Slots : /\ hist[s].generation <= hist'[s].generation
                          /\ hist'[s].generation <= block[s]
                          /\ hist[s].pending => hist'[s].pending,
         \A c \in cands' : c \in cands \/ c.generation <= hist'[c.slot].generation,
         \/ wpc \in {"assess", "verify"} /\ wpc' = "unpin"
         \/ wpc = "idle" /\ wpc' = "tick"
         \/ /\ wpc = "release" /\ wpc' \in {"loop", "callback"} /\ hist'[slot].pending
            /\ wpc' = "callback" => phase[slot] = "Releasing"
  PROVE  IInv'
<1>1. Types /\ Holding /\ Versions /\ Synced /\ Withdrawing /\ Marks BY DEF IInv
<1> USE DEF repositoryVars, foregroundVars, signalVars, storeVars, preparedVars, callVars, Leased,
        Taking, Using
<1>2. \A s \in Slots : (Condemned(s)' <=> Condemned(s)) /\ (Installed(s)' <=> Installed(s))
  BY DEF Condemned, Installed
<1>3. Holding' BY <1>1 DEF Types, Holding
<1>4. Versions' BY <1>1 DEF Versions
<1>5. Synced' BY <1>1, <1>2 DEF Synced, Flags
<1>6. Withdrawing'
  BY <1>1, <1>2 DEF Types, Withdrawing, LeasedStaysLive, DecisionCurrent, Flags, Withdrawn
<1>7. Marks'
  <2>1. \A c \in cands' : c.generation <= hist'[c.slot].generation
    <3>1. \A c \in cands : c.generation \in Nat /\ c.slot \in Slots BY <1>1 DEF Types, Candidate
    <3>2. \A s \in Slots : hist[s].generation \in Nat /\ hist'[s].generation \in Nat
      BY <1>1 DEF Types, History
    <3>3. \A c \in cands : c.generation <= hist[c.slot].generation BY <1>1 DEF Marks
    <3>4. QED BY <3>1, <3>2, <3>3
  <2>2. QED BY <1>1, <1>2, <2>1 DEF Types, Marks, Deciding, Withdrawn
<1>8. Budget' BY DEF Budget, Deciding
<1>9. QED BY <1>3, <1>4, <1>5, <1>6, <1>7, <1>8 DEF IInv

\* The scan replaces the history of a block it judged by one of the same block.
LEMMA AssessesKeeps ==
  ASSUME IInv, NEW h \in History, wpc = "assess", Assesses(h),
         snap.generation = block[slot], h.generation = block[slot],
         h.pending <=> hist[slot].pending /\ ~Restarted(hist[slot], snap),
         h.shadow <=> hist[slot].shadow /\ ~Unmarked(hist[slot], snap),
         cands' \in SUBSET Candidate,
         \A c \in cands' \ cands : c.slot = slot /\ c.generation = block[slot]
  PROVE  IInv'
<1>1. Types /\ Marks BY DEF IInv
<1>2. /\ hist' = [hist EXCEPT ![slot] = h] /\ wpc' = "unpin"
      /\ pending_count' = pending_count - Count(Restarted(hist[slot], snap) /\ hist[slot].pending)
      /\ shadow_live' = shadow_live - Count(Unmarked(hist[slot], snap))
      /\ UNCHANGED <<repositoryVars, foregroundVars, snap, cursor, now, cand, slot, use>>
  BY DEF Assesses, Goto
<1>3. slot \in Slots /\ block \in [Slots -> Nat] /\ hist \in [Slots -> History] BY <1>1 DEF Types
<1>4. hist'[slot] = h /\ \A s \in Slots : s # slot => hist'[s] = hist[s] BY <1>2, <1>3
<1>5. \A s \in Slots : hist[s].generation \in Nat /\ hist'[s].generation \in Nat
  BY <1>3, <1>4 DEF History
<1>6. hist[slot].pending => ~Restarted(hist[slot], snap)
  BY <1>1, <1>3 DEF Marks, PendingExact, Restarted
<1>7. Types'
  BY <1>1, <1>2 DEF Types, Count, WorkerPc, repositoryVars, foregroundVars, signalVars, storeVars,
                    preparedVars, callVars
<1>8. PendingExact'
  <2>1. pending_count' = Cardinality(Pending') /\ shadow_live' = Cardinality(Shadowed')
    <3>1. Cardinality(Pending') = pending_count + Count(h.pending) - Count(hist[slot].pending)
      BY <1>4, MarkedAt
    <3>2. Cardinality(Shadowed') = shadow_live + Count(h.shadow) - Count(hist[slot].shadow)
      BY <1>4, MarkedAt
    <3>3. Unmarked(hist[slot], snap) => hist[slot].shadow BY DEF Unmarked
    <3>4. QED BY <1>1, <1>2, <1>6, <3>1, <3>2, <3>3 DEF Types, Count
  <2>2. \A s \in Slots : hist'[s].pending => hist[s].pending BY <1>4
  <2>3. \A s \in Slots : hist'[s].pending => hist'[s].generation = block[s]
    BY <1>1, <1>4, <2>2 DEF Marks, PendingExact
  <2>4. QED
    BY <1>1, <1>2, <2>1, <2>2, <2>3
    DEF Marks, PendingExact, Pending, Shadowed, Reclaimable, Slots, repositoryVars
<1>9. \A s \in Slots : hist[s].generation <= hist'[s].generation /\ hist'[s].generation <= block[s]
  BY <1>1, <1>3, <1>4, <1>5 DEF Marks
<1>10. \A c \in cands' : c \in cands \/ c.generation <= hist'[c.slot].generation
  BY <1>3, <1>4
<1>11. \A s \in Slots : hist[s].pending => hist'[s].pending BY <1>4, <1>6
<1>12. QED BY <1>2, <1>7, <1>8, <1>9, <1>10, <1>11, HistoryKeeps

\* A protected block ends its observation; another one becomes a candidate, or stays one.
LEMMA AssessKeeps ==
  ASSUME IInv, AssessProtected \/ \E level \in {2, 3} : AssessCandidate(level)
  PROVE  IInv'
<1>1. Types BY DEF IInv
<1>2. slot \in Slots /\ snap \in Metadata /\ hist[slot] \in History /\ block[slot] \in Nat
  BY <1>1 DEF Types
<1> DEFINE r == refresh(hist[slot], snap)
<1>3. /\ r \in History /\ r.generation = snap.generation
      /\ r.pending <=> hist[slot].pending /\ ~Restarted(hist[slot], snap)
      /\ r.shadow <=> hist[slot].shadow /\ ~Unmarked(hist[slot], snap)
  BY <1>2, RefreshIs
<1> HIDE DEF r
<1>4. CASE AssessProtected
  <2> DEFINE h == [r EXCEPT !.observed = FALSE]
  <2>1. h \in History /\ h.generation = r.generation /\ h.pending = r.pending /\ h.shadow = r.shadow
    BY <1>3 DEF History
  <2>2. wpc = "assess" /\ snap.generation = block[slot] /\ Assesses(h) /\ cands' = cands
    BY <1>4 DEF AssessProtected, r
  <2> HIDE DEF h
  <2>3. QED BY <1>1, <1>3, <2>1, <2>2, AssessesKeeps DEF Types
<1>5. ASSUME NEW level \in {2, 3}, AssessCandidate(level) PROVE IInv'
  <2> DEFINE h == Observed(r)
  <2>1. h \in History /\ h.generation = r.generation /\ h.pending = r.pending /\ h.shadow = r.shadow
    BY <1>1, <1>3 DEF Types, History, Observed
  <2> DEFINE c == [slot |-> slot, generation |-> snap.generation, version |-> snap.version,
                   level |-> level]
  <2>2. /\ wpc = "assess" /\ snap.generation = block[slot] /\ Assesses(h)
        /\ cands' = cands \/ cands' = cands \cup {c}
    BY <1>5 DEF AssessCandidate, protected_now, r
  <2>3. c \in Candidate /\ c.slot = slot /\ c.generation = snap.generation
    BY <1>2 DEF Candidate, Metadata
  <2> HIDE DEF h, c
  <2>4. cands' \in SUBSET Candidate BY <1>1, <2>2, <2>3 DEF Types
  <2>5. QED BY <1>3, <2>1, <2>2, <2>3, <2>4, AssessesKeeps
<1>6. QED BY <1>4, <1>5

\* A shadow mark is counted once.
LEMMA VerifyShadowKeeps == ASSUME IInv, VerifyShadow PROVE IInv'
<1>1. Types /\ Marks BY DEF IInv
<1>2. /\ hist' = [hist EXCEPT ![slot].shadow = TRUE] /\ wpc = "verify" /\ wpc' = "unpin"
      /\ shadow_live' = shadow_live + Count(~hist[slot].shadow)
      /\ UNCHANGED <<repositoryVars, foregroundVars, snap, tickVars, cands, cand, pending_count, slot,
                     use>>
  BY DEF VerifyShadow, Goto
<1>3. slot \in Slots /\ block \in [Slots -> Nat] /\ hist \in [Slots -> History] BY <1>1 DEF Types
<1>4. /\ hist' \in [Slots -> History] /\ \A s \in Slots : s # slot => hist'[s] = hist[s]
      /\ hist'[slot].shadow
      /\ \A s \in Slots : hist'[s].pending = hist[s].pending /\ hist'[s].generation = hist[s].generation
  BY <1>2, <1>3 DEF History
<1>5. \A s \in Slots : hist[s].generation \in Nat BY <1>3 DEF History
<1>6. Types'
  BY <1>1, <1>2, <1>4 DEF Types, Count, WorkerPc, repositoryVars, foregroundVars, signalVars,
                    storeVars, preparedVars, callVars, tickVars
<1>7. PendingExact'
  <2>1. pending_count' = Cardinality(Pending') /\ shadow_live' = Cardinality(Shadowed')
    <3>1. Cardinality(Pending') = pending_count + Count(hist'[slot].pending) - Count(hist[slot].pending)
      BY <1>4, MarkedAt
    <3>2. Cardinality(Shadowed') = shadow_live + Count(hist'[slot].shadow) - Count(hist[slot].shadow)
      BY <1>4, MarkedAt
    <3>3. QED BY <1>1, <1>2, <1>3, <1>4, <3>1, <3>2 DEF Types, Count
  <2>2. QED
    BY <1>1, <1>2, <1>4, <2>1
    DEF Marks, PendingExact, Pending, Shadowed, Reclaimable, Slots, repositoryVars
<1>8. QED BY <1>1, <1>2, <1>4, <1>5, <1>6, <1>7, HistoryKeeps DEF Marks

\* The slots whose mark a score frame ends are taken off the counter together.
LEMMA CountWithout ==
  ASSUME NEW A \in SUBSET Slots, NEW D \in SUBSET A
  PROVE  Cardinality(A \ D) = Cardinality(A) - Cardinality(D)
<1>1. IsFiniteSet(A) /\ Cardinality(A) \in Nat /\ Cardinality(D) \in Nat /\ A \cap D = D
  BY SlotsFinite
<1>2. Cardinality(A \ D) = Cardinality(A) - Cardinality(A \cap D) BY <1>1, FS_Difference
<1>3. QED BY <1>1, <1>2

\* consume_scores refreshes the history of slots whose metadata are about their block.
LEMMA ConsumeScoresKeeps == ASSUME IInv, ConsumeScores PROVE IInv'
<1>1. Types /\ Marks BY DEF IInv
<1>2. PICK S \in SUBSET Described :
        /\ hist' = [s \in Slots |-> IF s \in S THEN refresh(hist[s], meta[s]) ELSE hist[s]]
        /\ pending_count' = pending_count
              - Cardinality({s \in S : Restarted(hist[s], meta[s]) /\ hist[s].pending})
        /\ shadow_live' = shadow_live - Cardinality({s \in S : Unmarked(hist[s], meta[s])})
  BY DEF ConsumeScores
<1>3. /\ wpc = "idle" /\ wpc' = "tick"
      /\ UNCHANGED <<repositoryVars, foregroundVars, snap, cursor, now, pickVars, slot, use>>
  BY DEF ConsumeScores, Goto
<1>4. \A s \in S : s \in Slots /\ meta[s].generation = block[s] BY DEF Described
<1>5. \A s \in Slots : meta[s] \in Metadata /\ hist[s] \in History /\ block[s] \in Nat
  BY <1>1 DEF Types
<1>6. \A s \in S : /\ hist'[s] \in History /\ hist'[s].generation = block[s]
                   /\ hist'[s].pending <=> hist[s].pending /\ ~Restarted(hist[s], meta[s])
                   /\ hist'[s].shadow <=> hist[s].shadow /\ ~Unmarked(hist[s], meta[s])
  BY <1>2, <1>4, <1>5, RefreshIs
<1>7. \A s \in Slots \ S : hist'[s] = hist[s] BY <1>2
<1>8. \A s \in Slots : hist[s].pending => hist[s].generation = block[s] BY <1>1 DEF Marks, PendingExact
<1> DEFINE P == {s \in S : Restarted(hist[s], meta[s]) /\ hist[s].pending}
           U == {s \in S : Unmarked(hist[s], meta[s])}
<1>9. P = {} BY <1>4, <1>8 DEF Restarted
<1>10. U \in SUBSET Shadowed BY <1>4 DEF Shadowed, Unmarked
<1>11. Pending' = Pending /\ Shadowed' = Shadowed \ U
  BY <1>4, <1>6, <1>7, <1>9 DEF Pending, Shadowed, Slots
<1>12. /\ pending_count = Cardinality(Pending) /\ shadow_live = Cardinality(Shadowed)
       /\ pending_count' = pending_count - Cardinality(P) /\ shadow_live' = shadow_live - Cardinality(U)
       /\ Pending \in SUBSET Slots /\ Shadowed \in SUBSET Slots
  BY <1>1, <1>2 DEF Marks, PendingExact, Pending, Shadowed
<1> HIDE DEF P, U
<1>13. pending_count' = Cardinality(Pending') /\ pending_count' \in Int
  BY <1>9, <1>11, <1>12, FS_EmptySet, SlotsFinite
<1>14. shadow_live' = Cardinality(Shadowed') /\ shadow_live' \in Int
  <2>1. Cardinality(Shadowed \ U) = Cardinality(Shadowed) - Cardinality(U) BY <1>10, <1>12, CountWithout
  <2>2. Shadowed \ U \in SUBSET Slots BY <1>12
  <2>3. QED BY <1>11, <1>12, <2>1, <2>2, SlotsFinite
<1>15. hist' \in [Slots -> History]
  <2>1. \A s \in Slots : hist'[s] \in History BY <1>5, <1>6, <1>7
  <2>2. QED BY <1>2, <2>1
<1>16. Types'
  BY <1>1, <1>3, <1>13, <1>14, <1>15
  DEF Types, WorkerPc, repositoryVars, foregroundVars, signalVars, storeVars, preparedVars, callVars,
      pickVars
<1>17. \A s \in Slots : hist'[s].pending => hist[s].pending /\ hist'[s].generation = block[s]
  BY <1>6, <1>7, <1>8
<1>18. PendingExact'
  BY <1>1, <1>3, <1>13, <1>14, <1>17
  DEF Marks, PendingExact, Pending, Shadowed, Reclaimable, Slots, repositoryVars
<1>19. \A s \in Slots : /\ hist[s].generation <= hist'[s].generation
                        /\ hist'[s].generation <= block[s]
                        /\ hist[s].pending => hist'[s].pending
  <2>1. \A s \in Slots : hist[s].generation \in Nat /\ hist[s].generation <= block[s]
    BY <1>1, <1>5 DEF Marks, History
  <2>2. \A s \in S : hist[s].pending => hist'[s].pending BY <1>4, <1>6, <1>8 DEF Restarted
  <2>3. QED BY <1>5, <1>6, <1>7, <2>1, <2>2
<1>20. QED BY <1>3, <1>16, <1>18, <1>19, HistoryKeeps DEF pickVars

\* MarkPending in release(): the slot counts once, under the generation of its block.
LEMMA MarkPendingIs ==
  ASSUME IInv, MarkPending
  PROVE  /\ hist' \in [Slots -> History] /\ \A s \in Slots : s # slot => hist'[s] = hist[s]
         /\ hist'[slot].pending /\ hist'[slot].generation = block[slot]
         /\ pending_count' = Cardinality(Pending') /\ shadow_live' = Cardinality(Shadowed')
         /\ pending_count' \in Int /\ shadow_live' \in Int
<1>1. Types BY DEF IInv
<1>2. /\ slot \in Slots /\ block[slot] \in Nat /\ hist \in [Slots -> History] /\ hist[slot] \in History
      /\ pending_count \in Int /\ shadow_live \in Int
  BY <1>1 DEF Types
<1> DEFINE h == hist[slot]
           restart == h.generation # block[slot]
           n == IF restart THEN [NoHistory EXCEPT !.generation = block[slot], !.pending = TRUE]
                ELSE [h EXCEPT !.pending = TRUE, !.shadow = FALSE]
<1>3. /\ hist' = [hist EXCEPT ![slot] = n]
      /\ shadow_live' = shadow_live - Count(h.shadow)
      /\ pending_count' = pending_count - Count(restart /\ h.pending) + Count(restart \/ ~h.pending)
  BY DEF MarkPending
<1>4. n \in History /\ n.pending /\ ~n.shadow /\ n.generation = block[slot]
  <2>1. CASE restart BY <1>2, <2>1 DEF History, NoHistory
  <2>2. CASE ~restart BY <1>2, <2>2 DEF History
  <2>3. QED BY <2>1, <2>2
<1> HIDE DEF n
<1>5. /\ hist' \in [Slots -> History] /\ hist'[slot] = n
      /\ \A s \in Slots : s # slot => hist'[s] = hist[s]
  BY <1>2, <1>3, <1>4
<1>6. Cardinality(Pending') = pending_count + Count(n.pending) - Count(h.pending) BY <1>5, MarkedAt
<1>7. Cardinality(Shadowed') = shadow_live + Count(n.shadow) - Count(h.shadow) BY <1>5, MarkedAt
<1>8. pending_count' = Cardinality(Pending') /\ shadow_live' = Cardinality(Shadowed')
  BY <1>2, <1>3, <1>4, <1>6, <1>7 DEF Count
<1>9. pending_count' \in Int /\ shadow_live' \in Int BY <1>2, <1>3 DEF Count
<1>10. QED BY <1>4, <1>5, <1>8, <1>9

\* A release that is deferred leaves the slot marked.
LEMMA ReleaseDeferredKeeps == ASSUME IInv, ReleaseRetry \/ ReleaseReaders PROVE IInv'
<1>1. Types /\ Marks BY DEF IInv
<1>2. /\ wpc = "release" /\ wpc' \in {"loop", "callback"} /\ MarkPending
      /\ wpc' = "callback" => phase[slot] = "Releasing"
      /\ UNCHANGED <<repositoryVars, foregroundVars, snap, tickVars, cands, cand, slot, use>>
  BY DEF ReleaseRetry, ReleaseReaders, Goto, pickVars
<1>3. /\ hist' \in [Slots -> History] /\ \A s \in Slots : s # slot => hist'[s] = hist[s]
      /\ hist'[slot].pending /\ hist'[slot].generation = block[slot]
      /\ pending_count' = Cardinality(Pending') /\ shadow_live' = Cardinality(Shadowed')
      /\ pending_count' \in Int /\ shadow_live' \in Int
  BY <1>2, MarkPendingIs
<1>4. Types'
  BY <1>1, <1>2, <1>3
  DEF Types, WorkerPc, repositoryVars, foregroundVars, signalVars, storeVars, preparedVars, callVars,
      tickVars
<1>5. PendingExact'
  BY <1>1, <1>2, <1>3
  DEF Types, Marks, PendingExact, Pending, Shadowed, Reclaimable, Slots, repositoryVars
<1>6. \A s \in Slots : hist[s].generation \in Nat /\ block[s] \in Nat BY <1>1 DEF Types, History
<1>7. \A s \in Slots : /\ hist[s].generation <= hist'[s].generation
                       /\ hist'[s].generation <= block[s]
                       /\ hist[s].pending => hist'[s].pending
  BY <1>1, <1>3, <1>6 DEF Marks
<1>8. UNCHANGED <<repositoryVars, foregroundVars, snap, slot, use>> /\ cands' = cands BY <1>2
<1>9. QED BY <1>2, <1>3, <1>4, <1>5, <1>7, <1>8, HistoryKeeps

\* The slot is sealed when nobody reads it; it stays condemned and is marked.
LEMMA ReleaseSealKeeps == ASSUME IInv, ReleaseSeal PROVE IInv'
<1>1. Types /\ Holding /\ Versions /\ Synced /\ Withdrawing /\ Marks BY DEF IInv
<1>2. /\ wpc = "release" /\ wpc' = "callback" /\ MarkPending
      /\ phase[slot] \in {"Retired", "Cancelled"} /\ readers[slot] = {}
      /\ phase' = [phase EXCEPT ![slot] = "Releasing"]
      /\ UNCHANGED <<block, readers, issued, foregroundVars, snap, tickVars, pickVars, slot, use>>
  BY DEF ReleaseSeal, Goto, Repository!Seal, Repository!SetPhase
<1>3. /\ hist' \in [Slots -> History] /\ \A s \in Slots : s # slot => hist'[s] = hist[s]
      /\ hist'[slot].pending /\ hist'[slot].generation = block[slot]
      /\ pending_count' = Cardinality(Pending') /\ shadow_live' = Cardinality(Shadowed')
      /\ pending_count' \in Int /\ shadow_live' \in Int
  BY <1>2, MarkPendingIs
<1> USE DEF foregroundVars, signalVars, storeVars, preparedVars, callVars, tickVars, pickVars,
        Leased, Taking, Using
<1>4. Types' BY <1>1, <1>2, <1>3 DEF Types, WorkerPc, Phases
<1>5. Holding' BY <1>1, <1>2 DEF Types, Holding
<1>6. Versions' BY <1>1, <1>2 DEF Versions
<1>7. Synced' BY <1>1, <1>2 DEF Types, Synced, Installed, Flags
<1>8. \A s \in Slots : Condemned(s)' => Condemned(s)
  <2>1. \A s \in Slots : {store[s].generation, block[s]} \subseteq Nat BY <1>1 DEF Types, KvMemBlock
  <2>2. QED BY <1>1, <1>2, <2>1 DEF Types, Synced, Condemned, Installed
<1>9. Withdrawing'
  BY <1>1, <1>2, <1>8
  DEF Types, Withdrawing, LeasedStaysLive, DecisionCurrent, Installed, Flags, Withdrawn
<1>10. Marks'
  <2>1. PendingExact'
    BY <1>1, <1>2, <1>3
    DEF Types, Marks, PendingExact, Pending, Shadowed, Reclaimable, Slots
  <2>2. \A s \in Slots : {hist[s].generation, hist'[s].generation, block[s]} \subseteq Nat
    BY <1>1, <1>3 DEF Types, History
  <2>3. \A c \in cands : c.slot \in Slots /\ c.generation \in Nat BY <1>1 DEF Types, Candidate
  <2>4. \A s \in Slots : hist[s].generation <= hist'[s].generation /\ hist'[s].generation <= block[s]
    BY <1>1, <1>3, <2>2 DEF Marks
  <2>5. \A c \in cands : c.generation <= hist'[c.slot].generation
    BY <1>1, <2>2, <2>3, <2>4 DEF Marks
  <2>6. QED
    BY <1>1, <1>2, <1>3, <1>8, <2>1, <2>4, <2>5 DEF Types, Marks, Deciding, Withdrawn
<1>11. Budget' BY <1>2 DEF Budget, Deciding
<1>12. QED BY <1>4, <1>5, <1>6, <1>7, <1>9, <1>10, <1>11 DEF IInv

\* A released slot is free and no longer marked.
LEMMA ReleaseDoneKeeps == ASSUME IInv, ReleaseDone PROVE IInv'
<1>1. Types /\ Holding /\ Versions /\ Synced /\ Withdrawing /\ Marks BY DEF IInv
<1>2. /\ wpc = "callback" /\ wpc' = "loop" /\ phase[slot] = "Releasing"
      /\ phase' = [phase EXCEPT ![slot] = "Free"]
      /\ hist' = [hist EXCEPT ![slot].pending = FALSE] /\ pending_count' = pending_count - 1
      /\ UNCHANGED <<block, readers, issued, foregroundVars, snap, tickVars, cands, cand, slot, use,
                     shadow_live>>
  BY DEF ReleaseDone, Goto, Repository!Recycle, Repository!SetPhase
<1>3. slot \in Slots /\ hist \in [Slots -> History] BY <1>1 DEF Types
<1>4. /\ hist' \in [Slots -> History] /\ \A s \in Slots : s # slot => hist'[s] = hist[s]
      /\ ~hist'[slot].pending /\ hist'[slot].shadow = hist[slot].shadow
      /\ \A s \in Slots : hist'[s].generation = hist[s].generation
  BY <1>1, <1>2, SetPending
<1> USE DEF foregroundVars, signalVars, storeVars, preparedVars, callVars, tickVars, Leased, Taking,
        Using
<1>5. Types' BY <1>1, <1>2, <1>4 DEF Types, WorkerPc, Phases
<1>6. Holding' BY <1>1, <1>2 DEF Types, Holding
<1>7. Versions' BY <1>1, <1>2 DEF Versions
<1>8. Synced' BY <1>1, <1>2 DEF Types, Synced, Installed, Flags
<1>9. \A s \in Slots : Condemned(s)' => Condemned(s) /\ s # slot
  BY <1>1, <1>2 DEF Types, Condemned, Installed
<1>10. Withdrawing'
  BY <1>1, <1>2
  DEF Types, Withdrawing, LeasedStaysLive, DecisionCurrent, Condemned, Installed, Flags, Withdrawn
<1>11. Marks'
  <2>1. pending_count' = Cardinality(Pending') /\ shadow_live' = Cardinality(Shadowed')
    <3>1. Cardinality(Pending') = pending_count + Count(hist'[slot].pending) - Count(hist[slot].pending)
      BY <1>4, MarkedAt
    <3>2. Cardinality(Shadowed') = shadow_live + Count(hist'[slot].shadow) - Count(hist[slot].shadow)
      BY <1>4, MarkedAt
    <3>3. hist[slot].pending BY <1>1, <1>2 DEF Marks
    <3>4. QED BY <1>1, <1>2, <1>4, <3>1, <3>2, <3>3 DEF Types, Count
  <2>2. PendingExact'
    BY <1>1, <1>2, <1>4, <2>1
    DEF Types, Marks, PendingExact, Pending, Shadowed, Reclaimable, Slots
  <2>3. \A c \in cands : c.slot \in Slots BY <1>1 DEF Types, Candidate
  <2>4. QED
    BY <1>1, <1>2, <1>4, <1>9, <2>2, <2>3 DEF Types, Marks, Deciding, Withdrawn
<1>12. Budget' BY <1>2 DEF Budget, Deciding
<1>13. QED BY <1>5, <1>6, <1>7, <1>8, <1>10, <1>11, <1>12 DEF IInv

\* Every step of the worker.
LEMMA WorkerKeeps == ASSUME IInv, WorkerNext PROVE IInv'
  BY DecisionsKeep, SnapshotKeeps, PinSlotKeeps, PickPinKeeps, UnpinKeeps, RetireKeeps, RescueKeeps,
     CondemnKeeps, ConsumeScoresKeeps, AssessKeeps, VerifyShadowKeeps, ReleaseDeferredKeeps,
     ReleaseSealKeeps, ReleaseDoneKeeps
  DEF WorkerNext

-----------------------------------------------------------------------------
\* Every reachable state satisfies the invariant, whatever the foreground, the readers
\* and the worker do between each other's steps.
THEOREM GcInvariant == Spec => []IInv
<1>1. Init => IInv BY GcInit
<1>2. IInv /\ [Next]_vars => IInv'
  <2> SUFFICES ASSUME IInv, [Next]_vars PROVE IInv' OBVIOUS
  <2>1. CASE Next BY <2>1, ForegroundKeeps, WorkerKeeps DEF Next
  <2>2. CASE UNCHANGED vars
    <3>1. /\ UNCHANGED <<repositoryVars, meta, snap, slot, use, wpc, cands, fpc, fslot>>
          /\ UNCHANGED <<storeVars, historyVars>> /\ Types'
      BY <2>2 DEF IInv, Types, vars, repositoryVars, foregroundVars, workerVars, signalVars, storeVars,
                  preparedVars, callVars, controlVars, tickVars, pickVars, historyVars
    <3>2. UNCHANGED workerVars BY <2>2 DEF vars
    <3>3. QED BY <3>1, <3>2, BystanderKeeps DEF repositoryVars, storeVars
  <2>3. QED BY <2>1, <2>2
<1>3. QED BY <1>1, <1>2, PTL DEF Spec

\* A snapshot that snapshot() accepted is never a mix of two publications.
THEOREM SnapshotAtomicAlways == Spec => []SnapshotAtomic
<1>1. ASSUME IInv PROVE SnapshotAtomic
  <2>1. snap \in Metadata /\ meta[slot] \in Metadata BY <1>1 DEF IInv, Types
  <2>2. QED BY <1>1, <2>1 DEF IInv, Versions, SnapshotAtomic, Metadata, Using
<1>2. QED BY <1>1, GcInvariant, PTL

\* No block is freed on a stale decision.
THEOREM DecisionCurrentAlways == Spec => []DecisionCurrent
<1>1. IInv => DecisionCurrent BY DEF IInv, Withdrawing
<1>2. QED BY <1>1, GcInvariant, PTL

\* No lease is on a block the worker withdrew.
THEOREM LeasedStaysLiveAlways == Spec => []LeasedStaysLive
<1>1. IInv => LeasedStaysLive BY DEF IInv, Withdrawing
<1>2. QED BY <1>1, GcInvariant, PTL

\* pending_ and shadow_live_ are exact, and no mark is left behind.
THEOREM PendingExactAlways == Spec => []PendingExact
<1>1. IInv => PendingExact BY DEF IInv, Marks
<1>2. QED BY <1>1, GcInvariant, PTL

\* Only Condemn adds to the condemned blocks: the foreground, the readers ...
LEMMA ForegroundCondemnsNot ==
  ASSUME IInv, ForegroundNext \/ ReaderNext, NEW x \in Slots, Condemned(x)'
  PROVE  Condemned(x)
<1>1. Types BY DEF IInv
<1> USE LeasesApart
    DEF Types, KvMemBlock, Condemned, Installed, repositoryVars, storeVars, foregroundVars,
        Repository!Pin, Repository!Leave, Repository!SetPhase
<1>2. CASE \/ StoreEnd \/ SyncSkip \/ PublishSame \/ PublishOpen \/ PublishGeneration \/ PublishFlags
           \/ PublishClose \/ BeginStep \/ SubmitScores \/ StoreSubmitted \/ CommitRewind
           \/ AbandonRewind \/ \E p \in RewindTo : PrepareRewind(p)
           \/ \E s \in Slots : CaptureHole(s)
  <2>1. UNCHANGED <<repositoryVars, store>>
    BY <1>2 DEF StoreEnd, SyncSkip, PublishSame, PublishOpen, PublishGeneration, PublishFlags,
         PublishClose, BeginStep, SubmitScores, StoreSubmitted, CommitRewind, AbandonRewind,
         PrepareRewind, CaptureHole, Captures
  <2>2. QED BY <2>1
<1>3. CASE DropReservation \/ SyncUnpin \/ DropResident \/ TakeResident \/ DiscardResident
  BY <1>1, <1>3 DEF DropReservation, SyncUnpin, DropResident, TakeResident, DiscardResident
<1>4. CASE DropCaptured
  <2>1. PICK s \in Slots : Repository!Leave(s, Captured(s)) /\ UNCHANGED storeVars
    BY <1>1, <1>4, LeastIs DEF DropCaptured
  <2>2. QED BY <1>1, <2>1
<1>5. CASE SyncPin
  <2>1. PICK s \in Slots : Repository!Pin(s, Foreground) /\ UNCHANGED storeVars
    BY <1>1, <1>5, LeastIs DEF SyncPin
  <2>2. QED BY <1>1, <2>1
<1>6. CASE CommitAppend BY <1>1, <1>6 DEF CommitAppend, Repository!Publish
<1>7. CASE CancelAppend BY <1>1, <1>7 DEF CancelAppend, Repository!Abandon
<1>8. CASE CutHistory BY <1>1, <1>8 DEF CutHistory
<1>9. ASSUME NEW s \in Slots, PrepareAppend(s) PROVE Condemned(x)
  BY <1>1, <1>9 DEF PrepareAppend, Repository!Reserve
<1>10. ASSUME NEW s \in Slots, SetFlags(s) \/ Evict(s) \/ StageIn(s) PROVE Condemned(x)
  <2>1. PICK b, g, pc : Mutate(s, b, g, pc) BY <1>10 DEF SetFlags, Evict, StageIn
  <2>2. QED BY <1>1, <2>1 DEF Mutate
<1>11. ASSUME NEW s \in Slots, Capture(s) PROVE Condemned(x)
  BY <1>1, <1>11 DEF Capture, Captures
<1>12. ASSUME NEW s \in Slots, Discard(s) PROVE Condemned(x)
  BY <1>1, <1>12 DEF Discard, Repository!Withdraw
<1>13. ASSUME NEW r \in Readers, NEW s \in Slots, ReaderPin(r, s) \/ ReaderDrop(r, s)
       PROVE  Condemned(x)
  BY <1>1, <1>13 DEF ReaderPin, ReaderDrop
<1>14. QED
  BY <1>2, <1>3, <1>4, <1>5, <1>6, <1>7, <1>8, <1>9, <1>10, <1>11, <1>12, <1>13
  DEF ForegroundNext, ReaderNext

\* ... and every other step of the worker leave them as they are, or fewer.
LEMMA WorkerCondemnsNot ==
  ASSUME IInv, WorkerNext, ~Condemn, NEW x \in Slots, Condemned(x)'
  PROVE  Condemned(x)
<1>1. Types /\ Holding /\ Synced /\ Withdrawing BY DEF IInv
<1> USE LeasesApart
    DEF Types, Condemned, Installed, repositoryVars, storeVars, foregroundVars, Repository!Pin,
        Repository!Leave, Repository!SetPhase
<1>2. CASE \/ ConsumeScores \/ NoScores \/ StartTick \/ ScanSlot \/ EndScan \/ PinSlotFails
           \/ ReadVersion \/ ReadGeneration \/ ReadFlags \/ ReadAgain \/ AssessStale
           \/ AssessProtected \/ \E level \in {2, 3} : AssessCandidate(level)
           \/ \E c \in cands : PickSkip(c)
           \/ VerifyFails \/ VerifyShadow \/ VerifyDelete \/ RetireFails \/ Reprieve
           \/ ReleaseRetry \/ ReleaseReaders \/ ReleaseFails \/ EndTick
  <2>1. UNCHANGED <<repositoryVars, store>>
    BY <1>2 DEF ConsumeScores, NoScores, StartTick, ScanSlot, EndScan, PinSlotFails, ReadVersion,
         ReadGeneration, ReadFlags, ReadAgain, AssessStale, AssessProtected, AssessCandidate, Assesses,
         PickSkip, VerifyFails, VerifyShadow, VerifyDelete, RetireFails, Reprieve, ReleaseRetry,
         ReleaseReaders, ReleaseFails, EndTick
  <2>2. QED BY <2>1
<1>3. CASE PinSlot BY <1>1, <1>3 DEF PinSlot
<1>4. ASSUME NEW c \in cands, PickPin(c) PROVE Condemned(x)
  BY <1>1, <1>4 DEF PickPin, Picks, Candidate
<1>5. CASE Unpin
  BY <1>1, <1>5 DEF Unpin, Holding, Withdrawing, Withdrawn, Leased, Taking
<1>6. CASE RetireOnlyReader
  BY <1>1, <1>6 DEF RetireOnlyReader, OnlyReader, Repository!Withdraw
<1>7. CASE Rescue BY <1>1, <1>7 DEF Rescue, Repository!Restore
<1>8. CASE ReleaseSeal
  <2>1. \A s \in Slots : {store[s].generation, block[s]} \subseteq Nat BY <1>1 DEF KvMemBlock
  <2>2. QED BY <1>1, <1>8, <2>1 DEF ReleaseSeal, Repository!Seal, Synced
<1>9. CASE ReleaseDone BY <1>1, <1>9 DEF ReleaseDone, Repository!Recycle
<1>10. QED BY <1>2, <1>3, <1>4, <1>5, <1>6, <1>7, <1>8, <1>9 DEF WorkerNext

\* The worker condemns a block only below the high watermark: what it condemned before is
\* pending, and since the pick loop counted them no slot became free.
THEOREM NoOvershootAlways == Spec => NoOvershoot
<1>1. ASSUME IInv, [Next]_vars
      PROVE  [~(CondemnedSlots' \subseteq CondemnedSlots) =>
                Ready + Cardinality(CondemnedSlots) < ReadyHigh]_vars
  <2> SUFFICES ASSUME Next, ~(CondemnedSlots' \subseteq CondemnedSlots)
               PROVE  Ready + Cardinality(CondemnedSlots) < ReadyHigh
    BY <1>1
  <2>1. PICK x \in Slots : Condemned(x)' /\ ~Condemned(x) BY DEF CondemnedSlots, Slots
  <2>2. Condemn BY <1>1, <2>1, ForegroundCondemnsNot, WorkerCondemnsNot DEF Next
  <2>3. wpc = "recheck" BY <2>2 DEF Condemn
  <2>4. CondemnedSlots \subseteq Pending /\ Pending \in SUBSET Slots
    BY <1>1, <2>3 DEF IInv, Marks, CondemnedSlots, Pending
  <2>5. Ready + pending_count + shadow_live < ReadyHigh BY <1>1, <2>3 DEF IInv, Budget, Deciding
  <2>6. pending_count = Cardinality(Pending) /\ shadow_live = Cardinality(Shadowed)
    BY <1>1 DEF IInv, Marks, PendingExact, Pending, Shadowed
  <2>7. /\ IsFiniteSet(Pending) /\ Cardinality(Pending) \in Nat /\ Cardinality(Shadowed) \in Nat
        /\ Cardinality(CondemnedSlots) \in Nat /\ Ready \in Nat
    BY <2>4, SlotsFinite DEF Shadowed, Ready
  <2>8. Cardinality(CondemnedSlots) <= Cardinality(Pending) BY <2>4, <2>7, FS_Subset
  <2>9. QED BY <2>5, <2>6, <2>7, <2>8, ConfigAssumption
<1>2. QED BY <1>1, GcInvariant, PTL DEF Spec, NoOvershoot

=============================================================================
