----------------------- MODULE KvMemRepositoryProofs -----------------------
(***************************************************************************)
(* Proofs about the slot directory.  IInv is the inductive invariant: each *)
(* of its conjuncts has a lemma XStep that all steps preserve it, one case *)
(* per action; the properties the model checker tests follow from IInv,    *)
(* and so does the refinement of BlockLifecycle.                           *)
(***************************************************************************)
EXTENDS KvMemRepository, FiniteSetTheorems, TLAPS

(* Adding or dropping a reference keeps a control word a control word, the *)
(* carry into the phase bits included.                                     *)
LEMMA WordOps ==
    ASSUME NEW w \in Word
    PROVE  AddRef(w) \in Word /\ DropRef(w) \in Word
  <1>1. NextPhase \in [Phase -> Phase] /\ PrevPhase \in [Phase -> Phase]
    BY DEF NextPhase, PrevPhase, Phase
  <1>2. AddRef(w) \in Word
    BY <1>1, RefMaskAssumption DEF AddRef, state, Word
  <1>3. DropRef(w) \in Word
    BY <1>1, RefMaskAssumption DEF DropRef, state, Word
  <1>. QED  BY <1>2, <1>3

(* Below the mask, acquire's increment changes the count and leaves the    *)
(* phase.                                                                  *)
LEMMA AddRefCount ==
    ASSUME NEW w \in Word, w.refs <= RefMask, w.refs # RefMask
    PROVE  AddRef(w) = state(w.phase, w.refs + 1)
  BY RefMaskAssumption DEF AddRef, Word

(* The initial word and the empty handle are typed, and slot 0 exists.     *)
LEMMA ConstantTypes ==
    /\ \A p \in Phase, n \in Nat : state(p, n) \in Word
    /\ NoHandle \in Handle
    /\ 0 \in Slots
  BY CapacityAssumption DEF state, Word, NoHandle, Handle, Slots

(* The constructor's state is typed: ready[i] = i for the first capacity   *)
(* positions, tail = capacity.                                             *)
LEMMA TypeInit == Init => TypeOK
  <1> SUFFICES ASSUME Init PROVE TypeOK
    OBVIOUS
  <1>1. state("Free", 0) \in Word
    BY ConstantTypes DEF Phase
  <1>2. ready \in [Positions -> Slots] /\ head \in Positions /\ tail \in Positions
    BY CapacityAssumption DEF Init, Positions, Slots
  <1>. QED  BY <1>1, <1>2, ConstantTypes DEF Init, TypeOK, LeaseState, AppendPc, ReclaimPc

(* Every step of the producer, a lease owner or a reclaimer keeps the      *)
(* types; the ring indices stay inside the capacity + 1 positions (next).  *)
LEMMA TypeStep == TypeOK /\ [Next]_vars => TypeOK'
  <1> SUFFICES ASSUME TypeOK, [Next]_vars PROVE TypeOK'
    OBVIOUS
  <1>0. next(head) \in Positions /\ next(tail) \in Positions
    BY CapacityAssumption DEF TypeOK, next, Positions
  <1>w. \A w \in Word : AddRef(w) \in Word /\ DropRef(w) \in Word
    BY WordOps
  <1> USE DEF TypeOK, repoVars, ringVars, leaseVars, appendVars, callVars, reclaimVars
  <1>1. CASE Appender
    <2>1. ASSUME NEW n \in 1 .. Capacity, Admit(n) PROVE TypeOK'
      BY <2>1, CapacityAssumption DEF Admit
    <2>2. CASE Exhausted
      BY <2>2 DEF Exhausted
    <2>3. CASE PopSlot
      BY <2>3 DEF PopSlot, AppendPc
    <2>4. CASE PopAdvance
      BY <2>4, <1>0 DEF PopAdvance, AppendPc
    <2>5. CASE StoreRecord
      BY <2>5 DEF StoreRecord, AppendPc
    <2>6. ASSUME NEW l \in Leases, StoreWriting(l) PROVE TypeOK'
      <3>1. state("Writing", 1) \in Word
        BY DEF state, Word, Phase
      <3>. QED  BY <2>6, <3>1 DEF StoreWriting, AppendPc, LeaseState, Handle
    <2>7. ASSUME NEW l \in Leases, StoreGeneration(l) PROVE TypeOK'
      BY <2>7 DEF StoreGeneration, AppendPc, LeaseState
    <2>. QED  BY <1>1, <2>1, <2>2, <2>3, <2>4, <2>5, <2>6, <2>7 DEF Appender
  <1>2. ASSUME NEW l \in Leases, LeaseOwner(l) PROVE TypeOK'
    <2>0. handle[l].slot \in Slots
      BY DEF Handle
    <2>1. CASE Commit(l)
      BY <2>1, <2>0 DEF Commit, state, Word, Phase, LeaseState
    <2>2. CASE Cancel(l)
      BY <2>2, <2>0 DEF Cancel, state, Word, Phase, LeaseState
    <2>3. CASE Confirm(l)
      BY <2>3, <2>0 DEF Confirm, LeaseState, Handle
    <2>4. CASE Reset(l)
      <3>1. NoHandle \in Handle
        BY CapacityAssumption DEF NoHandle, Handle, Slots
      <3>. QED  BY <2>4, <2>0, <1>w, <3>1 DEF Reset, LeaseState
    <2>5. CASE Retire(l)
      BY <2>5, <2>0 DEF Retire, state, Word, Phase, LeaseState
    <2>6. CASE RetireIfOnlyReader(l)
      BY <2>6, <2>0 DEF RetireIfOnlyReader, RetireOnlyReader, state, Word, Phase, LeaseState
    <2>7. CASE Rescue(l)
      BY <2>7, <2>0 DEF Rescue, state, Word, Phase
    <2>8. ASSUME NEW s \in Slots, NEW g \in Nat, NEW then \in {"held", "retire", "retire_only"},
                 Acquire(l, s, g, then)
          PROVE  TypeOK'
      BY <2>8, <1>w DEF Acquire, LeaseState, Handle
    <2>9. ASSUME NEW m \in Leases, Clone(l, m) PROVE TypeOK'
      BY <2>9, <2>0, <1>w DEF Clone, LeaseState
    <2>. QED  BY <1>2, <2>1, <2>2, <2>3, <2>4, <2>5, <2>6, <2>7, <2>8, <2>9 DEF LeaseOwner
  <1>3. ASSUME NEW r \in Reclaimers, Reclaimer(r) PROVE TypeOK'
    <2>0. rslot[r] \in Slots
      OBVIOUS
    <2> USE DEF ReclaimPc, Goto
    <2>1. ASSUME NEW s \in Slots, ScanPhase(r, s) PROVE TypeOK'
      BY <2>1 DEF ScanPhase
    <2>2. ASSUME NEW s \in Slots, NEW g \in Nat, CallReclaim(r, s, g) PROVE TypeOK'
      BY <2>2 DEF CallReclaim
    <2>3. CASE ScanGeneration(r)
      BY <2>3 DEF ScanGeneration
    <2>4. CASE TakeOwner(r)
      BY <2>4 DEF TakeOwner
    <2>5. CASE LoadPrior(r)
      BY <2>5 DEF LoadPrior
    <2>6. CASE CheckGeneration(r)
      BY <2>6 DEF CheckGeneration
    <2>7. CASE TakeReleasing(r)
      BY <2>7, <2>0 DEF TakeReleasing, state, Word, Phase
    <2>8. CASE ReleaseDone(r)
      BY <2>8 DEF ReleaseDone
    <2>9. CASE ReleaseDeferred(r)
      BY <2>9 DEF ReleaseDeferred
    <2>10. CASE StoreFree(r)
      BY <2>10, <2>0 DEF StoreFree, state, Word, Phase
    <2>11. CASE PushSlot(r)
      BY <2>11, <2>0 DEF PushSlot
    <2>12. CASE PushPublish(r)
      BY <2>12, <1>0 DEF PushPublish
    <2>13. CASE Unlock(r)
      <3>1. state("Free", 0) \in Word
        BY ConstantTypes DEF Phase
      <3>. QED  BY <2>13, <3>1, ConstantTypes DEF Unlock
    <2>. QED  BY <1>3, <2>1, <2>2, <2>3, <2>4, <2>5, <2>6, <2>7, <2>8, <2>9, <2>10, <2>11,
                 <2>12, <2>13 DEF Reclaimer, ReclaimStep
  <1>4. CASE UNCHANGED vars
    BY <1>4 DEF vars
  <1>. QED  BY <1>1, <1>2, <1>3, <1>4 DEF Next

(* Type correctness: words keep a legal phase, ring indices stay in the    *)
(* ring and handles name slots, for every capacity and any number of       *)
(* leases and reclaimers.                                                  *)
THEOREM TypeCorrect == Spec => []TypeOK
  BY TypeInit, TypeStep, PTL DEF Spec

-----------------------------------------------------------------------------
(* Finitely many lease objects hold a slot.                                *)
LEMMA HoldersFinite == \A s \in Slots : IsFiniteSet(Holders(s))
  BY LeasesAssumption, FS_Subset DEF Holders

(* A count is zero exactly when nobody holds the slot.                     *)
LEMMA HoldersCount ==
    ASSUME TypeOK, RefsCountLeases, NEW s \in Slots
    PROVE  /\ control[s].refs = 0 => Holders(s) = {}
           /\ Holders(s) # {} => control[s].refs > 0
  <1>1. IsFiniteSet(Holders(s))
    BY HoldersFinite
  <1>2. Cardinality(Holders(s)) = 0 <=> Holders(s) = {}
    BY <1>1, FS_EmptySet
  <1>3. control[s].refs \in Nat
    BY DEF TypeOK, Word
  <1>. QED  BY <1>2, <1>3 DEF RefsCountLeases

(* A step that moves no lease and no count keeps the counts exact.         *)
LEMMA CountSame ==
    ASSUME RefsCountLeases,
           \A l \in Leases : (lstate'[l] = "empty" <=> lstate[l] = "empty")
                             /\ handle'[l].slot = handle[l].slot,
           \A s \in Slots : control'[s].refs = control[s].refs
    PROVE  RefsCountLeases'
  <1>1. \A s \in Slots : Holders(s)' = Holders(s)
    BY DEF Holders
  <1>. QED  BY <1>1 DEF RefsCountLeases

(* acquire: one more holder, one more reference.                           *)
LEMMA CountAdd ==
    ASSUME RefsCountLeases, NEW s \in Slots, NEW l \in Leases,
           lstate[l] = "empty", lstate'[l] # "empty", handle'[l].slot = s,
           \A m \in Leases \ {l} : lstate'[m] = lstate[m] /\ handle'[m] = handle[m],
           control'[s].refs = control[s].refs + 1,
           \A t \in Slots \ {s} : control'[t] = control[t]
    PROVE  RefsCountLeases'
  <1>1. \A t \in Slots \ {s} : Holders(t)' = Holders(t)
    BY DEF Holders
  <1>2. Holders(s)' = Holders(s) \cup {l} /\ l \notin Holders(s)
    BY DEF Holders
  <1>3. Cardinality(Holders(s)') = Cardinality(Holders(s)) + 1
    BY <1>2, HoldersFinite, FS_AddElement
  <1>. QED  BY <1>1, <1>3 DEF RefsCountLeases

(* Lease::reset: one holder less, one reference less.                      *)
LEMMA CountDrop ==
    ASSUME TypeOK, RefsCountLeases, NEW s \in Slots, NEW l \in Leases,
           lstate[l] # "empty", handle[l].slot = s, lstate'[l] = "empty",
           \A m \in Leases \ {l} : lstate'[m] = lstate[m] /\ handle'[m] = handle[m],
           control'[s] = DropRef(control[s]),
           \A t \in Slots \ {s} : control'[t] = control[t]
    PROVE  RefsCountLeases'
  <1>1. \A t \in Slots \ {s} : Holders(t)' = Holders(t)
    BY DEF Holders
  <1>2. Holders(s)' = Holders(s) \ {l} /\ l \in Holders(s)
    BY DEF Holders
  <1>3. Cardinality(Holders(s)') = Cardinality(Holders(s)) - 1
    BY <1>2, HoldersFinite, FS_RemoveElement
  <1>4. control[s].refs > 0 /\ control[s].refs \in Nat
    BY <1>2, HoldersCount DEF TypeOK, Word
  <1>5. control'[s].refs = control[s].refs - 1
    BY <1>4 DEF DropRef, state
  <1>. QED  BY <1>1, <1>3, <1>5 DEF RefsCountLeases

(* Every step keeps the counts exact.  try_reserve overwrites the word     *)
(* with count 1, which is right because a Free slot has no holder.         *)
LEMMA CountStep == IInv /\ [Next]_vars => RefsCountLeases'
  <1> SUFFICES ASSUME IInv, [Next]_vars PROVE RefsCountLeases'
    OBVIOUS
  <1> USE DEF IInv, TypeOK, repoVars, ringVars, leaseVars, appendVars, callVars, reclaimVars
  <1>1. CASE Appender
    <2>1. ASSUME NEW n \in 1 .. Capacity, Admit(n) PROVE RefsCountLeases'
      BY <2>1, CountSame DEF Admit
    <2>2. CASE Exhausted
      BY <2>2, CountSame DEF Exhausted
    <2>3. CASE PopSlot
      BY <2>3, CountSame DEF PopSlot
    <2>4. CASE PopAdvance
      BY <2>4, CountSame DEF PopAdvance
    <2>5. CASE StoreRecord
      BY <2>5, CountSame DEF StoreRecord
    <2>6. ASSUME NEW l \in Leases, StoreWriting(l) PROVE RefsCountLeases'
      <3>1. control[aslot].refs = 0
        BY <2>6 DEF StoreWriting, AppendInv, SlotInv
      <3>2. control'[aslot].refs = control[aslot].refs + 1
        BY <2>6, <3>1 DEF StoreWriting, state
      <3>3. \A t \in Slots \ {aslot} : control'[t] = control[t]
        BY <2>6 DEF StoreWriting
      <3>4. /\ lstate[l] = "empty" /\ lstate'[l] # "empty" /\ handle'[l].slot = aslot
            /\ \A m \in Leases \ {l} : lstate'[m] = lstate[m] /\ handle'[m] = handle[m]
        BY <2>6 DEF StoreWriting
      <3>. QED  BY <3>2, <3>3, <3>4, CountAdd
    <2>7. ASSUME NEW l \in Leases, StoreGeneration(l) PROVE RefsCountLeases'
      BY <2>7, CountSame DEF StoreGeneration
    <2>. QED  BY <1>1, <2>1, <2>2, <2>3, <2>4, <2>5, <2>6, <2>7 DEF Appender
  <1>2. ASSUME NEW l \in Leases, LeaseOwner(l) PROVE RefsCountLeases'
    <2>0. handle[l].slot \in Slots
      BY DEF Handle
    <2>1. CASE Commit(l)
      BY <2>1, <2>0, CountSame DEF Commit, state
    <2>2. CASE Cancel(l)
      BY <2>2, <2>0, CountSame DEF Cancel, state
    <2>3. CASE Confirm(l)
      <3>1. \A m \in Leases : (lstate'[m] = "empty" <=> lstate[m] = "empty")
                              /\ handle'[m].slot = handle[m].slot
        BY <2>3 DEF Confirm
      <3>. QED  BY <2>3, <3>1, CountSame DEF Confirm
    <2>4. CASE Reset(l)
      <3>1. /\ lstate[l] # "empty" /\ lstate'[l] = "empty"
            /\ \A m \in Leases \ {l} : lstate'[m] = lstate[m] /\ handle'[m] = handle[m]
        BY <2>4 DEF Reset
      <3>2. /\ control'[handle[l].slot] = DropRef(control[handle[l].slot])
            /\ \A t \in Slots \ {handle[l].slot} : control'[t] = control[t]
        BY <2>4, <2>0 DEF Reset
      <3>. QED  BY <3>1, <3>2, <2>0, CountDrop
    <2>5. CASE Retire(l)
      BY <2>5, <2>0, CountSame DEF Retire, state
    <2>6. CASE RetireIfOnlyReader(l)
      BY <2>6, <2>0, CountSame DEF RetireIfOnlyReader, RetireOnlyReader, state
    <2>7. CASE Rescue(l)
      BY <2>7, <2>0, CountSame DEF Rescue, state
    <2>8. ASSUME NEW s \in Slots, NEW g \in Nat, NEW then \in {"held", "retire", "retire_only"},
                 Acquire(l, s, g, then)
          PROVE  RefsCountLeases'
      <3>0. control[s] \in Word /\ control[s].refs <= RefMask /\ control[s].refs # RefMask
        BY <2>8 DEF Acquire, acquirable, SlotInv
      <3>1. control'[s].refs = control[s].refs + 1
        BY <2>8, <3>0, AddRefCount DEF Acquire, state
      <3>2. \A t \in Slots \ {s} : control'[t] = control[t]
        BY <2>8 DEF Acquire
      <3>3. /\ lstate[l] = "empty" /\ lstate'[l] # "empty" /\ handle'[l].slot = s
            /\ \A m \in Leases \ {l} : lstate'[m] = lstate[m] /\ handle'[m] = handle[m]
        BY <2>8 DEF Acquire
      <3>. QED  BY <3>1, <3>2, <3>3, CountAdd
    <2>9. ASSUME NEW m \in Leases, Clone(l, m) PROVE RefsCountLeases'
      <3> DEFINE s == handle[l].slot
      <3>0. control[s] \in Word /\ control[s].refs <= RefMask /\ control[s].refs # RefMask
        BY <2>9, <2>0 DEF Clone, acquirable, SlotInv
      <3>1. control'[s].refs = control[s].refs + 1
        BY <2>9, <2>0, <3>0, AddRefCount DEF Clone, state
      <3>2. \A t \in Slots \ {s} : control'[t] = control[t]
        BY <2>9 DEF Clone
      <3>3. /\ lstate[m] = "empty" /\ lstate'[m] # "empty" /\ handle'[m].slot = s
            /\ \A k \in Leases \ {m} : lstate'[k] = lstate[k] /\ handle'[k] = handle[k]
        BY <2>9 DEF Clone
      <3>. QED  BY <2>0, <3>1, <3>2, <3>3, CountAdd
    <2>. QED  BY <1>2, <2>1, <2>2, <2>3, <2>4, <2>5, <2>6, <2>7, <2>8, <2>9 DEF LeaseOwner
  <1>3. ASSUME NEW r \in Reclaimers, Reclaimer(r) PROVE RefsCountLeases'
    <2>0. UNCHANGED <<lstate, handle>>
      BY <1>3 DEF Reclaimer, ReclaimStep, ScanPhase, CallReclaim, ScanGeneration, TakeOwner,
         LoadPrior, CheckGeneration, TakeReleasing, ReleaseDone, ReleaseDeferred, StoreFree,
         PushSlot, PushPublish, Unlock
    <2>1. CASE TakeReleasing(r)
      <3>1. \A s \in Slots : control'[s].refs = control[s].refs
        BY <2>1 DEF TakeReleasing, ReclaimInv, state
      <3>. QED  BY <2>0, <3>1, CountSame
    <2>2. CASE StoreFree(r)
      <3>1. \A s \in Slots : control'[s].refs = control[s].refs
        BY <2>2 DEF StoreFree, ReclaimInv, state
      <3>. QED  BY <2>0, <3>1, CountSame
    <2>3. CASE UNCHANGED control
      BY <2>0, <2>3, CountSame
    <2>4. UNCHANGED control \/ TakeReleasing(r) \/ StoreFree(r)
      BY <1>3 DEF Reclaimer, ReclaimStep, ScanPhase, CallReclaim, ScanGeneration, TakeOwner,
         LoadPrior, CheckGeneration, ReleaseDone, ReleaseDeferred, PushSlot, PushPublish, Unlock
    <2>. QED  BY <2>1, <2>2, <2>3, <2>4
  <1>4. CASE UNCHANGED vars
    BY <1>4, CountSame DEF vars
  <1>. QED  BY <1>1, <1>2, <1>3, <1>4 DEF Next

(* Every step keeps what the phase says of count, bundle and record.       *)
LEMMA SlotStep == IInv /\ [Next]_vars => SlotInv'
  <1> SUFFICES ASSUME IInv, [Next]_vars PROVE SlotInv'
    OBVIOUS
  <1> USE DEF IInv, TypeOK, repoVars, ringVars, leaseVars, appendVars, callVars, reclaimVars
  <1>1. CASE Appender
    <2>1. ASSUME NEW n \in 1 .. Capacity, Admit(n) PROVE SlotInv'
      BY <2>1 DEF Admit, SlotInv, Building
    <2>2. CASE Exhausted
      BY <2>2 DEF Exhausted, SlotInv, Building
    <2>3. CASE PopSlot
      BY <2>3 DEF PopSlot, SlotInv, Building
    <2>4. CASE PopAdvance
      BY <2>4 DEF PopAdvance, SlotInv, Building
    <2>5. CASE StoreRecord
      BY <2>5 DEF StoreRecord, SlotInv, Building
    <2>6. ASSUME NEW l \in Leases, StoreWriting(l) PROVE SlotInv'
      BY <2>6, RefMaskAssumption DEF StoreWriting, SlotInv, Building, state
    <2>7. ASSUME NEW l \in Leases, StoreGeneration(l) PROVE SlotInv'
      BY <2>7 DEF StoreGeneration, SlotInv, Building, AppendInv
    <2>. QED  BY <1>1, <2>1, <2>2, <2>3, <2>4, <2>5, <2>6, <2>7 DEF Appender
  <1>2. ASSUME NEW l \in Leases, LeaseOwner(l) PROVE SlotInv'
    <2>0. handle[l].slot \in Slots
      BY DEF Handle
    <2>h. lstate[l] # "empty" => control[handle[l].slot].refs > 0
      BY <2>0, HoldersCount DEF Holders
    <2>1. CASE Commit(l)
      BY <2>1, <2>0 DEF Commit, SlotInv, Building, state
    <2>2. CASE Cancel(l)
      BY <2>2, <2>0 DEF Cancel, SlotInv, Building, state
    <2>3. CASE Confirm(l)
      BY <2>3 DEF Confirm, SlotInv, Building
    <2>4. CASE Reset(l)
      <3>1. control[handle[l].slot].refs \in Nat
        BY <2>0 DEF Word
      <3>2. DropRef(control[handle[l].slot])
              = state(control[handle[l].slot].phase, control[handle[l].slot].refs - 1)
        BY <2>4, <2>h DEF Reset, DropRef
      <3>. QED  BY <2>4, <2>0, <2>h, <3>1, <3>2, RefMaskAssumption DEF Reset, SlotInv, Building, state
    <2>5. CASE Retire(l)
      BY <2>5, <2>0 DEF Retire, SlotInv, Building, state
    <2>6. CASE RetireIfOnlyReader(l)
      BY <2>6, <2>0 DEF RetireIfOnlyReader, RetireOnlyReader, SlotInv, Building, state
    <2>7. CASE Rescue(l)
      BY <2>7, <2>0 DEF Rescue, SlotInv, Building, state
    <2>8. ASSUME NEW s \in Slots, NEW g \in Nat, NEW then \in {"held", "retire", "retire_only"},
                 Acquire(l, s, g, then)
          PROVE  SlotInv'
      <3>0. control[s] \in Word /\ control[s].refs <= RefMask /\ control[s].refs # RefMask
        BY <2>8 DEF Acquire, acquirable, SlotInv
      <3>1. AddRef(control[s]) = state("Live", control[s].refs + 1)
        BY <2>8, <3>0, AddRefCount DEF Acquire, acquirable
      <3>2. control[s].refs \in Nat /\ control[s].phase = "Live"
        BY <2>8 DEF Word, Acquire, acquirable
      <3>3. control'[s].phase = "Live" /\ control'[s].refs <= RefMask
        BY <2>8, <3>0, <3>1, <3>2, RefMaskAssumption DEF Acquire, state
      <3>4. /\ \A t \in Slots \ {s} : control'[t] = control[t]
            /\ UNCHANGED <<generation, record, bundle, appendVars>>
        BY <2>8 DEF Acquire
      <3>. QED  BY <3>2, <3>3, <3>4 DEF SlotInv, Building
    <2>9. ASSUME NEW m \in Leases, Clone(l, m) PROVE SlotInv'
      <3> DEFINE s == handle[l].slot
      <3>0. control[s] \in Word /\ control[s].refs <= RefMask /\ control[s].refs # RefMask
        BY <2>9, <2>0 DEF Clone, acquirable, SlotInv
      <3>1. AddRef(control[s]) = state(control[s].phase, control[s].refs + 1)
        BY <3>0, AddRefCount
      <3>2. control[s].refs \in Nat /\ control[s].phase \notin {"Free", "Releasing"}
        BY <2>9, <2>0 DEF Word, Clone, acquirable
      <3>3. control'[s].phase = control[s].phase /\ control'[s].refs <= RefMask
        BY <2>9, <2>0, <3>0, <3>1, <3>2, RefMaskAssumption DEF Clone, state
      <3>4. /\ \A t \in Slots \ {s} : control'[t] = control[t]
            /\ UNCHANGED <<generation, record, bundle, appendVars>>
        BY <2>9 DEF Clone
      <3>. QED  BY <3>2, <3>3, <3>4 DEF SlotInv, Building
    <2>. QED  BY <1>2, <2>1, <2>2, <2>3, <2>4, <2>5, <2>6, <2>7, <2>8, <2>9 DEF LeaseOwner
  <1>3. ASSUME NEW r \in Reclaimers, Reclaimer(r) PROVE SlotInv'
    <2>1. CASE TakeReleasing(r)
      BY <2>1, RefMaskAssumption DEF TakeReleasing, ReclaimInv, SlotInv, Building, state
    <2>2. CASE ReleaseDone(r)
      BY <2>2 DEF ReleaseDone, ReclaimInv, SlotInv, Building, state
    <2>3. CASE ReleaseDeferred(r)
      BY <2>3 DEF ReleaseDeferred, ReclaimInv, SlotInv, Building, state
    <2>4. CASE StoreFree(r)
      BY <2>4, RefMaskAssumption DEF StoreFree, ReclaimInv, SlotInv, Building, state
    <2>5. CASE UNCHANGED <<repoVars, appendVars>>
      BY <2>5 DEF SlotInv, Building
    <2>6. \/ UNCHANGED <<repoVars, appendVars>>
          \/ TakeReleasing(r) \/ ReleaseDone(r) \/ ReleaseDeferred(r) \/ StoreFree(r)
      BY <1>3 DEF Reclaimer, ReclaimStep, ScanPhase, CallReclaim, ScanGeneration, TakeOwner,
         LoadPrior, CheckGeneration, PushSlot, PushPublish, Unlock
    <2>. QED  BY <2>1, <2>2, <2>3, <2>4, <2>5, <2>6
  <1>4. CASE UNCHANGED vars
    BY <1>4 DEF vars, SlotInv, Building
  <1>. QED  BY <1>1, <1>2, <1>3, <1>4 DEF Next

(* Every step keeps what leases know: the record a confirmed lease names   *)
(* is still in its slot, because a slot is rewritten only when it is Free. *)
LEMMA LeaseStep == IInv /\ [Next]_vars => LeaseInv'
  <1> SUFFICES ASSUME IInv, [Next]_vars PROVE LeaseInv'
    OBVIOUS
  <1> USE DEF IInv, TypeOK, repoVars, ringVars, leaseVars, appendVars, callVars, reclaimVars
  <1>s. \A m \in Leases : handle[m].slot \in Slots
    BY DEF Handle
  <1>1. CASE Appender
    <2>1. ASSUME NEW n \in 1 .. Capacity, Admit(n) PROVE LeaseInv'
      BY <2>1 DEF Admit, LeaseInv, Building, Confirmed
    <2>2. CASE Exhausted
      BY <2>2 DEF Exhausted, LeaseInv, Building, Confirmed
    <2>3. CASE PopSlot
      BY <2>3 DEF PopSlot, LeaseInv, Building, Confirmed
    <2>4. CASE PopAdvance
      BY <2>4 DEF PopAdvance, LeaseInv, Building, Confirmed
    <2>5. CASE StoreRecord
      BY <2>5, <1>s DEF StoreRecord, LeaseInv, Building, Confirmed
    <2>6. ASSUME NEW l \in Leases, StoreWriting(l) PROVE LeaseInv'
      <3>1. Holders(aslot) = {}
        BY <2>6, HoldersCount DEF StoreWriting, AppendInv, SlotInv
      <3>2. \A m \in Leases : lstate[m] # "empty" => handle[m].slot # aslot
        BY <3>1 DEF Holders
      <3>3. \A m \in Leases : lstate[m] # "reserving"
        BY <2>6 DEF StoreWriting, LeaseInv, Building
      <3>. QED  BY <2>6, <3>2, <3>3, <1>s DEF StoreWriting, LeaseInv, Building, Confirmed, state
    <2>7. ASSUME NEW l \in Leases, StoreGeneration(l) PROVE LeaseInv'
      <3>1. handle[l].slot = aslot /\ handle[l].generation = sequence
        BY <2>7 DEF StoreGeneration, LeaseInv, Building
      <3>2. record[aslot] = sequence /\ control[aslot].phase = "Writing"
        BY <2>7 DEF StoreGeneration, AppendInv
      <3>3. \A m \in Leases : lstate[m] = "reserving" => m = l
        BY <2>7, <3>1 DEF StoreGeneration, LeaseInv, Building
      <3>. QED  BY <2>7, <3>1, <3>2, <3>3, <1>s DEF StoreGeneration, LeaseInv, Building, Confirmed
    <2>. QED  BY <1>1, <2>1, <2>2, <2>3, <2>4, <2>5, <2>6, <2>7 DEF Appender
  <1>2. ASSUME NEW l \in Leases, LeaseOwner(l) PROVE LeaseInv'
    <2>b. lstate[l] \notin {"empty", "reserving"} => ~Building(handle[l].slot)
      BY DEF LeaseInv
    <2>1. CASE Commit(l)
      BY <2>1, <2>b, <1>s DEF Commit, LeaseInv, Building, Confirmed, state
    <2>2. CASE Cancel(l)
      BY <2>2, <2>b, <1>s DEF Cancel, LeaseInv, Building, Confirmed, state
    <2>3. CASE Confirm(l)
      BY <2>3, <2>b, <1>s DEF Confirm, LeaseInv, Building, Confirmed
    <2>4. CASE Reset(l)
      <3>0. control[handle[l].slot].refs > 0
        BY <2>4, <1>s, HoldersCount DEF Holders, Reset
      <3>1. \A s \in Slots : control'[s].phase = control[s].phase
        BY <2>4, <3>0, <1>s DEF Reset, DropRef, state
      <3>. QED  BY <2>4, <3>1, <1>s DEF Reset, LeaseInv, Building, Confirmed
    <2>5. CASE Retire(l)
      BY <2>5, <2>b, <1>s DEF Retire, LeaseInv, Building, Confirmed, state
    <2>6. CASE RetireIfOnlyReader(l)
      BY <2>6, <2>b, <1>s DEF RetireIfOnlyReader, RetireOnlyReader, LeaseInv, Building,
         Confirmed, state
    <2>7. CASE Rescue(l)
      BY <2>7, <1>s DEF Rescue, LeaseInv, Building, Confirmed, state
    <2>8. ASSUME NEW s \in Slots, NEW g \in Nat, NEW then \in {"held", "retire", "retire_only"},
                 Acquire(l, s, g, then)
          PROVE  LeaseInv'
      <3>0. control[s] \in Word /\ control[s].refs <= RefMask /\ control[s].refs # RefMask
        BY <2>8 DEF Acquire, acquirable, SlotInv
      <3>1. \A t \in Slots : control'[t].phase = control[t].phase
        BY <2>8, <3>0, AddRefCount DEF Acquire, state
      <3>2. ~Building(s)
        BY <2>8 DEF Acquire, acquirable, Building, AppendInv
      <3>. QED  BY <2>8, <3>1, <3>2, <1>s DEF Acquire, LeaseInv, Building, Confirmed
    <2>9. ASSUME NEW m \in Leases, Clone(l, m) PROVE LeaseInv'
      <3> DEFINE s == handle[l].slot
      <3>0. control[s] \in Word /\ control[s].refs <= RefMask /\ control[s].refs # RefMask
        BY <2>9, <1>s DEF Clone, acquirable, SlotInv
      <3>1. \A t \in Slots : control'[t].phase = control[t].phase
        BY <2>9, <3>0, <1>s, AddRefCount DEF Clone, state
      <3>2. ~Building(s)
        BY <2>9, <2>b DEF Clone
      <3>. QED  BY <2>9, <3>1, <3>2, <1>s DEF Clone, LeaseInv, Building, Confirmed
    <2>. QED  BY <1>2, <2>1, <2>2, <2>3, <2>4, <2>5, <2>6, <2>7, <2>8, <2>9 DEF LeaseOwner
  <1>3. ASSUME NEW r \in Reclaimers, Reclaimer(r) PROVE LeaseInv'
    <2>0. UNCHANGED <<leaseVars, record, appendVars, sequence>>
      BY <1>3 DEF Reclaimer, ReclaimStep, ScanPhase, CallReclaim, ScanGeneration, TakeOwner,
         LoadPrior, CheckGeneration, TakeReleasing, ReleaseDone, ReleaseDeferred, StoreFree,
         PushSlot, PushPublish, Unlock
    <2>1. \A s \in Slots : control[s].phase = "Writing" => control'[s].phase = "Writing"
      <3>1. CASE TakeReleasing(r)
        BY <3>1 DEF TakeReleasing, ReclaimInv
      <3>2. CASE StoreFree(r)
        BY <3>2 DEF StoreFree, ReclaimInv, state
      <3>3. UNCHANGED control \/ TakeReleasing(r) \/ StoreFree(r)
        BY <1>3 DEF Reclaimer, ReclaimStep, ScanPhase, CallReclaim, ScanGeneration, TakeOwner,
           LoadPrior, CheckGeneration, ReleaseDone, ReleaseDeferred, PushSlot, PushPublish, Unlock
      <3>. QED  BY <3>1, <3>2, <3>3
    <2>. QED  BY <2>0, <2>1, <1>s DEF LeaseInv, Building, Confirmed
  <1>4. CASE UNCHANGED vars
    BY <1>4 DEF vars, LeaseInv, Building, Confirmed
  <1>. QED  BY <1>1, <1>2, <1>3, <1>4 DEF Next

(* Every step keeps the records' identities distinct and below the         *)
(* producer's sequence.                                                    *)
LEMMA IdentityStep == IInv /\ [Next]_vars => IdentityInv'
  <1> SUFFICES ASSUME IInv, [Next]_vars PROVE IdentityInv'
    OBVIOUS
  <1> USE DEF IInv, TypeOK, repoVars, ringVars, leaseVars, appendVars, callVars, reclaimVars
  <1>s. \A m \in Leases : handle[m].slot \in Slots
    BY DEF Handle
  <1>1. ASSUME NEW l \in Leases, StoreWriting(l) PROVE IdentityInv'
    BY <1>1, MaxSequenceAssumption DEF StoreWriting, IdentityInv, AppendInv, Handle
  <1>2. CASE StoreRecord
    BY <1>2, MaxSequenceAssumption DEF StoreRecord, IdentityInv
  <1>3. ASSUME NEW l \in Leases, Confirm(l) PROVE IdentityInv'
    BY <1>3, <1>s DEF Confirm, IdentityInv
  <1>4. ASSUME NEW l \in Leases, Reset(l) PROVE IdentityInv'
    BY <1>4 DEF Reset, IdentityInv, NoHandle
  <1>5. ASSUME NEW l \in Leases, NEW s \in Slots, NEW g, NEW then, Acquire(l, s, g, then)
        PROVE  IdentityInv'
    BY <1>5 DEF Acquire, IdentityInv
  <1>6. ASSUME NEW l \in Leases, NEW m \in Leases, Clone(l, m) PROVE IdentityInv'
    BY <1>6 DEF Clone, IdentityInv
  <1>7. CASE UNCHANGED <<record, sequence, handle>> /\ (apc' # "record" \/ apc' = apc)
    BY <1>7 DEF IdentityInv
  <1>8. CASE Appender
    <2>1. \/ UNCHANGED <<record, sequence, handle>> /\ apc' # "record"
          \/ UNCHANGED <<record, sequence, handle>> /\ apc' = apc
          \/ StoreRecord
          \/ \E l \in Leases : StoreWriting(l)
      BY <1>8 DEF Appender, Admit, Exhausted, PopSlot, PopAdvance, StoreGeneration
    <2>. QED  BY <2>1, <1>1, <1>2, <1>7
  <1>9. ASSUME NEW l \in Leases, LeaseOwner(l) PROVE IdentityInv'
    <2>1. \/ UNCHANGED <<record, sequence, handle>> /\ apc' = apc
          \/ Confirm(l) \/ Reset(l)
          \/ \E s \in Slots : Acquire(l, s, 0, "held")
          \/ \E s \in Slots, g \in 1 .. sequence, then \in {"held", "retire", "retire_only"} :
                Acquire(l, s, g, then)
          \/ \E m \in Leases : Clone(l, m)
      BY <1>9 DEF LeaseOwner, Commit, Cancel, Retire, RetireIfOnlyReader, Rescue
    <2>. QED  BY <2>1, <1>3, <1>4, <1>5, <1>6, <1>7
  <1>10. ASSUME NEW r \in Reclaimers, Reclaimer(r) PROVE IdentityInv'
    <2>0. UNCHANGED <<record, sequence, handle, apc>>
      BY <1>10 DEF Reclaimer, ReclaimStep, ScanPhase, CallReclaim, ScanGeneration, TakeOwner,
         LoadPrior, CheckGeneration, TakeReleasing, ReleaseDone, ReleaseDeferred, StoreFree,
         PushSlot, PushPublish, Unlock
    <2>. QED  BY <2>0, <1>7
  <1>11. CASE UNCHANGED vars
    BY <1>11, <1>7 DEF vars
  <1>. QED  BY <1>8, <1>9, <1>10, <1>11 DEF Next
-----------------------------------------------------------------------------
(* How the queued positions change when head or tail moves to next: one    *)
(* position leaves, or one joins.                                          *)
LEMMA RingMoves ==
    ASSUME NEW h \in Positions, NEW t \in Positions
    PROVE  /\ next(h) \in Positions
           /\ next(h) # h
           /\ next(h) = next(t) => h = t
           /\ t \notin Between(h, t)
           /\ h # t => h \in Between(h, t)
           /\ h # t => Between(next(h), t) = Between(h, t) \ {h}
           /\ next(t) # h => Between(h, next(t)) = Between(h, t) \cup {t}
           /\ next(t) = h => Between(h, t) = Positions \ {t}
  <1> USE CapacityAssumption DEF Positions, next, Between
  <1>1. next(h) \in Positions /\ next(h) # h /\ (next(h) = next(t) => h = t)
    OBVIOUS
  <1>2. t \notin Between(h, t) /\ (h # t => h \in Between(h, t))
    OBVIOUS
  <1>3. ASSUME h # t PROVE Between(next(h), t) = Between(h, t) \ {h}
    BY <1>3
  <1>4. ASSUME next(t) # h PROVE Between(h, next(t)) = Between(h, t) \cup {t}
    BY <1>4
  <1>5. ASSUME next(t) = h PROVE Between(h, t) = Positions \ {t}
    BY <1>5
  <1>. QED  BY <1>1, <1>2, <1>3, <1>4, <1>5

(* An owner of leases never touches a slot that is Free, Releasing or      *)
(* being built by try_reserve, and never the ring, the records or the      *)
(* bundles.                                                                *)
LEMMA LeaseTouches ==
    ASSUME IInv, NEW l \in Leases, LeaseOwner(l)
    PROVE  /\ UNCHANGED <<generation, record, bundle, ringVars, sequence, reclaim_owner,
                          appendVars, reclaimVars>>
           /\ \A s \in Slots : control'[s] # control[s] =>
                 /\ ~Building(s)
                 /\ control[s].refs > 0 \/ control[s].phase = "Live"
                 /\ control[s].phase \notin {"Free", "Releasing"}
                 /\ control'[s].phase \notin {"Free", "Releasing"}
  <1> USE DEF IInv, TypeOK, repoVars, ringVars, leaseVars, appendVars, callVars, reclaimVars
  <1>1. UNCHANGED <<generation, record, bundle, ringVars, sequence, reclaim_owner, appendVars,
                    reclaimVars>>
    BY DEF LeaseOwner, Commit, Cancel, Confirm, Reset, Retire, RetireIfOnlyReader, Rescue,
       Acquire, Clone
  <1> SUFFICES ASSUME NEW s \in Slots, control'[s] # control[s]
               PROVE  /\ ~Building(s)
                      /\ control[s].refs > 0 \/ control[s].phase = "Live"
                      /\ control[s].phase \notin {"Free", "Releasing"}
                      /\ control'[s].phase \notin {"Free", "Releasing"}
    BY <1>1
  <1>2. CASE \E g, then : Acquire(l, s, g, then)
    <2>1. control[s].phase = "Live" /\ control'[s] = AddRef(control[s])
      BY <1>2 DEF Acquire, acquirable
    <2>2. control[s] \in Word /\ control[s].refs <= RefMask /\ control[s].refs # RefMask
      BY <1>2 DEF Acquire, acquirable, SlotInv
    <2>3. control'[s].phase = "Live"
      BY <2>1, <2>2, AddRefCount DEF state
    <2>. QED  BY <2>1, <2>3 DEF Building, AppendInv
  <1>3. CASE lstate[l] \notin {"empty", "reserving"} /\ handle[l].slot = s
    <2>1. ~Building(s)
      BY <1>3 DEF LeaseInv
    <2>2. control[s].refs > 0 /\ control[s].refs \in Nat
      BY <1>3, HoldersCount DEF Holders, Word
    <2>3. control[s].phase \notin {"Free", "Releasing"}
      BY <2>2 DEF SlotInv
    <2>4. control[s] \in Word /\ control[s].refs <= RefMask
      BY DEF SlotInv
    <2>5. DropRef(control[s]).phase = control[s].phase
      BY <2>2 DEF DropRef, state
    <2>6. control[s].refs # RefMask => AddRef(control[s]).phase = control[s].phase
      BY <2>4, AddRefCount DEF state
    <2>7. control'[s].phase \notin {"Free", "Releasing"}
      <3>1. CASE Commit(l) \/ Cancel(l) \/ Retire(l) \/ RetireIfOnlyReader(l) \/ Rescue(l)
        BY <3>1, <1>3, <2>3 DEF Commit, Cancel, Retire, RetireIfOnlyReader, RetireOnlyReader,
           Rescue, state
      <3>2. CASE Reset(l)
        BY <3>2, <1>3, <2>3, <2>5 DEF Reset
      <3>3. ASSUME NEW m \in Leases, Clone(l, m) PROVE control'[s].phase \notin {"Free", "Releasing"}
        BY <3>3, <1>3, <2>3, <2>6 DEF Clone, acquirable
      <3>4. \/ Commit(l) \/ Cancel(l) \/ Retire(l) \/ RetireIfOnlyReader(l) \/ Rescue(l) \/ Reset(l)
            \/ \E m \in Leases : Clone(l, m)
        BY <1>3 DEF LeaseOwner, Confirm, Acquire
      <3>. QED  BY <3>1, <3>2, <3>3, <3>4
    <2>. QED  BY <2>1, <2>2, <2>3, <2>7
  <1>4. \/ \E g, then : Acquire(l, s, g, then)
        \/ lstate[l] \notin {"empty", "reserving"} /\ handle[l].slot = s
    BY DEF LeaseOwner, Commit, Cancel, Confirm, Reset, Retire, RetireIfOnlyReader, Rescue,
       Acquire, Clone
  <1>. QED  BY <1>2, <1>3, <1>4

(* The arithmetic of ready_slots: the count is zero only for head = tail,  *)
(* falls by one when the head moves and grows by one when the tail moves.  *)
LEMMA ReadyCount ==
    ASSUME NEW h \in Positions, NEW t \in Positions
    PROVE  LET count(x, y) == IF y >= x THEN y - x ELSE (Capacity - x) + y + 1 IN
           /\ count(h, t) \in Nat
           /\ h = t => count(h, t) = 0
           /\ h # t => count(next(h), t) = count(h, t) - 1
           /\ next(t) # h => count(h, next(t)) = count(h, t) + 1
  BY CapacityAssumption DEF Positions, next

(* Every step keeps the producer's facts, in particular that the slots an  *)
(* admitted append still needs are queued.                                 *)
LEMMA AppendStep == IInv /\ [Next]_vars => AppendInv'
  <1> SUFFICES ASSUME IInv, [Next]_vars PROVE AppendInv'
    OBVIOUS
  <1> USE DEF IInv, TypeOK, repoVars, ringVars, leaseVars, appendVars, callVars, reclaimVars
  <1>r. ready_slots \in Nat /\ (head = tail => ready_slots = 0)
    BY ReadyCount DEF ready_slots
  <1>1. CASE Appender
    <2>1. ASSUME NEW n \in 1 .. Capacity, Admit(n) PROVE AppendInv'
      BY <2>1 DEF Admit, AppendInv, ready_slots
    <2>2. CASE Exhausted
      BY <2>2, <1>r DEF Exhausted, AppendInv, ready_slots
    <2>3. CASE PopSlot
      <3>1. ready_slots' = ready_slots
        BY <2>3 DEF PopSlot, ready_slots
      <3>. QED  BY <2>3, <3>1, <1>r DEF PopSlot, AppendInv
    <2>4. CASE PopAdvance
      <3>1. head # tail /\ aslot = ready[head] /\ sequence < MaxSequence
        BY <2>4 DEF PopAdvance, AppendInv
      <3>2. ready_slots' = ready_slots - 1
        BY <2>4, <3>1, ReadyCount DEF PopAdvance, ready_slots
      <3>3. need + 1 <= ready_slots
        BY <2>4 DEF PopAdvance, AppendInv
      <3>4. head \in Occupied
        BY <3>1, RingMoves DEF Occupied
      <3>5. control[aslot].phase = "Free"
        BY <3>1, <3>4 DEF RingInv
      <3>. QED  BY <2>4, <3>1, <3>2, <3>3, <3>5, <1>r DEF PopAdvance, AppendInv
    <2>5. CASE StoreRecord
      BY <2>5 DEF StoreRecord, AppendInv, ready_slots
    <2>6. ASSUME NEW l \in Leases, StoreWriting(l) PROVE AppendInv'
      BY <2>6 DEF StoreWriting, AppendInv, ready_slots, state
    <2>7. ASSUME NEW l \in Leases, StoreGeneration(l) PROVE AppendInv'
      BY <2>7 DEF StoreGeneration, AppendInv, ready_slots
    <2>. QED  BY <1>1, <2>1, <2>2, <2>3, <2>4, <2>5, <2>6, <2>7 DEF Appender
  <1>2. ASSUME NEW l \in Leases, LeaseOwner(l) PROVE AppendInv'
    <2>1. UNCHANGED <<record, ringVars, sequence, appendVars>>
      BY <1>2, LeaseTouches
    <2>2. /\ apc = "control" => control'[aslot] = control[aslot]
          /\ apc \in {"record", "generation"} => control'[aslot] = control[aslot]
      BY <1>2, LeaseTouches DEF AppendInv, Building
    <2>. QED  BY <2>1, <2>2 DEF AppendInv, ready_slots
  <1>3. ASSUME NEW r \in Reclaimers, Reclaimer(r) PROVE AppendInv'
    <2>0. UNCHANGED <<record, head, sequence, appendVars>>
      BY <1>3 DEF Reclaimer, ReclaimStep, ScanPhase, CallReclaim, ScanGeneration, TakeOwner,
         LoadPrior, CheckGeneration, TakeReleasing, ReleaseDone, ReleaseDeferred, StoreFree,
         PushSlot, PushPublish, Unlock
    <2>1. CASE TakeReleasing(r)
      BY <2>1, <2>0 DEF TakeReleasing, ReclaimInv, AppendInv, ready_slots
    <2>2. CASE StoreFree(r)
      BY <2>2, <2>0 DEF StoreFree, ReclaimInv, AppendInv, ready_slots, state
    <2>3. CASE PushSlot(r)
      BY <2>3, <2>0 DEF PushSlot, AppendInv, ready_slots
    <2>4. CASE PushPublish(r)
      <3>1. next(tail) # head /\ next(tail) \in Positions
        BY <2>4, RingMoves DEF PushPublish, ReclaimInv
      <3>2. ready_slots' = ready_slots + 1
        BY <2>4, <3>1, ReadyCount DEF PushPublish, ready_slots
      <3>. QED  BY <2>4, <2>0, <3>1, <3>2, <1>r DEF PushPublish, AppendInv
    <2>5. CASE UNCHANGED <<control, ready, tail>>
      BY <2>5, <2>0 DEF AppendInv, ready_slots
    <2>6. \/ UNCHANGED <<control, ready, tail>>
          \/ TakeReleasing(r) \/ StoreFree(r) \/ PushSlot(r) \/ PushPublish(r)
      BY <1>3 DEF Reclaimer, ReclaimStep, ScanPhase, CallReclaim, ScanGeneration, TakeOwner,
         LoadPrior, CheckGeneration, ReleaseDone, ReleaseDeferred, Unlock
    <2>. QED  BY <2>1, <2>2, <2>3, <2>4, <2>5, <2>6
  <1>4. CASE UNCHANGED vars
    BY <1>4 DEF vars, AppendInv, ready_slots
  <1>. QED  BY <1>1, <1>2, <1>3, <1>4 DEF Next

(* The ring holds distinct slots other than the one being pushed, so it    *)
(* cannot be full: pigeonhole.                                             *)
LEMMA RoomToPush ==
    ASSUME IInv, NEW r \in Reclaimers, rpc[r] = "push"
    PROVE  next(tail) # head
  <1> SUFFICES ASSUME next(tail) = head PROVE FALSE
    OBVIOUS
  <1> USE DEF IInv, TypeOK
  <1> DEFINE s == rslot[r]
             f == [i \in Occupied |-> ready[i]]
  <1>1. Occupied = Positions \ {tail}
    BY RingMoves DEF Occupied
  <1>2. IsFiniteSet(Positions) /\ Cardinality(Positions) = Capacity + 1
    BY FS_Interval, CapacityAssumption DEF Positions
  <1>3. IsFiniteSet(Slots) /\ Cardinality(Slots) = Capacity
    BY FS_Interval, CapacityAssumption DEF Slots
  <1>4. IsFiniteSet(Occupied) /\ Cardinality(Occupied) = Capacity
    <2>1. tail \in Positions
      OBVIOUS
    <2>2. IsFiniteSet(Positions \ {tail})
          /\ Cardinality(Positions \ {tail}) = Cardinality(Positions) - 1
      BY <2>1, <1>2, FS_RemoveElement
    <2>. QED  BY <1>1, <1>2, <2>2, CapacityAssumption
  <1>5. IsFiniteSet(Slots \ {s}) /\ Cardinality(Slots \ {s}) = Capacity - 1
    BY <1>3, FS_RemoveElement, CapacityAssumption
  <1>6. f \in [Occupied -> Slots \ {s}]
    BY DEF RingInv, InTransit, Occupied, Between
  <1>7. \E i, j \in Occupied : i # j /\ f[i] = f[j]
    <2>1. Cardinality(Slots \ {s}) < Cardinality(Occupied)
      BY <1>4, <1>5, CapacityAssumption
    <2> HIDE DEF f
    <2>. QED  BY <1>4, <1>5, <1>6, <2>1, FS_PigeonHole
  <1>. QED  BY <1>7 DEF RingInv, f

(* A reclaimer outside the owner flag's scope has nothing to lose, and one *)
(* inside it is alone: an action of r leaves the others' facts in place.   *)
LEMMA OwnerStep == IInv /\ [Next]_vars => ReclaimInv'
  <1> SUFFICES ASSUME IInv, [Next]_vars PROVE ReclaimInv'
    OBVIOUS
  <1> USE DEF IInv, TypeOK, repoVars, ringVars, leaseVars, appendVars, callVars, reclaimVars
  <1>1. CASE Appender
    <2>1. ASSUME NEW n \in 1 .. Capacity, Admit(n) PROVE ReclaimInv'
      BY <2>1 DEF Admit, ReclaimInv, Owners, next
    <2>2. CASE Exhausted
      BY <2>2 DEF Exhausted, ReclaimInv, Owners, next
    <2>3. CASE PopSlot
      BY <2>3 DEF PopSlot, ReclaimInv, Owners, next
    <2>4. CASE PopAdvance
      <3>1. head # tail
        BY <2>4 DEF PopAdvance, AppendInv
      <3>2. next(tail) # next(head)
        BY <3>1, RingMoves
      <3>. QED  BY <2>4, <3>2 DEF PopAdvance, ReclaimInv, Owners, next
    <2>5. CASE StoreRecord
      BY <2>5 DEF StoreRecord, ReclaimInv, AppendInv, Owners, next, state
    <2>6. ASSUME NEW l \in Leases, StoreWriting(l) PROVE ReclaimInv'
      <3>1. control[aslot].phase = "Free"
        BY <2>6 DEF StoreWriting, AppendInv
      <3>2. \A r \in Reclaimers : rpc[r] \in {"push", "publish"} => rslot[r] # aslot
        BY <2>6 DEF StoreWriting, RingInv
      <3>. QED  BY <2>6, <3>1, <3>2 DEF StoreWriting, ReclaimInv, Owners, next, state, Reclaimable
    <2>7. ASSUME NEW l \in Leases, StoreGeneration(l) PROVE ReclaimInv'
      BY <2>7 DEF StoreGeneration, ReclaimInv, AppendInv, Owners, next, state
    <2>. QED  BY <1>1, <2>1, <2>2, <2>3, <2>4, <2>5, <2>6, <2>7 DEF Appender
  <1>2. ASSUME NEW l \in Leases, LeaseOwner(l) PROVE ReclaimInv'
    <2>1. UNCHANGED <<generation, record, bundle, ringVars, reclaim_owner, reclaimVars>>
      BY <1>2, LeaseTouches
    <2>2. \A s \in Slots : control[s].refs = 0 /\ control[s].phase # "Live"
                           => control'[s] = control[s]
      BY <1>2, LeaseTouches
    <2>3. \A s \in Slots : control[s].phase = "Free" => control'[s] = control[s]
      BY <1>2, LeaseTouches
    <2>. QED  BY <2>1, <2>2, <2>3 DEF ReclaimInv, Owners, next, state, Reclaimable
  <1>3. ASSUME NEW r \in Reclaimers, Reclaimer(r) PROVE ReclaimInv'
    <2> USE DEF Goto
    <2>0. UNCHANGED <<generation, record, head>>
          /\ \A q \in Reclaimers \ {r} : /\ rpc'[q] = rpc[q]
                                         /\ rslot'[q] = rslot[q]
                                         /\ rgeneration'[q] = rgeneration[q]
                                         /\ rprior'[q] = rprior[q]
      BY <1>3 DEF Reclaimer, ReclaimStep, ScanPhase, CallReclaim, ScanGeneration, TakeOwner,
         LoadPrior, CheckGeneration, TakeReleasing, ReleaseDone, ReleaseDeferred, StoreFree,
         PushSlot, PushPublish, Unlock
    <2>1. CASE rpc[r] \in {"idle", "hint", "own"}
      <3>1. UNCHANGED <<control, bundle, ready, tail>>
        BY <1>3, <2>1 DEF Reclaimer, ReclaimStep, ScanPhase, CallReclaim, ScanGeneration,
           TakeOwner, LoadPrior, CheckGeneration, TakeReleasing, ReleaseDone, ReleaseDeferred,
           StoreFree, PushSlot, PushPublish, Unlock
      <3>2. \/ rpc'[r] \in {"idle", "hint", "own"} /\ UNCHANGED reclaim_owner
            \/ rpc'[r] = "load" /\ ~reclaim_owner /\ reclaim_owner'
        BY <1>3, <2>1 DEF Reclaimer, ReclaimStep, ScanPhase, CallReclaim, ScanGeneration,
           TakeOwner, LoadPrior, CheckGeneration, TakeReleasing, ReleaseDone, ReleaseDeferred,
           StoreFree, PushSlot, PushPublish, Unlock
      <3>3. CASE rpc'[r] \in {"idle", "hint", "own"} /\ UNCHANGED reclaim_owner
        <4>1. Owners' = Owners
          BY <2>0, <2>1, <3>3 DEF Owners
        <4>. QED  BY <2>0, <3>1, <3>3, <4>1 DEF ReclaimInv, next
      <3>4. CASE rpc'[r] = "load" /\ ~reclaim_owner /\ reclaim_owner'
        <4>1. Owners = {} /\ Owners' = {r}
          BY <2>0, <3>4 DEF ReclaimInv, Owners
        <4>. QED  BY <2>0, <3>1, <3>4, <4>1 DEF ReclaimInv, next
      <3>. QED  BY <3>2, <3>3, <3>4
    <2>2. CASE rpc[r] \notin {"idle", "hint", "own"}
      <3>1. Owners = {r} /\ reclaim_owner
        BY <2>2 DEF ReclaimInv, Owners
      <3>2. \A q \in Reclaimers \ {r} : rpc'[q] \in {"idle", "hint", "own"}
        BY <2>0, <3>1 DEF Owners
      <3>3. CASE Unlock(r)
        <4>1. rpc'[r] = "idle" /\ ~reclaim_owner'
          BY <3>3 DEF Unlock
        <4>2. Owners' = {}
          BY <3>2, <4>1 DEF Owners
        <4>. QED  BY <3>2, <4>1, <4>2 DEF ReclaimInv
      <3>4. CASE ~Unlock(r)
        <4>1. rpc'[r] \notin {"idle", "hint", "own"} /\ UNCHANGED reclaim_owner
          BY <1>3, <2>2, <3>4 DEF Reclaimer, ReclaimStep, ScanPhase, CallReclaim,
             ScanGeneration, TakeOwner, LoadPrior, CheckGeneration, TakeReleasing, ReleaseDone,
             ReleaseDeferred, StoreFree, PushSlot, PushPublish
        <4>2. Owners' = {r}
          BY <3>2, <4>1 DEF Owners
        <4> DEFINE Mine ==
                /\ rpc[r] = "check" => rprior[r].phase \in Reclaimable
                /\ rpc[r] = "cas" => rprior[r].phase \in {"Retired", "Cancelled"} /\ rprior[r].refs = 0
                /\ rpc[r] \in {"check", "cas"} /\ rprior[r].refs = 0 => control[rslot[r]] = rprior[r]
                /\ rpc[r] = "cas" => generation[rslot[r]] = rgeneration[r]
                /\ rpc[r] \in {"release", "free"} =>
                      /\ control[rslot[r]] = state("Releasing", 0)
                      /\ record[rslot[r]] = rgeneration[r]
                /\ rpc[r] = "free" => bundle[rslot[r]] = "none"
                /\ rpc[r] \in {"push", "publish"} => control[rslot[r]].phase = "Free"
                /\ rpc[r] = "publish" => ready[tail] = rslot[r] /\ next(tail) # head
        <4>m. Mine
          BY DEF ReclaimInv
        <4>3. Mine'
          <5>1. CASE LoadPrior(r)
            BY <5>1 DEF LoadPrior
          <5>2. CASE CheckGeneration(r)
            <6>0. rprior[r].phase \in Reclaimable /\ rprior[r] \in Word /\ rslot[r] \in Slots
              BY <5>2, <4>m DEF CheckGeneration
            <6>1. CASE rprior[r].refs # 0 \/ generation[rslot[r]] # rgeneration[r]
              <7>1. rpc'[r] = "unlock"
                BY <5>2, <6>1 DEF CheckGeneration
              <7>. QED  BY <7>1
            <6>2. CASE rprior[r].refs = 0 /\ generation[rslot[r]] = rgeneration[r]
              <7>1. control[rslot[r]] = rprior[r]
                BY <5>2, <6>2, <4>m DEF CheckGeneration
              <7>2. ~Building(rslot[r])
                BY <6>0, <7>1 DEF Building, AppendInv, Reclaimable
              <7>3. record[rslot[r]] = generation[rslot[r]]
                BY <6>0, <7>1, <7>2 DEF SlotInv, Reclaimable
              <7>4. CASE rprior[r].phase = "Releasing"
                <8>1. rprior[r] = state("Releasing", 0)
                  BY <6>0, <6>2, <7>4 DEF Word, state
                <8>. QED  BY <5>2, <6>2, <7>1, <7>3, <7>4, <8>1 DEF CheckGeneration
              <7>5. CASE rprior[r].phase # "Releasing"
                BY <5>2, <6>0, <6>2, <7>1, <7>5 DEF CheckGeneration, Reclaimable
              <7>. QED  BY <7>4, <7>5
            <6>. QED  BY <6>1, <6>2
          <5>3. CASE TakeReleasing(r)
            <6>1. /\ rprior[r].phase \in {"Retired", "Cancelled"} /\ rprior[r].refs = 0
                  /\ control[rslot[r]] = rprior[r] /\ generation[rslot[r]] = rgeneration[r]
              BY <5>3, <4>m DEF TakeReleasing
            <6>2. ~Building(rslot[r])
              BY <6>1 DEF Building, AppendInv
            <6>3. record[rslot[r]] = rgeneration[r]
              BY <6>1, <6>2 DEF SlotInv
            <6>. QED  BY <5>3, <6>1, <6>3 DEF TakeReleasing
          <5>4. CASE ReleaseDone(r)
            BY <5>4, <4>m DEF ReleaseDone
          <5>5. CASE ReleaseDeferred(r)
            BY <5>5 DEF ReleaseDeferred
          <5>6. CASE StoreFree(r)
            BY <5>6 DEF StoreFree, state
          <5>7. CASE PushSlot(r)
            <6>1. next(tail) # head
              BY <5>7, RoomToPush DEF PushSlot
            <6>. QED  BY <5>7, <6>1, <4>m DEF PushSlot, next
          <5>8. CASE PushPublish(r)
            BY <5>8 DEF PushPublish
          <5>9. \/ LoadPrior(r) \/ CheckGeneration(r) \/ TakeReleasing(r) \/ ReleaseDone(r)
                \/ ReleaseDeferred(r) \/ StoreFree(r) \/ PushSlot(r) \/ PushPublish(r)
            BY <1>3, <2>2, <3>4 DEF Reclaimer, ReclaimStep, ScanPhase, CallReclaim,
               ScanGeneration, TakeOwner
          <5>. QED  BY <5>1, <5>2, <5>3, <5>4, <5>5, <5>6, <5>7, <5>8, <5>9
        <4>. QED  BY <3>1, <3>2, <4>1, <4>2, <4>3 DEF ReclaimInv
      <3>. QED  BY <3>3, <3>4
    <2>. QED  BY <2>1, <2>2
  <1>4. CASE UNCHANGED vars
    BY <1>4 DEF vars, ReclaimInv, Owners, next
  <1>. QED  BY <1>1, <1>2, <1>3, <1>4 DEF Next

(* Every step keeps the ring exact: pop takes a slot out that is then in   *)
(* transit to a reservation, push puts in one that is Free and not queued. *)
LEMMA RingStep == IInv /\ [Next]_vars => RingInv'
  <1> SUFFICES ASSUME IInv, [Next]_vars PROVE RingInv'
    OBVIOUS
  <1> USE DEF IInv, TypeOK, repoVars, ringVars, leaseVars, appendVars, callVars, reclaimVars
  <1>o. Occupied \subseteq Positions /\ (head # tail => head \in Occupied) /\ tail \notin Occupied
    BY RingMoves DEF Occupied, Between
  <1>1. CASE Appender
    <2>1. ASSUME NEW n \in 1 .. Capacity, Admit(n) PROVE RingInv'
      BY <2>1 DEF Admit, RingInv, Occupied, Between, InTransit
    <2>2. CASE Exhausted
      BY <2>2 DEF Exhausted, RingInv, Occupied, Between, InTransit
    <2>3. CASE PopSlot
      BY <2>3 DEF PopSlot, RingInv, Occupied, Between, InTransit
    <2>4. CASE PopAdvance
      <3>1. head # tail /\ aslot = ready[head]
        BY <2>4 DEF PopAdvance, AppendInv
      <3>2. Occupied' = Occupied \ {head}
        BY <2>4, <3>1, RingMoves DEF PopAdvance, Occupied
      <3>3. \A i \in Occupied' : ready[i] # aslot
        BY <3>1, <3>2, <1>o DEF RingInv
      <3>4. \A s \in Slots : InTransit(s)' <=> InTransit(s) \/ s = aslot
        BY <2>4 DEF PopAdvance, InTransit
      <3>5. \A r \in Reclaimers : rpc[r] \in {"push", "publish"} => rslot[r] # aslot
        BY <3>1, <1>o DEF RingInv, InTransit
      <3>6. UNCHANGED <<control, ready, rpc, rslot, aslot>>
        BY <2>4 DEF PopAdvance
      <3>. QED  BY <3>1, <3>2, <3>3, <3>4, <3>5, <3>6, <1>o DEF RingInv
    <2>5. CASE StoreRecord
      BY <2>5 DEF StoreRecord, RingInv, Occupied, Between, InTransit
    <2>6. ASSUME NEW l \in Leases, StoreWriting(l) PROVE RingInv'
      <3>1. apc = "control" /\ InTransit(aslot)
        BY <2>6 DEF StoreWriting, InTransit
      <3>2. \A i \in Occupied : ready[i] # aslot
        BY <3>1 DEF RingInv
      <3>3. Occupied' = Occupied
        BY <2>6 DEF StoreWriting, Occupied, Between
      <3>4. \A s \in Slots : InTransit(s)' <=> InTransit(s) /\ s # aslot
        BY <2>6, <3>1 DEF StoreWriting, InTransit, RingInv
      <3>5. \A s \in Slots : IF s = aslot THEN control'[s].phase = "Writing" ELSE control'[s] = control[s]
        BY <2>6 DEF StoreWriting, state
      <3>6. apc' # "control" /\ UNCHANGED ready
        BY <2>6 DEF StoreWriting
      <3>. QED  BY <3>2, <3>3, <3>4, <3>5, <3>6, <1>o DEF RingInv
    <2>7. ASSUME NEW l \in Leases, StoreGeneration(l) PROVE RingInv'
      BY <2>7 DEF StoreGeneration, RingInv, Occupied, Between, InTransit
    <2>. QED  BY <1>1, <2>1, <2>2, <2>3, <2>4, <2>5, <2>6, <2>7 DEF Appender
  <1>2. ASSUME NEW l \in Leases, LeaseOwner(l) PROVE RingInv'
    <2>1. UNCHANGED <<ringVars, appendVars, reclaimVars>>
      BY <1>2, LeaseTouches
    <2>2. \A s \in Slots : control'[s].phase = "Free" <=> control[s].phase = "Free"
      BY <1>2, LeaseTouches
    <2>3. Occupied' = Occupied /\ \A s : InTransit(s)' <=> InTransit(s)
      BY <2>1 DEF Occupied, Between, InTransit
    <2>. QED  BY <2>1, <2>2, <2>3, <1>o DEF RingInv
  <1>3. ASSUME NEW r \in Reclaimers, Reclaimer(r) PROVE RingInv'
    <2> USE DEF Goto
    <2>0. UNCHANGED <<head, appendVars>>
          /\ \A q \in Reclaimers \ {r} : rpc'[q] = rpc[q] /\ rslot'[q] = rslot[q]
      BY <1>3 DEF Reclaimer, ReclaimStep, ScanPhase, CallReclaim, ScanGeneration, TakeOwner,
         LoadPrior, CheckGeneration, TakeReleasing, ReleaseDone, ReleaseDeferred, StoreFree,
         PushSlot, PushPublish, Unlock
    <2>1. CASE TakeReleasing(r)
      <3>1. UNCHANGED ringVars /\ \A s \in Slots : control'[s].phase = "Free" <=> control[s].phase = "Free"
        BY <2>1 DEF TakeReleasing, ReclaimInv, state
      <3>2. rpc[r] \notin {"push", "publish"} /\ rpc'[r] \notin {"push", "publish"}
        BY <2>1 DEF TakeReleasing
      <3>3. Occupied' = Occupied /\ \A s : InTransit(s)' <=> InTransit(s)
        BY <2>0, <3>1, <3>2 DEF Occupied, Between, InTransit
      <3>. QED  BY <2>0, <3>1, <3>2, <3>3, <1>o DEF RingInv
    <2>2. CASE StoreFree(r)
      <3> DEFINE s == rslot[r]
      <3>0. s \in Slots /\ control[s].phase = "Releasing"
        BY <2>2 DEF StoreFree, ReclaimInv, state
      <3>1. /\ UNCHANGED <<ringVars, rslot>>
            /\ \A t \in Slots : IF t = s THEN control'[t].phase = "Free" ELSE control'[t] = control[t]
        BY <2>2 DEF StoreFree, state
      <3>2. rpc[r] = "free" /\ rpc'[r] = "push"
        BY <2>2 DEF StoreFree
      <3>3. Occupied' = Occupied /\ \A t : InTransit(t)' <=> InTransit(t) \/ t = s
        BY <2>0, <3>1, <3>2 DEF Occupied, Between, InTransit
      <3>4. \A i \in Occupied : ready[i] # s
        BY <3>0 DEF RingInv
      <3>5. apc = "control" => aslot # s
        BY <3>0 DEF AppendInv
      <3>. QED  BY <2>0, <3>0, <3>1, <3>2, <3>3, <3>4, <3>5, <1>o DEF RingInv
    <2>3. CASE PushSlot(r)
      <3>1. next(tail) # head
        BY <2>3, RoomToPush DEF PushSlot
      <3>2. /\ UNCHANGED <<control, tail, rslot>>
            /\ rpc[r] = "push" /\ rpc'[r] = "publish"
            /\ \A i \in Occupied : ready'[i] = ready[i]
        BY <2>3, <3>1, <1>o DEF PushSlot
      <3>3. Occupied' = Occupied /\ \A s : InTransit(s)' <=> InTransit(s)
        BY <2>0, <3>2 DEF Occupied, Between, InTransit
      <3>. QED  BY <2>0, <3>2, <3>3, <1>o DEF RingInv
    <2>4. CASE PushPublish(r)
      <3> DEFINE s == rslot[r]
      <3>0. /\ ready[tail] = s /\ next(tail) # head
            /\ s \in Slots /\ control[s].phase = "Free" /\ InTransit(s)
        BY <2>4 DEF PushPublish, ReclaimInv, InTransit
      <3>1. Occupied' = Occupied \cup {tail}
        BY <2>0, <2>4, <3>0, RingMoves DEF PushPublish, Occupied
      <3>2. \A i \in Occupied : ready[i] # s
        BY <3>0 DEF RingInv
      <3>3. UNCHANGED <<control, ready, rslot>> /\ rpc[r] = "publish" /\ rpc'[r] = "unlock"
        BY <2>4 DEF PushPublish
      <3>4. \A q \in Reclaimers \ {r} : rpc[q] \notin {"push", "publish"}
        BY <3>3 DEF ReclaimInv, Owners
      <3>5. apc = "control" => aslot # s
        BY <3>3 DEF RingInv
      <3>6. \A t \in Slots : InTransit(t)' <=> InTransit(t) /\ t # s
        BY <2>0, <3>3, <3>4, <3>5 DEF InTransit
      <3>. QED  BY <2>0, <3>0, <3>1, <3>2, <3>3, <3>5, <3>6, <1>o DEF RingInv
    <2>5. CASE UNCHANGED <<control, ready, tail>>
               /\ rpc[r] \notin {"push", "publish"} /\ rpc'[r] \notin {"push", "publish"}
      <3>1. Occupied' = Occupied /\ \A s : InTransit(s)' <=> InTransit(s)
        BY <2>0, <2>5 DEF Occupied, Between, InTransit
      <3>. QED  BY <2>0, <2>5, <3>1 DEF RingInv
    <2>6. \/ /\ UNCHANGED <<control, ready, tail>>
             /\ rpc[r] \notin {"push", "publish"}
             /\ rpc'[r] \notin {"push", "publish"}
          \/ TakeReleasing(r) \/ StoreFree(r) \/ PushSlot(r) \/ PushPublish(r)
      BY <1>3 DEF Reclaimer, ReclaimStep, ScanPhase, CallReclaim, ScanGeneration, TakeOwner,
         LoadPrior, CheckGeneration, ReleaseDone, ReleaseDeferred, Unlock
    <2>. QED  BY <2>1, <2>2, <2>3, <2>4, <2>5, <2>6
  <1>4. CASE UNCHANGED vars
    BY <1>4 DEF vars, RingInv, Occupied, Between, InTransit
  <1>. QED  BY <1>1, <1>2, <1>3, <1>4 DEF Next

(* The constructor establishes the inductive invariant.                    *)
LEMMA InvInit == Init => IInv
  <1> SUFFICES ASSUME Init PROVE IInv
    OBVIOUS
  <1>1. TypeOK
    BY TypeInit
  <1>2. RefsCountLeases
    <2>1. \A s \in Slots : Holders(s) = {}
      BY DEF Init, Holders
    <2>. QED  BY <2>1, FS_EmptySet DEF RefsCountLeases, Init, state
  <1>3. SlotInv /\ LeaseInv
    BY RefMaskAssumption DEF Init, SlotInv, LeaseInv, state, Building, Confirmed
  <1>4. AppendInv
    BY CapacityAssumption DEF Init, AppendInv, ready_slots
  <1>5. IdentityInv
    BY MaxSequenceAssumption DEF Init, IdentityInv, NoHandle
  <1>6. ReclaimInv
    BY DEF Init, ReclaimInv, Owners
  <1>7. RingInv
    <2>1. Occupied = Slots
      BY CapacityAssumption DEF Init, Occupied, Between, Positions, Slots
    <2>2. \A i \in Slots : ready[i] = i
      BY CapacityAssumption DEF Init, Positions, Slots
    <2>3. \A s \in Slots : ~InTransit(s) /\ control[s].phase = "Free"
      BY DEF Init, InTransit, state
    <2>. QED  BY <2>1, <2>2, <2>3 DEF RingInv, Init
  <1>. QED  BY <1>1, <1>2, <1>3, <1>4, <1>5, <1>6, <1>7 DEF IInv

(* The inductive invariant holds in every reachable state of the           *)
(* repository, whatever the capacity, the leases and the reclaimers.       *)
THEOREM Invariance == Spec => []IInv
  <1>1. IInv /\ [Next]_vars => IInv'
    BY TypeStep, CountStep, SlotStep, LeaseStep, AppendStep, IdentityStep, OwnerStep, RingStep
    DEF IInv
  <1>. QED  BY InvInit, <1>1, PTL DEF Spec

(* The count in a control word is always the number of lease objects on    *)
(* its slot (acquire, Lease::reset, Reservation::commit, try_reserve).     *)
THEOREM LeasesAreCounted == Spec => []RefsCountLeases
  <1>1. IInv => RefsCountLeases
    BY DEF IInv
  <1>. QED  BY <1>1, Invariance, PTL

(* A lease fences its block: while it exists the slot is neither released  *)
(* nor reused, even if the block was retired or its reservation cancelled. *)
THEOREM LeasesFence == Spec => []LeaseFence
  <1>1. IInv => LeaseFence
    <2> SUFFICES ASSUME IInv PROVE LeaseFence
      OBVIOUS
    <2> USE DEF IInv
    <2>1. ASSUME NEW l \in Leases, lstate[l] # "empty"
          PROVE  /\ control[handle[l].slot].phase \in {"Writing", "Live", "Retired", "Cancelled"}
                 /\ bundle[handle[l].slot] = "whole"
      <3>1. handle[l].slot \in Slots
        BY DEF TypeOK, Handle
      <3>2. control[handle[l].slot].refs > 0
        BY <2>1, <3>1, HoldersCount DEF Holders
      <3>3. control[handle[l].slot].phase \in Phase
        BY <3>1 DEF TypeOK, Word
      <3>. QED  BY <3>1, <3>2, <3>3 DEF SlotInv, Phase
    <2>. QED  BY <2>1 DEF LeaseFence, LeaseInv, Confirmed
  <1>. QED  BY <1>1, Invariance, PTL

(* Reservation::commit never throws: an open reservation is still Writing  *)
(* and is the only reservation of its slot.                                *)
THEOREM ReservationsStayWritable == Spec => []ReservationWritable
  <1>1. IInv => ReservationWritable
    BY DEF IInv, LeaseInv, ReservationWritable
  <1>. QED  BY <1>1, Invariance, PTL

(* The release callback of try_reclaim runs alone, on a slot that is       *)
(* Releasing and still holds the block the caller named.                   *)
THEOREM ReleaseIsExclusive == Spec => []ReleaseExclusive
  <1>1. IInv => ReleaseExclusive
    BY DEF IInv, ReclaimInv, ReleaseExclusive, Owners
  <1>. QED  BY <1>1, Invariance, PTL

(* The ready ring loses no slot and hands none out twice.                  *)
THEOREM RingIsExact == Spec => []ReadyRing
  <1>1. IInv => ReadyRing
    <2> SUFFICES ASSUME IInv PROVE ReadyRing
      OBVIOUS
    <2> USE DEF IInv
    <2>1. \A i \in Occupied : ready[i] \in Slots
      BY DEF TypeOK, Occupied, Between
    <2>2. \A s \in Slots : InTransit(s) => control[s].phase = "Free"
      BY DEF InTransit, AppendInv, ReclaimInv
    <2>. QED  BY <2>1, <2>2 DEF ReadyRing, RingInv, SlotInv
  <1>. QED  BY <1>1, Invariance, PTL

(* push's logic_error is unreachable.                                      *)
THEOREM RingNeverOverflows == Spec => []NoOverflow
  <1>1. IInv => NoOverflow
    BY RoomToPush DEF NoOverflow
  <1>. QED  BY <1>1, Invariance, PTL

(* Slots that prepare_repository_append counted are still there when       *)
(* try_reserve pops them.                                                  *)
THEOREM AdmissionIsKept == Spec => []AdmissionKept
  <1>1. IInv => AdmissionKept
    <2> SUFFICES ASSUME IInv, need > 0, apc = "idle", head = tail PROVE FALSE
      BY DEF AdmissionKept
    <2>1. ready_slots = 0
      BY ReadyCount DEF IInv, TypeOK, ready_slots
    <2>. QED  BY <2>1 DEF IInv, AppendInv, TypeOK
  <1>. QED  BY <1>1, Invariance, PTL

(* No two slots ever carry the same generation, so a stale handle cannot   *)
(* match a later block.                                                    *)
THEOREM IdentitiesAreUnique == Spec => []IdentityUnique
  <1>1. IInv => IdentityUnique
    BY DEF IInv, IdentityInv, IdentityUnique
  <1>. QED  BY <1>1, Invariance, PTL
-----------------------------------------------------------------------------
(* Refinement of BlockLifecycle.                                           *)

(* Steps that move neither phases nor leases leave the abstract state.     *)
LEMMA MapSame ==
    ASSUME \A s \in Slots : control'[s].phase = control[s].phase,
           \A l \in Leases : (lstate'[l] = "empty" <=> lstate[l] = "empty")
                             /\ handle'[l].slot = handle[l].slot
    PROVE  phaseOf' = phaseOf /\ readersOf' = readersOf
  BY DEF phaseOf, readersOf, Holders

(* A word written in one slot is a phase written in the abstract slot.     *)
LEMMA MapPhase ==
    ASSUME NEW s \in Slots, NEW p,
           control'[s].phase = p,
           \A t \in Slots \ {s} : control'[t].phase = control[t].phase
    PROVE  phaseOf' = [phaseOf EXCEPT ![s] = p]
  BY DEF phaseOf

(* A lease object that becomes non-empty is a new abstract reader.         *)
LEMMA MapJoin ==
    ASSUME NEW s \in Slots, NEW l \in Leases,
           lstate[l] = "empty", lstate'[l] # "empty", handle'[l].slot = s,
           \A m \in Leases \ {l} : (lstate'[m] = "empty" <=> lstate[m] = "empty")
                                   /\ handle'[m].slot = handle[m].slot
    PROVE  /\ readersOf' = [readersOf EXCEPT ![s] = @ \cup {l}]
           /\ \A t \in Slots : l \notin readersOf[t]
  <1>1. \A t \in Slots \ {s} : Holders(t)' = Holders(t)
    BY DEF Holders
  <1>2. Holders(s)' = Holders(s) \cup {l}
    BY DEF Holders
  <1>3. \A t \in Slots : l \notin Holders(t)
    BY DEF Holders
  <1> HIDE DEF Holders
  <1>. QED  BY <1>1, <1>2, <1>3 DEF readersOf

(* Lease::reset is an abstract reader leaving.                             *)
LEMMA MapLeave ==
    ASSUME NEW s \in Slots, NEW l \in Leases,
           lstate[l] # "empty", handle[l].slot = s, lstate'[l] = "empty",
           \A m \in Leases \ {l} : lstate'[m] = lstate[m] /\ handle'[m] = handle[m]
    PROVE  readersOf' = [readersOf EXCEPT ![s] = @ \ {l}] /\ l \in readersOf[s]
  <1>1. \A t \in Slots \ {s} : Holders(t)' = Holders(t)
    BY DEF Holders
  <1>2. Holders(s)' = Holders(s) \ {l} /\ l \in Holders(s)
    BY DEF Holders
  <1>. QED  BY <1>1, <1>2 DEF readersOf

(* The constructor's state maps to the abstract initial state.             *)
LEMMA RefineInit == Init => Lifecycle!Init
  BY DEF Init, Lifecycle!Init, phaseOf, blockOf, readersOf, Holders, state

(* try_reserve takes effect at its store of Writing; its other steps, and  *)
(* the admission, are invisible.                                           *)
LEMMA RefineAppend ==
    ASSUME IInv, Appender
    PROVE  [Lifecycle!Next]_(Lifecycle!vars)
  <1> USE DEF IInv, TypeOK, repoVars, ringVars, leaseVars, appendVars, callVars, reclaimVars
  <1>1. CASE \/ \E n \in 1 .. Capacity : Admit(n)
             \/ Exhausted \/ PopSlot \/ PopAdvance
             \/ \E l \in Leases : StoreGeneration(l)
    <2>1. UNCHANGED <<control, record, sequence>> /\ apc # "record" /\ apc' # "record"
      BY <1>1 DEF Admit, Exhausted, PopSlot, PopAdvance, StoreGeneration
    <2>2. \A l \in Leases : (lstate'[l] = "empty" <=> lstate[l] = "empty")
                            /\ handle'[l].slot = handle[l].slot
      BY <1>1 DEF Admit, Exhausted, PopSlot, PopAdvance, StoreGeneration
    <2>3. blockOf' = blockOf
      BY <2>1 DEF blockOf
    <2>. QED  BY <2>1, <2>2, <2>3, MapSame DEF Lifecycle!vars
  <1>2. CASE StoreRecord
    <2>1. blockOf' = blockOf
      BY <1>2 DEF StoreRecord, blockOf
    <2>. QED  BY <1>2, <2>1, MapSame DEF StoreRecord, Lifecycle!vars
  <1>3. ASSUME NEW l \in Leases, StoreWriting(l) PROVE Lifecycle!Next
    <2>1. control[aslot].phase = "Free" /\ control[aslot].refs = 0 /\ sequence < MaxSequence
      BY <1>3 DEF StoreWriting, AppendInv, SlotInv
    <2>2. phaseOf' = [phaseOf EXCEPT ![aslot] = "Writing"]
      BY <1>3, MapPhase DEF StoreWriting, state
    <2>3. blockOf' = [blockOf EXCEPT ![aslot] = sequence + 1]
      BY <1>3 DEF StoreWriting, blockOf
    <2>4. readersOf' = [readersOf EXCEPT ![aslot] = @ \cup {l}] /\ \A t \in Slots : l \notin readersOf[t]
      BY <1>3, MapJoin DEF StoreWriting
    <2>5. readersOf[aslot] = {}
      BY <2>1, HoldersCount DEF readersOf
    <2>6. phaseOf[aslot] = "Free" /\ sequence' = sequence + 1
      BY <1>3, <2>1 DEF phaseOf, StoreWriting
    <2>7. Lifecycle!Reserve(aslot, l)
      BY <2>1, <2>2, <2>3, <2>4, <2>5, <2>6
      DEF Lifecycle!Reserve, Lifecycle!Idle, Lifecycle!SetPhase
    <2>. QED  BY <2>7 DEF Lifecycle!Next
  <1>. QED  BY <1>1, <1>2, <1>3 DEF Appender

(* Every operation on a lease or a reservation is one abstract operation,  *)
(* at its compare-and-swap, or invisible.                                  *)
LEMMA RefineLease ==
    ASSUME IInv, NEW l \in Leases, LeaseOwner(l)
    PROVE  [Lifecycle!Next]_(Lifecycle!vars)
  <1> USE DEF IInv, TypeOK, repoVars, ringVars, leaseVars, appendVars, callVars, reclaimVars
  <1>0. handle[l].slot \in Slots
    BY DEF Handle
  <1>u. sequence' = sequence /\ blockOf' = blockOf
    <2>1. UNCHANGED <<record, sequence, appendVars>>
      BY LeaseTouches
    <2>. QED  BY <2>1 DEF blockOf
  <1>h. lstate[l] # "empty" => l \in readersOf[handle[l].slot]
    BY <1>0 DEF readersOf, Holders
  <1>p. \A s \in Slots : phaseOf[s] = control[s].phase
    BY DEF phaseOf
  <1> DEFINE s == handle[l].slot
  <1>1. ASSUME UNCHANGED handle, lstate[l] # "empty", lstate'[l] # "empty",
               \A m \in Leases \ {l} : lstate'[m] = lstate[m],
               control' = [control EXCEPT ![s] = control'[s]],
               PhaseStep(s), control[s].phase \notin {"Free", "Releasing"},
               control'[s].phase # "Releasing"
        PROVE  [Lifecycle!Next]_(Lifecycle!vars)
    <2>1. readersOf' = readersOf
      BY <1>1 DEF readersOf, Holders
    <2>2. phaseOf' = [phaseOf EXCEPT ![s] = control'[s].phase]
      BY <1>0, <1>1, MapPhase
    <2>3. CASE control'[s].phase = control[s].phase
      <3>1. phaseOf' = phaseOf
        BY <1>0, <2>2, <2>3, <1>p DEF phaseOf
      <3>. QED  BY <1>u, <2>1, <3>1 DEF Lifecycle!vars
    <2>4. CASE control[s].phase = "Writing" /\ control'[s].phase = "Live"
      <3>1. Lifecycle!Publish(s, l)
        BY <1>0, <1>1, <1>h, <1>p, <1>u, <2>1, <2>2, <2>4 DEF Lifecycle!Publish, Lifecycle!SetPhase
      <3>. QED  BY <1>0, <3>1 DEF Lifecycle!Next
    <2>5. CASE control[s].phase = "Writing" /\ control'[s].phase = "Cancelled"
      <3>1. Lifecycle!Abandon(s, l)
        BY <1>0, <1>1, <1>h, <1>p, <1>u, <2>1, <2>2, <2>5 DEF Lifecycle!Abandon, Lifecycle!SetPhase
      <3>. QED  BY <1>0, <3>1 DEF Lifecycle!Next
    <2>6. CASE control[s].phase = "Live" /\ control'[s].phase = "Retired"
      <3>1. Lifecycle!Withdraw(s, l)
        BY <1>0, <1>1, <1>h, <1>p, <1>u, <2>1, <2>2, <2>6 DEF Lifecycle!Withdraw, Lifecycle!SetPhase
      <3>. QED  BY <1>0, <3>1 DEF Lifecycle!Next
    <2>7. CASE control[s].phase = "Retired" /\ control'[s].phase = "Live"
      <3>1. Lifecycle!Restore(s, l)
        BY <1>0, <1>1, <1>h, <1>p, <1>u, <2>1, <2>2, <2>7 DEF Lifecycle!Restore, Lifecycle!SetPhase
      <3>. QED  BY <1>0, <3>1 DEF Lifecycle!Next
    <2>. QED  BY <1>1, <2>3, <2>4, <2>5, <2>6, <2>7 DEF PhaseStep
  <1>2. CASE Commit(l) \/ Cancel(l) \/ Retire(l) \/ RetireIfOnlyReader(l) \/ Rescue(l)
    <2>1. /\ UNCHANGED handle /\ lstate[l] \notin {"empty", "reserving"} /\ lstate'[l] # "empty"
          /\ \A m \in Leases \ {l} : lstate'[m] = lstate[m]
          /\ control' = [control EXCEPT ![s] = control'[s]]
      BY <1>2, <1>0 DEF Commit, Cancel, Retire, RetireIfOnlyReader, Rescue
    <2>2. Holders(s) # {}
      BY <2>1, <1>h, <1>0 DEF readersOf
    <2>3. control[s].phase \notin {"Free", "Releasing"}
      BY <2>2, <1>0, HoldersCount DEF SlotInv
    <2>4. PhaseStep(s) /\ control'[s].phase # "Releasing"
      BY <1>2, <1>0, <2>2, <2>3 DEF Commit, Cancel, Retire, RetireIfOnlyReader, RetireOnlyReader,
         Rescue, PhaseStep, state
    <2>. QED  BY <2>1, <2>3, <2>4, <1>1
  <1>3. CASE Confirm(l)
    <2>1. \A m \in Leases : (lstate'[m] = "empty" <=> lstate[m] = "empty")
                            /\ handle'[m].slot = handle[m].slot
      BY <1>3 DEF Confirm
    <2>. QED  BY <1>3, <2>1, <1>u, MapSame DEF Confirm, Lifecycle!vars
  <1>4. CASE Reset(l)
    <2>1. readersOf' = [readersOf EXCEPT ![s] = @ \ {l}] /\ l \in readersOf[s]
      BY <1>4, <1>0, MapLeave DEF Reset
    <2>2. control[s].refs > 0
      BY <2>1, <1>0, HoldersCount DEF readersOf
    <2>3. phaseOf' = phaseOf
      BY <1>4, <1>0, <2>2 DEF Reset, DropRef, state, phaseOf
    <2>4. Lifecycle!Leave(s, l)
      BY <1>u, <2>1, <2>3 DEF Lifecycle!Leave
    <2>. QED  BY <1>0, <2>4 DEF Lifecycle!Next
  <1>5. ASSUME NEW t \in Slots, NEW g, NEW then \in {"held", "retire", "retire_only"},
               Acquire(l, t, g, then)
        PROVE  Lifecycle!Next
    <2>0. control[t] \in Word /\ control[t].refs <= RefMask /\ control[t].refs # RefMask
      BY <1>5 DEF Acquire, acquirable, SlotInv
    <2>1. phaseOf' = phaseOf
      BY <1>5, <2>0, AddRefCount DEF Acquire, state, phaseOf
    <2>2. readersOf' = [readersOf EXCEPT ![t] = @ \cup {l}] /\ \A x \in Slots : l \notin readersOf[x]
      BY <1>5, MapJoin DEF Acquire
    <2>3. phaseOf[t] = "Live"
      BY <1>5, <1>p DEF Acquire, acquirable
    <2>4. Lifecycle!Pin(t, l)
      BY <1>u, <2>1, <2>2, <2>3 DEF Lifecycle!Pin, Lifecycle!Idle
    <2>. QED  BY <2>4 DEF Lifecycle!Next
  <1>6. ASSUME NEW m \in Leases, Clone(l, m) PROVE Lifecycle!Next
    <2>0. control[s] \in Word /\ control[s].refs <= RefMask /\ control[s].refs # RefMask
      BY <1>6, <1>0 DEF Clone, acquirable, SlotInv
    <2>1. phaseOf' = phaseOf
      BY <1>6, <2>0, <1>0, AddRefCount DEF Clone, state, phaseOf
    <2>2. readersOf' = [readersOf EXCEPT ![s] = @ \cup {m}] /\ \A x \in Slots : m \notin readersOf[x]
      BY <1>6, <1>0, MapJoin DEF Clone
    <2>3. Lifecycle!Share(s, l, m)
      BY <1>6, <1>h, <1>u, <2>1, <2>2 DEF Lifecycle!Share, Lifecycle!Idle, Clone
    <2>. QED  BY <1>0, <2>3 DEF Lifecycle!Next
  <1>. QED  BY <1>2, <1>3, <1>4, <1>5, <1>6 DEF LeaseOwner

(* try_reclaim is invisible but for the compare-and-swap to Releasing and  *)
(* the store of Free.                                                      *)
LEMMA RefineReclaim ==
    ASSUME IInv, NEW r \in Reclaimers, Reclaimer(r)
    PROVE  [Lifecycle!Next]_(Lifecycle!vars)
  <1> USE DEF IInv, TypeOK, repoVars, ringVars, leaseVars, appendVars, callVars, reclaimVars
  <1>0. UNCHANGED <<lstate, handle, record, sequence, apc, aslot>>
    BY DEF Reclaimer, ReclaimStep, ScanPhase, CallReclaim, ScanGeneration, TakeOwner,
       LoadPrior, CheckGeneration, TakeReleasing, ReleaseDone, ReleaseDeferred, StoreFree,
       PushSlot, PushPublish, Unlock
  <1>1. blockOf' = blockOf /\ readersOf' = readersOf
    BY <1>0 DEF blockOf, readersOf, Holders
  <1> DEFINE s == rslot[r]
  <1>2. CASE TakeReleasing(r)
    <2>1. control[s] = rprior[r] /\ control[s].phase \in {"Retired", "Cancelled"} /\ control[s].refs = 0
      BY <1>2 DEF TakeReleasing, ReclaimInv
    <2>2. phaseOf' = [phaseOf EXCEPT ![s] = "Releasing"]
      BY <1>2, <2>1, MapPhase DEF TakeReleasing, state
    <2>3. readersOf[s] = {} /\ phaseOf[s] \in {"Retired", "Cancelled"}
      BY <2>1, HoldersCount DEF readersOf, phaseOf
    <2>4. Lifecycle!Seal(s)
      BY <1>0, <1>1, <2>2, <2>3 DEF Lifecycle!Seal, Lifecycle!SetPhase
    <2>. QED  BY <2>4 DEF Lifecycle!Next
  <1>3. CASE StoreFree(r)
    <2>1. phaseOf[s] = "Releasing"
      BY <1>3 DEF StoreFree, ReclaimInv, state, phaseOf
    <2>2. phaseOf' = [phaseOf EXCEPT ![s] = "Free"]
      BY <1>3, MapPhase DEF StoreFree, state
    <2>3. Lifecycle!Recycle(s)
      BY <1>0, <1>1, <2>1, <2>2 DEF Lifecycle!Recycle, Lifecycle!SetPhase
    <2>. QED  BY <2>3 DEF Lifecycle!Next
  <1>4. CASE UNCHANGED control
    <2>1. phaseOf' = phaseOf
      BY <1>4 DEF phaseOf
    <2>. QED  BY <1>0, <1>1, <2>1 DEF Lifecycle!vars
  <1>5. UNCHANGED control \/ TakeReleasing(r) \/ StoreFree(r)
    BY DEF Reclaimer, ReclaimStep, ScanPhase, CallReclaim, ScanGeneration, TakeOwner,
       LoadPrior, CheckGeneration, ReleaseDone, ReleaseDeferred, PushSlot, PushPublish, Unlock
  <1>. QED  BY <1>2, <1>3, <1>4, <1>5

(* The repository implements the block life cycle: every behaviour of its  *)
(* lock-free steps is, under the reader-set mapping, a behaviour of        *)
(* BlockLifecycle.                                                         *)
THEOREM RepositoryImplementsLifecycle == Spec => ImplementsLifecycle
  <1>1. IInv /\ [Next]_vars => [Lifecycle!Next]_(Lifecycle!vars)
    <2> SUFFICES ASSUME IInv, [Next]_vars PROVE [Lifecycle!Next]_(Lifecycle!vars)
      OBVIOUS
    <2>1. CASE UNCHANGED vars
      BY <2>1 DEF vars, repoVars, leaseVars, appendVars, Lifecycle!vars, phaseOf, blockOf,
         readersOf, Holders
    <2>. QED  BY <2>1, RefineAppend, RefineLease, RefineReclaim DEF Next
  <1>. QED  BY RefineInit, <1>1, Invariance, PTL DEF Spec, ImplementsLifecycle, Lifecycle!Spec

(* The phases move only along the life cycle, with readers present when a  *)
(* block comes back and absent when it is sealed: [][PhaseStep]_vars.  The *)
(* reader facts come from the refinement, the released bundle from IInv.   *)
THEOREM PhasesFollowLifeCycle == Spec => LifeCycle
  <1>1. IInv /\ IInv' /\ [Next]_vars => [\A s \in Slots : PhaseStep(s)]_vars
    <2> SUFFICES ASSUME IInv, IInv', Next, NEW s \in Slots PROVE PhaseStep(s)
      OBVIOUS
    <2>1. /\ phaseOf[s] = control[s].phase /\ phaseOf'[s] = control'[s].phase
          /\ readersOf[s] = Holders(s)
      BY DEF phaseOf, readersOf
    <2>2. control'[s].phase = "Free" /\ control[s].phase # "Free" => bundle[s] = "none"
      <3>1. control'[s].phase = "Free" => bundle'[s] = "none"
        BY DEF IInv, SlotInv
      <3>2. CASE Appender
        <4>1. control' = control \/ \E l \in Leases : StoreWriting(l)
          BY <3>2 DEF Appender, Admit, Exhausted, PopSlot, PopAdvance, StoreRecord,
             StoreGeneration, repoVars
        <4>2. control'[s] = control[s] \/ control'[s] = state("Writing", 1)
          BY <4>1 DEF StoreWriting, IInv, TypeOK
        <4>. QED  BY <4>2 DEF state
      <3>3. CASE \E l \in Leases : LeaseOwner(l)
        BY <3>1, <3>3, LeaseTouches
      <3>4. CASE \E r \in Reclaimers : Reclaimer(r)
        <4>1. control' = control \/ bundle' = bundle
          BY <3>4 DEF Reclaimer, ReclaimStep, ScanPhase, CallReclaim, ScanGeneration, TakeOwner,
             LoadPrior, CheckGeneration, TakeReleasing, ReleaseDone, ReleaseDeferred, StoreFree,
             PushSlot, PushPublish, Unlock, repoVars
        <4>. QED  BY <3>1, <4>1
      <3>. QED  BY <3>2, <3>3, <3>4 DEF Next
    <2>3. [Lifecycle!Next]_(Lifecycle!vars)
      BY RefineAppend, RefineLease, RefineReclaim DEF Next
    <2>4. phaseOf \in [Slots -> Phase] /\ phaseOf = [x \in Slots |-> phaseOf[x]]
      BY DEF phaseOf, IInv, TypeOK, Word
    <2>5. \/ phaseOf'[s] = phaseOf[s]
          \/ phaseOf[s] = "Free" /\ phaseOf'[s] = "Writing"
          \/ phaseOf[s] = "Writing" /\ phaseOf'[s] \in {"Live", "Cancelled"}
          \/ phaseOf[s] = "Live" /\ phaseOf'[s] = "Retired"
          \/ phaseOf[s] = "Retired" /\ phaseOf'[s] = "Live" /\ readersOf[s] # {}
          \/ phaseOf[s] \in {"Retired", "Cancelled"} /\ phaseOf'[s] = "Releasing" /\ readersOf[s] = {}
          \/ phaseOf[s] = "Releasing" /\ phaseOf'[s] = "Free"
      BY <2>3, <2>4 DEF Lifecycle!Next, Lifecycle!vars, Lifecycle!SetPhase, Lifecycle!Reserve,
         Lifecycle!Publish, Lifecycle!Abandon, Lifecycle!Pin, Lifecycle!Share, Lifecycle!Leave,
         Lifecycle!Withdraw, Lifecycle!Restore, Lifecycle!Seal, Lifecycle!Recycle
    <2>. QED  BY <2>1, <2>2, <2>5 DEF PhaseStep
  <1>. QED  BY <1>1, Invariance, PTL DEF Spec, LifeCycle
=============================================================================
