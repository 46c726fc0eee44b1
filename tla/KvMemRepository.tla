-------------------------- MODULE KvMemRepository --------------------------
(***************************************************************************)
(* The reusable slot directory of the bounded KV memory                    *)
(* (src/src/kvmem_repository.cpp).  A physical slot carries one atomic     *)
(* control word, a phase together with a reference count, a generation     *)
(* and a record.  Four kinds of actors work on it without a lock: the      *)
(* single append producer (try_reserve), the owners of reservations        *)
(* (commit, cancel), the owners of leases (try_pin, clone, reset, retire,  *)
(* rescue) and the reclaimers (try_reclaim), which return slots through a  *)
(* single-producer single-consumer ring.                                   *)
(*                                                                         *)
(* A compare-and-swap loop of the code decides on the word it compares     *)
(* and on nothing else, so a successful loop is one atomic step on the     *)
(* word and an unsuccessful call changes nothing (a stuttering step).      *)
(* Where a decision also reads other memory (record, generation, ring) the *)
(* loads and stores are separate steps.                                    *)
(***************************************************************************)
EXTENDS Integers, FiniteSets

CONSTANTS
    Capacity,      \* config.capacity: number of physical slots
    Leases,        \* Lease objects that can exist at one time
    Reclaimers,    \* threads that may call try_reclaim
    MaxSequence,   \* UINT64_MAX: the last history identity
    RefMask        \* ref_mask: the largest reference count the word holds

ASSUME CapacityAssumption == Capacity \in Nat \ {0}
ASSUME LeasesAssumption == IsFiniteSet(Leases)
ASSUME MaxSequenceAssumption == MaxSequence \in Nat
ASSUME RefMaskAssumption == RefMask \in Nat \ {0}

VARIABLES
    control,       \* control[s]: the atomic word, [phase, refs]
    generation,    \* generation[s]: the atomic generation, the scan hint
    record,        \* record[s]: generation stored in the plain record
    ready, head, tail,   \* the ring and its two indices
    sequence,      \* identities handed out so far
    reclaim_owner, \* the flag that makes one reclaimer the owner
    bundle,        \* bundle[s]: storage owned by the slot's current block
    lstate,        \* lstate[l]: where the owner of lease object l is
    handle,        \* handle[l]: Lease::handle_, generation 0 until it is read
    wanted,        \* wanted[l]: generation try_pin was asked for, 0 for any
    after,         \* after[l]: what the caller does once the pin is confirmed
    apc, aslot,    \* the append producer: its step and the slot it popped
    need,          \* slots its admitted append still has to reserve
    rpc,           \* rpc[r]: where reclaimer r is
    rslot, rgeneration,  \* the handle try_reclaim was called with
    rprior         \* the control word it loaded

repoVars == <<control, generation, record, bundle>>
ringVars == <<ready, head, tail>>
leaseVars == <<lstate, handle, wanted, after>>
appendVars == <<apc, aslot, need>>
callVars == <<rslot, rgeneration, rprior>>
reclaimVars == <<rpc, callVars>>
vars == <<repoVars, ringVars, leaseVars, sequence, reclaim_owner, appendVars,
                   reclaimVars>>

-----------------------------------------------------------------------------
Slots == 0 .. Capacity - 1
Positions == 0 .. Capacity
Phase == {"Free", "Writing", "Live", "Retired", "Releasing", "Cancelled"}
Word == [phase : Phase, refs : Nat]
Handle == [slot : Slots, generation : Nat]

(* The handle of an empty lease, which nothing reads; slot 0 stands for    *)
(* the code's UINT32_MAX.                                                  *)
NoHandle == [slot |-> 0, generation |-> 0]

state(p, n) == [phase |-> p, refs |-> n]

(* Adding one to a word whose count is full carries into the phase bits,   *)
(* and taking one from an empty count borrows from them.                   *)
NextPhase == [p \in Phase |->
    CASE p = "Free" -> "Writing" [] p = "Writing" -> "Live"
      [] p = "Live" -> "Retired" [] p = "Retired" -> "Releasing"
      [] p = "Releasing" -> "Cancelled" [] p = "Cancelled" -> "Cancelled"]
PrevPhase == [p \in Phase |->
    CASE p = "Free" -> "Free" [] p = "Writing" -> "Free"
      [] p = "Live" -> "Writing" [] p = "Retired" -> "Live"
      [] p = "Releasing" -> "Retired" [] p = "Cancelled" -> "Releasing"]
AddRef(w) == IF w.refs < RefMask THEN state(w.phase, w.refs + 1)
                                 ELSE state(NextPhase[w.phase], 0)
DropRef(w) == IF w.refs > 0 THEN state(w.phase, w.refs - 1)
                            ELSE state(PrevPhase[w.phase], RefMask)

(* The phases a reclaimer may take a slot from.                            *)
Reclaimable == {"Retired", "Releasing", "Cancelled"}

(* The next position of the ring.                                          *)
next(i) == IF i = Capacity THEN 0 ELSE i + 1

(* Mutants of acquire(): no test for a full count; a pin of a Retired      *)
(* block.                                                                  *)
acquirable_NoLimit(w, existing) ==
    IF existing THEN w.refs # 0 /\ w.phase \notin {"Free", "Releasing"}
                ELSE w.phase = "Live"
acquirable_Retired(w, existing) ==
    /\ IF existing THEN w.refs # 0 /\ w.phase \notin {"Free", "Releasing"}
                   ELSE w.phase \in {"Live", "Retired"}
    /\ w.refs # RefMask

(* What acquire() checks before it adds one: a fresh pin needs a Live      *)
(* block, an existing lease may be cloned in every phase it can be held.   *)
acquirable(w, existing) ==
    /\ IF existing THEN w.refs # 0 /\ w.phase \notin {"Free", "Releasing"}
                   ELSE w.phase = "Live"
    /\ w.refs # RefMask

-----------------------------------------------------------------------------
Init ==
    /\ control = [s \in Slots |-> state("Free", 0)]
    /\ generation = [s \in Slots |-> 0]
    /\ record = [s \in Slots |-> 0]
    /\ ready = [i \in Positions |-> IF i < Capacity THEN i ELSE 0]
    /\ head = 0
    /\ tail = Capacity
    /\ sequence = 0
    /\ reclaim_owner = FALSE
    /\ bundle = [s \in Slots |-> "none"]
    /\ lstate = [l \in Leases |-> "empty"]
    /\ handle = [l \in Leases |-> NoHandle]
    /\ wanted = [l \in Leases |-> 0]
    /\ after = [l \in Leases |-> "held"]
    /\ apc = "idle"
    /\ aslot = 0
    /\ need = 0
    /\ rpc = [r \in Reclaimers |-> "idle"]
    /\ rslot = [r \in Reclaimers |-> 0]
    /\ rgeneration = [r \in Reclaimers |-> 0]
    /\ rprior = [r \in Reclaimers |-> state("Free", 0)]

-----------------------------------------------------------------------------
(* The append producer: prepare_repository_append and try_reserve.         *)

(* The number of queued slots, as the owner of head sees it.               *)
ready_slots == IF tail >= head THEN tail - head ELSE (Capacity - head) + tail + 1

(* prepare_repository_append: admission of an append that needs n slots.   *)
Admit(n) ==
    /\ apc = "idle"
    /\ need = 0
    /\ ready_slots >= n
    /\ need' = n
    /\ UNCHANGED <<repoVars, ringVars, leaseVars, sequence, reclaim_owner, apc, aslot,
                   reclaimVars>>

(* try_reserve throws when the identities are exhausted: the append ends.  *)
Exhausted ==
    /\ apc = "idle"
    /\ need > 0
    /\ sequence = MaxSequence
    /\ need' = 0
    /\ UNCHANGED <<repoVars, ringVars, leaseVars, sequence, reclaim_owner, apc, aslot,
                   reclaimVars>>

(* pop: the ring is not empty; read the slot at the head.                  *)
PopSlot ==
    /\ apc = "idle"
    /\ need > 0
    /\ sequence < MaxSequence
    /\ head # tail
    /\ apc' = "advance"
    /\ aslot' = ready[head]
    /\ need' = need - 1
    /\ UNCHANGED <<repoVars, ringVars, leaseVars, sequence, reclaim_owner, reclaimVars>>

(* pop: publish the new head to the reclaimer.                             *)
PopAdvance ==
    /\ apc = "advance"
    /\ head' = next(head)
    /\ apc' = "control"
    /\ UNCHANGED <<repoVars, ready, tail, leaseVars, sequence, reclaim_owner, aslot, need,
                   reclaimVars>>

(* The word becomes Writing with the reservation's own reference; from now *)
(* on the caller may write the storage bundle of the new block.            *)
StoreWriting(l) ==
    /\ apc = "control"
    /\ lstate[l] = "empty"
    /\ control' = [control EXCEPT ![aslot] = state("Writing", 1)]
    /\ bundle' = [bundle EXCEPT ![aslot] = "whole"]
    /\ sequence' = sequence + 1
    /\ lstate' = [lstate EXCEPT ![l] = "reserving"]
    /\ handle' = [handle EXCEPT ![l] = [slot |-> aslot, generation |-> sequence + 1]]
    /\ apc' = "record"
    /\ UNCHANGED <<generation, record, ringVars, wanted, after, reclaim_owner, aslot, need, reclaimVars>>

(* The record names the new block.                                         *)
StoreRecord ==
    /\ apc = "record"
    /\ record' = [record EXCEPT ![aslot] = sequence]
    /\ apc' = "generation"
    /\ UNCHANGED <<control, generation, bundle, ringVars, leaseVars, sequence,
                   reclaim_owner, aslot, need, reclaimVars>>

(* The generation is stored last and the reservation is returned.          *)
StoreGeneration(l) ==
    /\ apc = "generation"
    /\ lstate[l] = "reserving"
    /\ generation' = [generation EXCEPT ![aslot] = sequence]
    /\ lstate' = [lstate EXCEPT ![l] = "writing"]
    /\ apc' = "idle"
    /\ UNCHANGED <<control, record, bundle, ringVars, handle, wanted, after, sequence,
                   reclaim_owner, aslot, need, reclaimVars>>

-----------------------------------------------------------------------------
(* Reservations.                                                           *)

(* Reservation::commit: the lease is handed over to the caller.            *)
Commit(l) ==
    /\ lstate[l] = "writing"
    /\ LET s == handle[l].slot IN
         /\ control[s].phase = "Writing"
         /\ control' = [control EXCEPT ![s] = state("Live", @.refs)]
    /\ lstate' = [lstate EXCEPT ![l] = "held"]
    /\ UNCHANGED <<generation, record, bundle, ringVars, handle, wanted, after, sequence,
                   reclaim_owner, appendVars, reclaimVars>>

(* Reservation::cancel: mark the block, then drop the reservation's lease. *)
Cancel(l) ==
    /\ lstate[l] = "writing"
    /\ LET s == handle[l].slot IN
         control' = [control EXCEPT ![s] =
                        IF @.phase = "Writing" THEN state("Cancelled", @.refs) ELSE @]
    /\ lstate' = [lstate EXCEPT ![l] = "drop"]
    /\ UNCHANGED <<generation, record, bundle, ringVars, handle, wanted, after, sequence,
                   reclaim_owner, appendVars, reclaimVars>>

-----------------------------------------------------------------------------
(* Leases.                                                                 *)

(* try_pin_slot(s), and the first half of try_pin([s, g]), retire([s, g])  *)
(* and retire_if_unpinned([s, g]): the acquire succeeds on whatever block  *)
(* the slot holds now.                                                     *)
Acquire(l, s, g, then) ==
    /\ lstate[l] = "empty"
    /\ acquirable(control[s], FALSE)
    /\ control' = [control EXCEPT ![s] = AddRef(@)]
    /\ lstate' = [lstate EXCEPT ![l] = "pinned"]
    /\ handle' = [handle EXCEPT ![l] = [slot |-> s, generation |-> 0]]
    /\ wanted' = [wanted EXCEPT ![l] = g]
    /\ after' = [after EXCEPT ![l] = then]
    /\ UNCHANGED <<generation, record, bundle, ringVars, sequence, reclaim_owner, appendVars,
                   reclaimVars>>

(* Mutant: the lease is built from the handle that was asked for, without  *)
(* reading the record.                                                     *)
Confirm_Unread(l) ==
    /\ lstate[l] = "pinned"
    /\ LET s == handle[l].slot
           g == IF wanted[l] = 0 THEN record[s] ELSE wanted[l] IN
         handle' = [handle EXCEPT ![l] = [slot |-> s, generation |-> g]]
    /\ lstate' = [lstate EXCEPT ![l] = after[l]]
    /\ UNCHANGED <<repoVars, ringVars, wanted, after, sequence, reclaim_owner, appendVars,
                   reclaimVars>>

(* The pin protects the record: read its handle, and give the pin up when  *)
(* it is not the block that was asked for.                                 *)
Confirm(l) ==
    /\ lstate[l] = "pinned"
    /\ LET s == handle[l].slot IN
         /\ handle' = [handle EXCEPT ![l] = [slot |-> s, generation |-> record[s]]]
         /\ lstate' = [lstate EXCEPT ![l] =
                IF wanted[l] \in {0, record[s]} THEN after[l] ELSE "drop"]
    /\ UNCHANGED <<repoVars, ringVars, wanted, after, sequence, reclaim_owner, appendVars,
                   reclaimVars>>

(* Lease::clone and Reservation::lease: m becomes a second lease on the    *)
(* block of l.  At the full count the call throws and changes nothing.     *)
Clone(l, m) ==
    /\ lstate[l] \in {"held", "writing"}
    /\ lstate[m] = "empty"
    /\ acquirable(control[handle[l].slot], TRUE)
    /\ control' = [control EXCEPT ![handle[l].slot] = AddRef(@)]
    /\ lstate' = [lstate EXCEPT ![m] = "held"]
    /\ handle' = [handle EXCEPT ![m] = handle[l]]
    /\ UNCHANGED <<generation, record, bundle, ringVars, wanted, after, sequence,
                   reclaim_owner, appendVars, reclaimVars>>

(* Lease::reset, called by the owner or by a destructor.                   *)
Reset(l) ==
    /\ lstate[l] \in {"held", "drop"}
    /\ control' = [control EXCEPT ![handle[l].slot] = DropRef(@)]
    /\ lstate' = [lstate EXCEPT ![l] = "empty"]
    /\ handle' = [handle EXCEPT ![l] = NoHandle]
    /\ wanted' = [wanted EXCEPT ![l] = 0]
    /\ after' = [after EXCEPT ![l] = "held"]
    /\ UNCHANGED <<generation, record, bundle, ringVars, sequence, reclaim_owner, appendVars,
                   reclaimVars>>

(* The second half of retire: a Live block is hidden whoever still reads   *)
(* it, then the temporary pin is dropped.                                  *)
Retire(l) ==
    /\ lstate[l] = "retire"
    /\ control' = [control EXCEPT ![handle[l].slot] =
                      IF @.phase = "Live" THEN state("Retired", @.refs) ELSE @]
    /\ lstate' = [lstate EXCEPT ![l] = "drop"]
    /\ UNCHANGED <<generation, record, bundle, ringVars, handle, wanted, after, sequence,
                   reclaim_owner, appendVars, reclaimVars>>

(* The compare-and-swap of retire_if_only_reader.                          *)
RetireOnlyReader(w) == IF w = state("Live", 1) THEN state("Retired", 1) ELSE w

(* retire_if_only_reader on a lease the caller keeps, and the second half  *)
(* of retire_if_unpinned, whose temporary pin is dropped afterwards.       *)
RetireIfOnlyReader(l) ==
    /\ lstate[l] \in {"held", "retire_only"}
    /\ control' = [control EXCEPT ![handle[l].slot] = RetireOnlyReader(@)]
    /\ lstate' = [lstate EXCEPT ![l] = IF @ = "held" THEN "held" ELSE "drop"]
    /\ UNCHANGED <<generation, record, bundle, ringVars, handle, wanted, after, sequence,
                   reclaim_owner, appendVars, reclaimVars>>

(* rescue: a lease holder makes a Retired block Live again.                *)
Rescue(l) ==
    /\ lstate[l] = "held"
    /\ control[handle[l].slot].phase = "Retired"
    /\ control' = [control EXCEPT ![handle[l].slot] = state("Live", @.refs)]
    /\ UNCHANGED <<generation, record, bundle, ringVars, leaseVars, sequence,
                   reclaim_owner, appendVars, reclaimVars>>

-----------------------------------------------------------------------------
(* Reclaimers.                                                             *)

Goto(r, pc) == rpc' = [rpc EXCEPT ![r] = pc]

(* retired_at(s): the phase first.                                         *)
ScanPhase(r, s) ==
    /\ rpc[r] = "idle"
    /\ control[s].phase \in Reclaimable
    /\ Goto(r, "hint")
    /\ rslot' = [rslot EXCEPT ![r] = s]
    /\ UNCHANGED <<repoVars, ringVars, leaseVars, sequence, reclaim_owner, appendVars,
                   rgeneration, rprior>>

(* retired_at(s): then the generation, which may be a later block's.       *)
ScanGeneration(r) ==
    /\ rpc[r] = "hint"
    /\ Goto(r, "own")
    /\ rgeneration' = [rgeneration EXCEPT ![r] = generation[rslot[r]]]
    /\ UNCHANGED <<repoVars, ringVars, leaseVars, sequence, reclaim_owner, appendVars,
                   rslot, rprior>>

(* try_reclaim called with a handle the caller kept from before.           *)
CallReclaim(r, s, g) ==
    /\ rpc[r] = "idle"
    /\ Goto(r, "own")
    /\ rslot' = [rslot EXCEPT ![r] = s]
    /\ rgeneration' = [rgeneration EXCEPT ![r] = g]
    /\ UNCHANGED <<repoVars, ringVars, leaseVars, sequence, reclaim_owner, appendVars, rprior>>

(* Busy when another reclaimer is the owner.                               *)
TakeOwner(r) ==
    /\ rpc[r] = "own"
    /\ reclaim_owner' = TRUE
    /\ Goto(r, IF reclaim_owner THEN "idle" ELSE "load")
    /\ UNCHANGED <<repoVars, ringVars, leaseVars, sequence, appendVars, callVars>>

(* Load the word; NotRetired ends the call.                                *)
LoadPrior(r) ==
    /\ rpc[r] = "load"
    /\ rprior' = [rprior EXCEPT ![r] = control[rslot[r]]]
    /\ Goto(r, IF control[rslot[r]].phase \in Reclaimable THEN "check" ELSE "unlock")
    /\ UNCHANGED <<repoVars, ringVars, leaseVars, sequence, reclaim_owner, appendVars,
                   rslot, rgeneration>>

(* Mutant: the handle is not compared with the slot's generation.          *)
CheckGeneration_AnyHandle(r) ==
    /\ rpc[r] = "check"
    /\ Goto(r, IF rprior[r].refs # 0 THEN "unlock"
               ELSE IF rprior[r].phase = "Releasing" THEN "release" ELSE "cas")
    /\ UNCHANGED <<repoVars, ringVars, leaseVars, sequence, reclaim_owner, appendVars,
                   callVars>>

(* Mutant: a slot that is already Releasing is not taken up again.         *)
CheckGeneration_NoRetry(r) ==
    /\ rpc[r] = "check"
    /\ Goto(r, IF \/ generation[rslot[r]] # rgeneration[r]
                  \/ rprior[r].refs # 0
                  \/ rprior[r].phase = "Releasing"
                  THEN "unlock" ELSE "cas")
    /\ UNCHANGED <<repoVars, ringVars, leaseVars, sequence, reclaim_owner, appendVars,
                   callVars>>

(* StaleHandle and DeferredReaders end the call.                           *)
CheckGeneration(r) ==
    /\ rpc[r] = "check"
    /\ Goto(r, IF generation[rslot[r]] # rgeneration[r] \/ rprior[r].refs # 0
                  THEN "unlock"
                  ELSE IF rprior[r].phase = "Releasing" THEN "release" ELSE "cas")
    /\ UNCHANGED <<repoVars, ringVars, leaseVars, sequence, reclaim_owner, appendVars,
                   callVars>>

(* The strong compare-and-swap to Releasing; a raced word defers.          *)
TakeReleasing(r) ==
    LET s == rslot[r]
        won == control[s] = rprior[r]
    IN  /\ rpc[r] = "cas"
        /\ control' = IF won THEN [control EXCEPT ![s] = state("Releasing", 0)] ELSE control
        /\ Goto(r, IF won THEN "release" ELSE "unlock")
        /\ UNCHANGED <<generation, record, bundle, ringVars, leaseVars, sequence,
                       reclaim_owner, appendVars, callVars>>

(* The release callback returns true: the whole bundle is free.            *)
ReleaseDone(r) ==
    /\ rpc[r] = "release"
    /\ bundle' = [bundle EXCEPT ![rslot[r]] = "none"]
    /\ Goto(r, "free")
    /\ UNCHANGED <<control, generation, record, ringVars, leaseVars, sequence,
                   reclaim_owner, appendVars, callVars>>

(* Mutant: a false return is taken for success.                            *)
ReleaseDeferred_Free(r) ==
    /\ rpc[r] = "release"
    /\ \E b \in {bundle[rslot[r]], "part"} :
          bundle' = [bundle EXCEPT ![rslot[r]] = b]
    /\ Goto(r, "free")
    /\ UNCHANGED <<control, generation, record, ringVars, leaseVars, sequence,
                   reclaim_owner, appendVars, callVars>>

(* It returns false or throws, perhaps with one component already freed.   *)
ReleaseDeferred(r) ==
    /\ rpc[r] = "release"
    /\ \E b \in {bundle[rslot[r]], "part"} :
          bundle' = [bundle EXCEPT ![rslot[r]] = b]
    /\ Goto(r, "unlock")
    /\ UNCHANGED <<control, generation, record, ringVars, leaseVars, sequence,
                   reclaim_owner, appendVars, callVars>>

(* The slot is empty: a plain store, nobody else writes the word now.      *)
StoreFree(r) ==
    /\ rpc[r] = "free"
    /\ control' = [control EXCEPT ![rslot[r]] = state("Free", 0)]
    /\ Goto(r, "push")
    /\ UNCHANGED <<generation, record, bundle, ringVars, leaseVars, sequence,
                   reclaim_owner, appendVars, callVars>>

(* push: the ring has room (a full ring throws, and the slot is lost).     *)
PushSlot(r) ==
    LET room == next(tail) # head
    IN  /\ rpc[r] = "push"
        /\ ready' = IF room THEN [ready EXCEPT ![tail] = rslot[r]] ELSE ready
        /\ Goto(r, IF room THEN "publish" ELSE "unlock")
        /\ UNCHANGED <<repoVars, head, tail, leaseVars, sequence, reclaim_owner, appendVars,
                   callVars>>

(* push: publish the new tail to the append producer.                      *)
PushPublish(r) ==
    /\ rpc[r] = "publish"
    /\ tail' = next(tail)
    /\ Goto(r, "unlock")
    /\ UNCHANGED <<repoVars, ready, head, leaseVars, sequence, reclaim_owner, appendVars,
                   callVars>>

(* Every return and every exception clears the owner flag.                 *)
Unlock(r) ==
    /\ rpc[r] = "unlock"
    /\ reclaim_owner' = FALSE
    /\ Goto(r, "idle")
    /\ rslot' = [rslot EXCEPT ![r] = 0]
    /\ rgeneration' = [rgeneration EXCEPT ![r] = 0]
    /\ rprior' = [rprior EXCEPT ![r] = state("Free", 0)]
    /\ UNCHANGED <<repoVars, ringVars, leaseVars, sequence, appendVars>>

-----------------------------------------------------------------------------
Appender ==
    \/ \E n \in 1 .. Capacity : Admit(n)
    \/ Exhausted \/ PopSlot \/ PopAdvance \/ StoreRecord
    \/ \E l \in Leases : StoreWriting(l) \/ StoreGeneration(l)

LeaseOwner(l) ==
    \/ Commit(l) \/ Cancel(l) \/ Confirm(l) \/ Reset(l)
    \/ Retire(l) \/ RetireIfOnlyReader(l) \/ Rescue(l)
    \/ \E s \in Slots : Acquire(l, s, 0, "held")
    \/ \E s \in Slots, g \in 1 .. sequence, then \in {"held", "retire", "retire_only"} :
          Acquire(l, s, g, then)
    \/ \E m \in Leases : Clone(l, m)

ReclaimStep(r) ==
    \/ ScanGeneration(r) \/ TakeOwner(r) \/ LoadPrior(r) \/ CheckGeneration(r)
    \/ TakeReleasing(r) \/ ReleaseDone(r) \/ ReleaseDeferred(r)
    \/ StoreFree(r) \/ PushSlot(r) \/ PushPublish(r) \/ Unlock(r)

Reclaimer(r) ==
    \/ \E s \in Slots : ScanPhase(r, s)
    \/ \E s \in Slots, g \in 1 .. sequence : CallReclaim(r, s, g)
    \/ ReclaimStep(r)

Next ==
    \/ Appender
    \/ \E l \in Leases : LeaseOwner(l)
    \/ \E r \in Reclaimers : Reclaimer(r)

Spec == Init /\ [][Next]_vars

(* The background worker never stops stepping, its cursor passes over      *)
(* every slot again and again, and a release callback that is retried      *)
(* eventually succeeds.                                                    *)
Fairness ==
    \A r \in Reclaimers :
        /\ WF_vars(ReclaimStep(r))
        /\ SF_vars(ReleaseDone(r))
        /\ \A s \in Slots : SF_vars(ScanPhase(r, s))

FairSpec == Spec /\ Fairness

-----------------------------------------------------------------------------
(* Properties.                                                             *)

LeaseState == {"empty", "reserving", "writing", "pinned", "held", "retire", "retire_only", "drop"}
AppendPc == {"idle", "advance", "control", "record", "generation"}
ReclaimPc == {"idle", "hint", "own", "load", "check", "cas", "release", "free", "push",
              "publish", "unlock"}

(* Every variable has its type.                                            *)
TypeOK ==
    /\ control \in [Slots -> Word]
    /\ generation \in [Slots -> Nat]
    /\ record \in [Slots -> Nat]
    /\ ready \in [Positions -> Slots]
    /\ head \in Positions
    /\ tail \in Positions
    /\ sequence \in Nat
    /\ reclaim_owner \in BOOLEAN
    /\ bundle \in [Slots -> {"none", "whole", "part"}]
    /\ lstate \in [Leases -> LeaseState]
    /\ handle \in [Leases -> Handle]
    /\ wanted \in [Leases -> Nat]
    /\ after \in [Leases -> {"held", "retire", "retire_only"}]
    /\ apc \in AppendPc
    /\ aslot \in Slots
    /\ need \in Nat
    /\ rpc \in [Reclaimers -> ReclaimPc]
    /\ rslot \in [Reclaimers -> Slots]
    /\ rgeneration \in [Reclaimers -> Nat]
    /\ rprior \in [Reclaimers -> Word]

(* The lease objects that hold a reference on slot s.                      *)
Holders(s) == {l \in Leases : lstate[l] # "empty" /\ handle[l].slot = s}

(* The positions of the ring from h up to t, and those queued now.         *)
Between(h, t) == {i \in Positions : IF h <= t THEN h <= i /\ i < t ELSE h <= i \/ i < t}
Occupied == Between(head, tail)

(* The lease objects whose handle has been read from the record.           *)
Confirmed == {l \in Leases : lstate[l] \in {"writing", "held", "retire", "retire_only", "drop"}}

(* Whoever runs between the owner flag's test_and_set and its clear.       *)
Owners == {r \in Reclaimers : rpc[r] \notin {"idle", "hint", "own"}}

(* The reference count of every control word is the number of lease        *)
(* objects on that slot, through every pin, clone, hand-over and drop, and *)
(* never spills into the phase bits (acquire, Lease::reset).               *)
RefsCountLeases == \A s \in Slots : control[s].refs = Cardinality(Holders(s))

(* The lifetime fence: while a lease on a block exists the slot is not     *)
(* reused for another block, not put back among the free slots, and no     *)
(* part of its storage bundle is released (Lease, try_reclaim).            *)
LeaseFence ==
    /\ \A l \in Leases : lstate[l] # "empty" =>
          /\ control[handle[l].slot].phase \in {"Writing", "Live", "Retired", "Cancelled"}
          /\ bundle[handle[l].slot] = "whole"
    /\ \A l \in Confirmed : record[handle[l].slot] = handle[l].generation

(* A reservation that was not committed or cancelled is still Writing, so  *)
(* Reservation::commit never throws, and its block is unpublished: no      *)
(* other reservation owns it.                                              *)
ReservationWritable ==
    \A l \in Leases : lstate[l] = "writing" =>
        /\ control[handle[l].slot].phase = "Writing"
        /\ \A m \in Leases : lstate[m] \in {"writing", "reserving"} /\ m # l =>
               handle[m].slot # handle[l].slot

(* The release callback runs on one slot at a time, and only while the     *)
(* slot is in its exclusive Releasing state under the caller's handle.     *)
ReleaseExclusive ==
    \A r \in Reclaimers : rpc[r] \in {"release", "free"} =>
        /\ Owners = {r}
        /\ control[rslot[r]] = state("Releasing", 0)
        /\ record[rslot[r]] = rgeneration[r]

(* The slot is on its way from the ring to a reservation, or back.         *)
InTransit(s) ==
    \/ apc = "control" /\ aslot = s
    \/ \E r \in Reclaimers : rpc[r] \in {"push", "publish"} /\ rslot[r] = s

(* No slot is lost and none is handed out twice: the ring holds distinct   *)
(* slots, each Free and with its bundle released, and every Free slot is   *)
(* either in the ring or on its way (pop, push, try_reserve, try_reclaim). *)
ReadyRing ==
    /\ \A i, j \in Occupied : ready[i] = ready[j] => i = j
    /\ \A s \in Slots :
          LET queued == \E i \in Occupied : ready[i] = s IN
          /\ control[s].phase = "Free" <=> queued \/ InTransit(s)
          /\ ~(queued /\ InTransit(s))
          /\ control[s].phase = "Free" => bundle[s] = "none"

(* push never meets a full ring: its logic_error is unreachable.           *)
NoOverflow == \A r \in Reclaimers : rpc[r] = "push" => next(tail) # head

(* An admitted append finds every slot it was promised: the reclaimer only *)
(* adds to the ring after ready_slots was read, so try_reserve never comes *)
(* back empty inside prepare_repository_append.                            *)
AdmissionKept ==
    need > 0 /\ apc = "idle" => head # tail

(* Slots never share an identity: a generation names one block for ever    *)
(* (sequence, try_reserve), so a stale handle cannot match a later block.  *)
IdentityUnique ==
    /\ \A s, t \in Slots : s # t /\ record[s] = record[t] => record[s] = 0
    /\ \A l \in Leases : handle[l].generation <= sequence

-----------------------------------------------------------------------------
(* The inductive invariant.  The properties above are not inductive alone: *)
(* that a lease fences its block rests on the counts, the counts on who    *)
(* holds what between the steps of an operation, and both on the ring      *)
(* never handing out a slot that is in use.                                *)

(* try_reserve is between its store of Writing and its return for slot s.  *)
Building(s) == apc \in {"record", "generation"} /\ aslot = s

(* What the phase of a slot says about its count, its bundle and record.   *)
SlotInv ==
    \A s \in Slots :
        /\ control[s].refs <= RefMask
        /\ control[s].phase \in {"Free", "Releasing"} => control[s].refs = 0
        /\ control[s].phase = "Free" => bundle[s] = "none"
        /\ control[s].phase \notin {"Free", "Releasing"} => bundle[s] = "whole"
        /\ control[s].phase # "Free" /\ ~Building(s) => record[s] = generation[s]

LeaseInv ==
    \A l \in Leases :
        /\ l \in Confirmed => record[handle[l].slot] = handle[l].generation
        /\ lstate[l] = "writing" => control[handle[l].slot].phase = "Writing"
        /\ lstate[l] = "reserving" => Building(handle[l].slot) /\ handle[l].generation = sequence
        /\ lstate[l] # "empty" /\ Building(handle[l].slot) => lstate[l] = "reserving"
        /\ \A m \in Leases :
              lstate[l] \in {"writing", "reserving"} /\ lstate[m] \in {"writing", "reserving"}
                /\ handle[l].slot = handle[m].slot => l = m

AppendInv ==
    /\ apc = "advance" => head # tail /\ aslot = ready[head]
    /\ apc = "control" =>
          /\ control[aslot].phase = "Free"
          /\ sequence < MaxSequence
    /\ apc = "advance" => sequence < MaxSequence
    /\ apc \in {"record", "generation"} => control[aslot].phase = "Writing"
    /\ apc = "generation" => record[aslot] = sequence
    /\ need + (IF apc = "advance" THEN 1 ELSE 0) <= ready_slots

IdentityInv ==
    /\ sequence <= MaxSequence
    /\ \A s \in Slots : record[s] <= sequence /\ (apc = "record" => record[s] < sequence)
    /\ \A s, t \in Slots : s # t /\ record[s] = record[t] => record[s] = 0
    /\ \A l \in Leases : handle[l].generation <= sequence

ReclaimInv ==
    /\ reclaim_owner <=> Owners # {}
    /\ \A r, q \in Owners : r = q
    /\ \A r \in Reclaimers :
          LET s == rslot[r] IN
              /\ rpc[r] = "check" => rprior[r].phase \in Reclaimable
              /\ rpc[r] = "cas" => rprior[r].phase \in {"Retired", "Cancelled"} /\ rprior[r].refs = 0
              /\ rpc[r] \in {"check", "cas"} /\ rprior[r].refs = 0 => control[s] = rprior[r]
              /\ rpc[r] = "cas" => generation[s] = rgeneration[r]
              /\ rpc[r] \in {"release", "free"} =>
                    control[s] = state("Releasing", 0) /\ record[s] = rgeneration[r]
              /\ rpc[r] = "free" => bundle[s] = "none"
              /\ rpc[r] \in {"push", "publish"} => control[s].phase = "Free"
              /\ rpc[r] = "publish" => ready[tail] = s /\ next(tail) # head

RingInv ==
    /\ \A i, j \in Occupied : ready[i] = ready[j] => i = j
    /\ \A i \in Occupied : control[ready[i]].phase = "Free" /\ ~InTransit(ready[i])
    /\ apc = "control" => \A r \in Reclaimers :
          rpc[r] \in {"push", "publish"} => rslot[r] # aslot
    /\ \A s \in Slots : control[s].phase = "Free" =>
          InTransit(s) \/ \E i \in Occupied : ready[i] = s

IInv ==
    /\ TypeOK
    /\ RefsCountLeases
    /\ SlotInv
    /\ LeaseInv
    /\ AppendInv
    /\ IdentityInv
    /\ ReclaimInv
    /\ RingInv

-----------------------------------------------------------------------------
(* The phase of a slot moves only along the life cycle.  In particular a   *)
(* block being released can only become Free, a cancelled one is never     *)
(* published, and a Retired one comes back only while somebody leases it.  *)
PhaseStep(s) ==
    LET p == control[s].phase
        q == control'[s].phase
    IN  p # q =>
        \/ p = "Free" /\ q = "Writing"
        \/ p = "Writing" /\ q \in {"Live", "Cancelled"}
        \/ p = "Live" /\ q = "Retired"
        \/ p = "Retired" /\ q = "Live" /\ Holders(s) # {}
        \/ p \in {"Retired", "Cancelled"} /\ q = "Releasing" /\ Holders(s) = {}
        \/ p = "Releasing" /\ q = "Free" /\ bundle[s] = "none"

(* Every step of every actor keeps all slots on the life cycle.            *)
LifeCycle == [][\A s \in Slots : PhaseStep(s)]_vars

(* A retired or cancelled block that nobody leases any more eventually     *)
(* returns to the free slots (the worker's scan of retired_at).            *)
EventuallyReclaimed ==
    \A s \in Slots :
        control[s].phase \in Reclaimable /\ control[s].refs = 0
            ~> control[s].phase = "Free"

(* The refinement mapping: the reader set behind each count, and the block *)
(* try_reserve is still writing into the record of its slot.               *)
phaseOf == [s \in Slots |-> control[s].phase]
blockOf == [s \in Slots |-> IF apc = "record" /\ aslot = s THEN sequence ELSE record[s]]
readersOf == [s \in Slots |-> Holders(s)]

Lifecycle == INSTANCE BlockLifecycle WITH
    MaxBlocks <- MaxSequence,
    phase <- phaseOf,
    block <- blockOf,
    readers <- readersOf,
    issued <- sequence

(* The repository implements the life cycle of blocks: its counts are the  *)
(* sizes of reader sets, its ring never hands out a slot that is in use,   *)
(* and its multi-step operations take effect at one instant each.          *)
ImplementsLifecycle == Lifecycle!Spec
=============================================================================
