--------------------------- MODULE StorageRelease ---------------------------
(***************************************************************************)
(* kvmem_repository_storage_release (src/kvmem_repository_gc.cpp) over two *)
(* NvmeKvTier allocators (include/qw3/nvme_kv_tier.hpp).  A repository     *)
(* slot s is written by the foreground under one generation, retired, and  *)
(* reclaimed by a worker that never waits for an allocator: it finds each  *)
(* tier's mutex free or taken, and calls the bundle again until it says    *)
(* that both tiers are done.  Only then may the slot get its next          *)
(* generation, whose writes use the same block ID.                         *)
(*                                                                         *)
(* The repository is its contract only (KvMemRepository proves it): one    *)
(* reclaim of a slot at a time, and no reuse before the bundle returned    *)
(* true.  A tier is the allocator's metadata: the bytes are not modelled.  *)
(***************************************************************************)
EXTENDS Integers, Sequences, FiniteSets, SequencesExt

CONSTANTS Capacity,       \* repository slots; they are the tiers' block IDs
          TierSlots,      \* slots of each tier
          Enabled,        \* tiers that exist: a missing one is a null pointer
          MaxGeneration,  \* bound on the generations of one slot
          MaxAllocations  \* bound on the allocations of one tier

Blocks == 0 .. Capacity - 1
Slots == 0 .. TierSlots - 1
Tiers == {"raw", "values"}
ASSUME StorageConfig == Capacity \in Nat \ {0} /\ TierSlots \in Nat \ {0} /\ Enabled \subseteq Tiers

VARIABLES generation, phase,   \* of each repository slot
          tier,                \* the two allocators
          pending,             \* the bundle's memory, one Pending per repository slot
          written              \* ghost: tiers the current generation was placed in
vars == <<generation, phase, tier, pending, written>>

----------------------------------------------------------------------------
(* NvmeKvTier.                                                             *)

None == -1
NoAllocation(b) == [block |-> b, slot |-> None, gen |-> 0]

Cleared(t) == [t EXCEPT !.free = [i \in 1 .. TierSlots |-> TierSlots - i],
                        !.map = [b \in Blocks |-> None], !.lru = <<>>]
NewTier == Cleared([free |-> <<>>, map |-> <<>>, lru |-> <<>>,
                    gens |-> [s \in Slots |-> 0], seq |-> 0])

\* erase_lru_locked: out of the one position lru_positions_ holds for the block.
Unlisted(lru, b) == RemoveFirst(lru, b)

\* place_block_locked: a resident block keeps its slot, a full tier places nothing.
Placed(t, b) ==
  IF t.map[b] # None THEN [t EXCEPT !.lru = Append(Unlisted(@, b), b)]
  ELSE IF t.free = <<>> THEN t
  ELSE LET s == Last(t.free) IN
       [t EXCEPT !.free = Front(@), !.map[b] = s, !.gens[s] = t.seq + 1, !.seq = @ + 1,
                 !.lru = Append(Unlisted(@, b), b)]

\* Mutant: the slot goes back to the free list, but the block stays on the recency list.
Unplaced_Listed(t, b) ==
  IF t.map[b] = None THEN t ELSE [t EXCEPT !.free = Append(@, t.map[b]), !.map[b] = None]
\* release_block.
Unplaced(t, b) ==
  IF t.map[b] = None THEN t
  ELSE [t EXCEPT !.free = Append(@, t.map[b]), !.map[b] = None, !.lru = Unlisted(@, b)]

\* try_allocation, once the mutex was free.
Allocation(t, b) == IF t.map[b] = None THEN NoAllocation(b)
                    ELSE [block |-> b, slot |-> t.map[b], gen |-> t.gens[t.map[b]]]

SameAllocation(t, a) == t.map[a.block] = a.slot /\ t.gens[a.slot] = a.gen

\* try_release_allocation, once the mutex was free: exactly that allocation or nothing.
Released(t, a) == IF a.slot = None \/ ~SameAllocation(t, a) THEN t ELSE Unplaced(t, a.block)

----------------------------------------------------------------------------
(* The bundle.                                                             *)

NoPending(b) == [gen |-> 0, alloc |-> [t \in Tiers |-> NoAllocation(b)],
                 captured |-> {}, done |-> {}]

\* Mutant: the memory of an earlier generation is kept.
PendingFor_Kept(b, g) == [pending[b] EXCEPT !.gen = g]
\* The record's Pending, started over when a newer generation arrives.
PendingFor(b, g) == IF pending[b].gen = g THEN pending[b] ELSE [NoPending(b) EXCEPT !.gen = g]

\* Tiers whose allocation is known after the call, and those that are then done.  The
\* callback takes a tier's mutex twice, in try_allocation (it finds it free for the tiers
\* in seen) and in try_release_allocation (for the tiers in taken).
Capture(p, seen) == p.captured \cup ((Enabled \cap seen) \ p.done)
\* Mutant: a tier that was never placed in is not reported done.
Finished_Backed(p, seen, taken) ==
  p.done \cup (Tiers \ Enabled) \cup {t \in Capture(p, seen) \cap taken : p.alloc[t].slot # None}
Finished(p, seen, taken) == p.done \cup (Tiers \ Enabled) \cup (Capture(p, seen) \cap taken)

----------------------------------------------------------------------------
Init ==
  /\ generation = [b \in Blocks |-> 0] /\ phase = [b \in Blocks |-> "free"]
  /\ tier = [t \in Tiers |-> NewTier]
  /\ pending = [b \in Blocks |-> NoPending(b)]
  /\ written = [b \in Blocks |-> {}]

\* Foreground: a slot gets its next generation and is about to be written.
Reserve(b) ==
  /\ phase[b] = "free" /\ generation[b] < MaxGeneration
  /\ generation' = [generation EXCEPT ![b] = @ + 1]
  /\ phase' = [phase EXCEPT ![b] = "live"]
  /\ UNCHANGED <<tier, pending, written>>

\* Foreground: place_block before the write to one tier, again for a rewrite.
PlaceBlock(b, t) ==
  /\ phase[b] = "live" /\ t \in Enabled
  /\ tier[t].map[b] # None \/ tier[t].seq < MaxAllocations
  /\ tier' = [tier EXCEPT ![t] = Placed(@, b)]
  /\ written' = [written EXCEPT ![b] = IF tier'[t].map[b] # None THEN @ \cup {t} ELSE @]
  /\ UNCHANGED <<generation, phase, pending>>

\* Foreground: a tier copy that is no longer wanted (exclusive stage-in).
ReleaseBlock(b, t) ==
  /\ phase[b] = "live" /\ t \in written[b]
  /\ tier' = [tier EXCEPT ![t] = Unplaced(@, b)]
  /\ written' = [written EXCEPT ![b] = @ \ {t}]
  /\ UNCHANGED <<generation, phase, pending>>

\* The collector retires the slot, or a write of it is cancelled half-way.
Retire(b) ==
  /\ phase[b] = "live"
  /\ phase' = [phase EXCEPT ![b] = "retired"]
  /\ UNCHANGED <<generation, tier, pending, written>>

\* Executor reset: everything is dropped, so no slot is live; both tiers are cleared.
Reset ==
  /\ \E b \in Blocks : phase[b] = "live"
  /\ phase' = [b \in Blocks |-> IF phase[b] = "live" THEN "retired" ELSE phase[b]]
  /\ tier' = [t \in Tiers |-> Cleared(tier[t])]
  /\ written' = [b \in Blocks |-> {}]
  /\ UNCHANGED <<generation, pending>>

\* One call of the release bundle: it asks for the allocation of the tiers that it does not
\* know yet, and releases what it knows and has not released.  Its early returns for a slot
\* out of range and for a record older than the pending one are unreachable: a slot's
\* generations only grow, and only the newest can be retired.
Reclaim(b, seen, taken) ==
  LET p == PendingFor(b, generation[b])
      captured == Capture(p, seen)
      done == Finished(p, seen, taken)
      alloc == [t \in Tiers |-> IF t \in captured \ p.captured THEN Allocation(tier[t], b)
                                ELSE p.alloc[t]]
  IN
  /\ phase[b] = "retired"
  /\ seen \cap (p.captured \cup p.done) = {} /\ taken \subseteq captured \ p.done
  /\ phase' = [phase EXCEPT ![b] = IF done = Tiers THEN "free" ELSE "retired"]
  /\ pending' = [pending EXCEPT ![b] = [gen |-> generation[b], alloc |-> alloc,
                                        captured |-> captured, done |-> done]]
  /\ tier' = [t \in Tiers |-> IF t \in taken THEN Released(tier[t], alloc[t]) ELSE tier[t]]
  /\ written' = [written EXCEPT ![b] = IF done = Tiers THEN {} ELSE @]
  /\ UNCHANGED generation

Next == \/ Reset
        \/ \E b \in Blocks : Reserve(b) \/ Retire(b)
        \/ \E b \in Blocks, t \in Tiers : PlaceBlock(b, t) \/ ReleaseBlock(b, t)
        \/ \E b \in Blocks, seen, taken \in SUBSET Enabled : Reclaim(b, seen, taken)

Spec == Init /\ [][Next]_vars

\* The worker retries for ever, and neither mutex is found taken at every attempt.
Fairness == \A b \in Blocks, t \in Tiers :
              SF_vars(/\ phase[b] = "retired"
                      /\ \E seen, taken \in SUBSET Enabled : t \in taken /\ Reclaim(b, seen, taken))
FairSpec == Spec /\ Fairness

----------------------------------------------------------------------------
(* Properties.                                                             *)

\* Every variable has its type.
TypeOK ==
  /\ generation \in [Blocks -> 0 .. MaxGeneration]
  /\ phase \in [Blocks -> {"free", "live", "retired"}]
  /\ \A t \in Tiers : /\ tier[t].map \in [Blocks -> Slots \cup {None}]
                      /\ tier[t].free \in Seq(Slots) /\ tier[t].lru \in Seq(Blocks)
  /\ \A b \in Blocks : pending[b].captured \subseteq Tiers /\ pending[b].done \subseteq Tiers

\* A tier's slots are each on the free list once or hold one block, never both, and the
\* recency list names the resident blocks once each.
SlotPartition ==
  \A t \in Tiers :
    LET T == tier[t] IN
    /\ IsInjective(T.free) /\ IsInjective(T.lru)
    /\ \A b, c \in Blocks : (b # c /\ T.map[b] # None) => T.map[b] # T.map[c]
    /\ {T.map[b] : b \in Blocks} \cap Range(T.free) = {}
    /\ Slots = Range(T.free) \cup ({T.map[b] : b \in Blocks} \ {None})
    /\ Range(T.lru) = {b \in Blocks : T.map[b] # None}

\* A slot that may be reused has nothing left in either tier (no leak through a busy
\* mutex, a half-done release or a cancelled write), and a live one still has every
\* allocation its own generation made: no callback freed the next generation's.
StorageExact ==
  \A b \in Blocks :
    /\ phase[b] = "free" => \A t \in Tiers : tier[t].map[b] = None
    /\ phase[b] = "live" => \A t \in Tiers : (tier[t].map[b] # None) = (t \in written[b])

\* A retired slot becomes reusable although single attempts find a mutex taken.
EventuallyReusable == \A b \in Blocks : phase[b] = "retired" ~> phase[b] = "free"
=============================================================================
