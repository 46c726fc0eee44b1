--------------------------- MODULE BlockLifecycle ---------------------------
(***************************************************************************)
(* What the slot directory promises (src/include/qw3/kvmem_repository.hpp):*)
(* a slot holds one block at a time, each block has a set of readers, and  *)
(* the slot is recycled only when the block was withdrawn and its last     *)
(* reader has left.  There are no reference counts, no generations kept    *)
(* apart from the blocks, no ring and no steps inside an operation.        *)
(***************************************************************************)
EXTENDS Integers

CONSTANTS
    Slots,      \* physical slots
    Leases,     \* readers
    MaxBlocks   \* the last identity a block can have

VARIABLES
    phase,      \* phase[s]
    block,      \* block[s]: identity of the block in s, 0 before the first
    readers,    \* readers[s]: who may still use that block
    issued      \* identities given out so far

vars == <<phase, block, readers, issued>>

Init ==
    /\ phase = [s \in Slots |-> "Free"]
    /\ block = [s \in Slots |-> 0]
    /\ readers = [s \in Slots |-> {}]
    /\ issued = 0

(* Nobody can read a slot twice with one lease.                            *)
Idle(l) == \A s \in Slots : l \notin readers[s]

SetPhase(s, p) == phase' = [phase EXCEPT ![s] = p]

(* A free slot receives a block that never existed before.                 *)
Reserve(s, l) ==
    /\ phase[s] = "Free"
    /\ issued < MaxBlocks
    /\ Idle(l)
    /\ SetPhase(s, "Writing")
    /\ issued' = issued + 1
    /\ block' = [block EXCEPT ![s] = issued + 1]
    /\ readers' = [readers EXCEPT ![s] = {l}]

(* The block becomes visible, or is given up before it was.                *)
Publish(s, l) ==
    /\ phase[s] = "Writing"
    /\ l \in readers[s]
    /\ SetPhase(s, "Live")
    /\ UNCHANGED <<block, readers, issued>>
Abandon(s, l) ==
    /\ phase[s] = "Writing"
    /\ l \in readers[s]
    /\ SetPhase(s, "Cancelled")
    /\ UNCHANGED <<block, readers, issued>>

(* A new reader needs a visible block, an existing one may bring another.  *)
Pin(s, l) ==
    /\ phase[s] = "Live"
    /\ Idle(l)
    /\ readers' = [readers EXCEPT ![s] = @ \cup {l}]
    /\ UNCHANGED <<phase, block, issued>>
Share(s, l, m) ==
    /\ l \in readers[s]
    /\ Idle(m)
    /\ readers' = [readers EXCEPT ![s] = @ \cup {m}]
    /\ UNCHANGED <<phase, block, issued>>
Leave(s, l) ==
    /\ l \in readers[s]
    /\ readers' = [readers EXCEPT ![s] = @ \ {l}]
    /\ UNCHANGED <<phase, block, issued>>

(* A reader withdraws the block from new readers, or brings it back.       *)
Withdraw(s, l) ==
    /\ phase[s] = "Live"
    /\ l \in readers[s]
    /\ SetPhase(s, "Retired")
    /\ UNCHANGED <<block, readers, issued>>
Restore(s, l) ==
    /\ phase[s] = "Retired"
    /\ l \in readers[s]
    /\ SetPhase(s, "Live")
    /\ UNCHANGED <<block, readers, issued>>

(* Nobody reads the block any more: it can no longer come back, and later  *)
(* the slot is free.                                                       *)
Seal(s) ==
    /\ phase[s] \in {"Retired", "Cancelled"}
    /\ readers[s] = {}
    /\ SetPhase(s, "Releasing")
    /\ UNCHANGED <<block, readers, issued>>
Recycle(s) ==
    /\ phase[s] = "Releasing"
    /\ SetPhase(s, "Free")
    /\ UNCHANGED <<block, readers, issued>>

Next ==
    \E s \in Slots :
        \/ Seal(s) \/ Recycle(s)
        \/ \E l \in Leases :
              \/ Reserve(s, l) \/ Publish(s, l) \/ Abandon(s, l)
              \/ Pin(s, l) \/ Leave(s, l) \/ Withdraw(s, l) \/ Restore(s, l)
              \/ \E m \in Leases : Share(s, l, m)

Spec == Init /\ [][Next]_vars
=============================================================================
