-------------------------- MODULE KvMemRepositoryGc --------------------------
(***************************************************************************)
(* The policy worker of the bounded KV memory                              *)
(* (src/src/kvmem_repository_gc.cpp) together with the one foreground      *)
(* thread that publishes to it (the repository half of                     *)
(* src/src/kvmem_store.cpp).  The slot directory between them is the block *)
(* life cycle that KvMemRepository implements, so each operation of the    *)
(* directory is one step here.                                             *)
(*                                                                         *)
(* The worker decides from a versioned snapshot of metadata the foreground *)
(* may be writing, withdraws the block while it holds the only lease,      *)
(* looks again and either gives the block up or rescues it.  A step makes  *)
(* at most one access that the other thread can see, with the private      *)
(* assignments around it; reads of history_end_, of the ready count and of *)
(* the submitted score sequence by one decision are one step.              *)
(*                                                                         *)
(* Abstractions.  A history position is a whole block: appends and rewinds *)
(* are block aligned and one block long.  The flags of a block are "cold"  *)
(* when all required ones and none of the pinning ones are set, else "hot".*)
(* The score of a candidate decides its level, 3 or an ordinary one        *)
(* (written 2), and an order within the level; both are left open.  The    *)
(* tick budget may run out whenever the code looks at the clock.           *)
(***************************************************************************)
EXTENDS Integers, FiniteSets

CONSTANTS
    Capacity,        \* physical slots
    Readers,         \* leases of asynchronous readers
    RewindTo,        \* positions the client may rewind to
    MaxBlocks,       \* bound: identities given out
    MaxVersion,      \* bound: Metadata::version of one slot
    MaxScores,       \* bound: score frames submitted
    MaxSteps,        \* bound: step_
    Recent,          \* config.recent_tokens, in blocks
    ReadyLow, ReadyHigh,
    ScanBlocks, BatchBlocks,
    CandidateSteps,  \* policy.candidate_steps
    IngestBlocks,    \* config.candidate_ingest_tokens, in blocks
    Modes            \* the values config.mode may have: "Off", "Shadow", "Delete"

(* What the constructor demands of its configuration.                      *)
ASSUME ConfigAssumption ==
    /\ Capacity \in Nat \ {0}
    /\ RewindTo \subseteq Nat
    /\ {MaxBlocks, MaxVersion, MaxScores, MaxSteps} \subseteq Nat
    /\ {Recent, CandidateSteps, IngestBlocks} \subseteq Nat
    /\ ReadyLow \in 1 .. ReadyHigh
    /\ ReadyHigh \in 1 .. Capacity
    /\ {ScanBlocks, BatchBlocks} \subseteq Nat \ {0}
    /\ Modes \subseteq {"Off", "Shadow", "Delete"}

VARIABLES
    phase, block, readers, issued,  \* the slot directory
    meta,            \* meta[s]: Metadata of slot s
    mode,            \* config.mode, which never changes
    history_end, frame, submitted, step,  \* atomics the foreground stores
    begin,           \* begin[s]: record.token_begin
    store,           \* store[s]: the foreground's KvMemBlock, GC flags and directory node
    total,           \* total_tokens_
    prepared, aslot, rposition,     \* the prepared append or rewind
    fpc, fslot, todo, used,         \* the foreground call in progress
    wpc, loop, use, slot,           \* the worker's step, loop and slot, and what it snapshots for
    snap,            \* Snapshot
    cursor, scanned, now, score_sequence, replenishing, pressure,
    cands, cand, picked, releases,  \* candidates_ and the pick loop
    hist, pending_count, shadow_live   \* History of each slot and its counters

repositoryVars == <<phase, block, readers, issued>>
signalVars == <<mode, history_end, frame, submitted, step>>
storeVars == <<begin, store, total>>
preparedVars == <<prepared, aslot, rposition>>
callVars == <<fpc, fslot, todo, used>>
foregroundVars == <<meta, signalVars, storeVars, preparedVars, callVars>>
controlVars == <<wpc, loop, use, slot>>
tickVars == <<cursor, scanned, now, score_sequence, replenishing, pressure>>
pickVars == <<cands, cand, picked, releases>>
historyVars == <<hist, pending_count, shadow_live>>
workerVars == <<controlVars, snap, tickVars, pickVars, historyVars>>
vars == <<repositoryVars, foregroundVars, workerVars>>

-----------------------------------------------------------------------------
Slots == 0 .. Capacity - 1

(* Everyone who can hold a lease: the worker while it looks at a slot, the *)
(* foreground during a metadata update (a second lease of the same call    *)
(* adds nothing), the asynchronous readers, and for each slot its          *)
(* residency, which begins as the reservation, and a rewind.               *)
Worker == <<"worker", 0>>
Foreground == <<"foreground", 0>>
Resident(s) == <<"resident", s>>
Captured(s) == <<"rewind", s>>
OwnLeases == {Worker, Foreground} \cup UNION {{Resident(s), Captured(s)} : s \in Slots}
Leases == Readers \cup OwnLeases
ASSUME ReadersAssumption == Readers \cap OwnLeases = {}

Repository == INSTANCE BlockLifecycle

(* try_pin(handle) succeeds: the slot is Live with that generation.        *)
Pinnable(s, g) == phase[s] = "Live" /\ block[s] = g
Reclaimable(s) == phase[s] \in {"Retired", "Releasing", "Cancelled"}
IsResident(s) == Resident(s) \in readers[s]

(* The ready slots; the steps of the ring itself are in KvMemRepository.   *)
Ready == Cardinality({s \in Slots : phase[s] = "Free"})

Nowhere == -1
NoSnapshot == [version |-> 0, generation |-> 0, flags |-> "hot"]
NoCandidate == [slot |-> 0, generation |-> 0, version |-> 0, level |-> 2]
NoHistory == [generation |-> 0, version |-> 0, observed |-> FALSE, step |-> 0, end |-> 0,
              pending |-> FALSE, shadow |-> FALSE]

(* One if the counter has to move.                                         *)
Count(b) == IF b THEN 1 ELSE 0

Init ==
    /\ Repository!Init
    /\ meta = [s \in Slots |-> NoSnapshot]
    /\ mode \in Modes
    /\ history_end = 0 /\ frame = 0 /\ submitted = 0 /\ step = 0
    /\ begin = [s \in Slots |-> 0]
    /\ store = [s \in Slots |-> [generation |-> 0, valid |-> FALSE, gpu |-> TRUE, backed |-> FALSE,
                                 position |-> Nowhere]]
    /\ total = 0
    /\ prepared = "none" /\ aslot = 0 /\ rposition = 0
    /\ fpc = "idle" /\ fslot = 0 /\ todo = {} /\ used = FALSE
    /\ wpc = "idle" /\ loop = "scan" /\ use = "assess" /\ slot = 0
    /\ snap = NoSnapshot
    /\ cursor = 0 /\ scanned = 0 /\ now = 0 /\ score_sequence = 0
    /\ replenishing = FALSE /\ pressure = 0
    /\ cands = {} /\ cand = NoCandidate /\ picked = 0 /\ releases = 0
    /\ hist = [s \in Slots |-> NoHistory]
    /\ pending_count = 0 /\ shadow_live = 0

-----------------------------------------------------------------------------
(* The foreground: appends.  The MaxVersion bound is tested where a call   *)
(* begins, so that no call stops half way.                                 *)
Idle == fpc = "idle"
Room(s) == meta[s].version + 2 <= MaxVersion

(* prepare_repository_append: reserve the block after the history's end, in *)
(* any free slot.                                                          *)
PrepareAppend(s) ==
    /\ Idle /\ prepared = "none" /\ Room(s)
    /\ Repository!Reserve(s, Resident(s))
    /\ begin' = [begin EXCEPT ![s] = total]
    /\ prepared' = "append" /\ aslot' = s
    /\ UNCHANGED <<meta, signalVars, store, total, rposition, callVars, workerVars>>

(* RepositoryAppend::commit: publish the block and install it, its backing *)
(* flags cleared and the directory node of the slot moved to it; then      *)
(* store the new end and publish the metadata.                             *)
CommitAppend ==
    /\ Idle /\ prepared = "append"
    /\ Repository!Publish(aslot, Resident(aslot))
    /\ store' = [store EXCEPT ![aslot] =
          [generation |-> block[aslot], valid |-> TRUE, gpu |-> TRUE, backed |-> FALSE,
           position |-> begin[aslot]]]
    /\ total' = begin[aslot] + 1
    /\ prepared' = "none"
    /\ fpc' = "end"
    /\ UNCHANGED <<meta, signalVars, begin, aslot, rposition, fslot, todo, used, workerVars>>
StoreEnd ==
    /\ fpc = "end"
    /\ history_end' = total
    /\ todo' = {aslot}
    /\ fpc' = "sync"
    /\ UNCHANGED <<repositoryVars, meta, mode, frame, submitted, step, storeVars, preparedVars, fslot, used,
                   workerVars>>

(* A dropped append cancels its reservation and lets go of it.             *)
CancelAppend ==
    /\ Idle /\ prepared = "append"
    /\ Repository!Abandon(aslot, Resident(aslot))
    /\ prepared' = "none"
    /\ fpc' = "cancel"
    /\ UNCHANGED <<meta, signalVars, storeVars, aslot, rposition, fslot, todo, used, workerVars>>
DropReservation ==
    /\ fpc = "cancel"
    /\ Repository!Leave(aslot, Resident(aslot))
    /\ fpc' = "idle"
    /\ UNCHANGED <<meta, signalVars, storeVars, preparedVars, fslot, todo, used, workerVars>>

-----------------------------------------------------------------------------
(* The foreground: publication of metadata.                                *)

(* The flags repository_sync_gc computes.                                  *)
Flags(s) == IF store[s].backed /\ ~store[s].gpu THEN "cold" ELSE "hot"
Fresh(s) == meta[s].generation # store[s].generation

Least(S) == CHOOSE s \in S : \A t \in S : s <= t

(* repository_sync_gc pins the block, or does nothing when it cannot.      *)
AfterSync(rest) == IF rest = {} THEN "idle" ELSE "sync"
SyncPin ==
    LET s == Least(todo) IN
    /\ fpc = "sync"
    /\ Pinnable(s, store[s].generation)
    /\ Repository!Pin(s, Foreground)
    /\ fslot' = s /\ todo' = todo \ {s}
    /\ fpc' = "pinned"
    /\ UNCHANGED <<meta, signalVars, storeVars, preparedVars, used, workerVars>>
SyncSkip ==
    LET s == Least(todo) IN
    /\ fpc = "sync"
    /\ ~Pinnable(s, store[s].generation)
    /\ todo' = todo \ {s}
    /\ fpc' = AfterSync(todo')
    /\ used' = (used /\ todo' # {})
    /\ UNCHANGED <<repositoryVars, meta, signalVars, storeVars, preparedVars, fslot, workerVars>>

(* publish(): nothing to say, or the version becomes odd, the fields       *)
(* follow one by one and the version becomes even again.                   *)
PublishSame ==
    /\ fpc = "pinned"
    /\ ~Fresh(fslot) /\ ~used /\ meta[fslot].flags = Flags(fslot)
    /\ fpc' = "unpin"
    /\ UNCHANGED <<repositoryVars, meta, signalVars, storeVars, preparedVars, fslot, todo, used, workerVars>>
PublishOpen ==
    /\ fpc = "pinned"
    /\ Fresh(fslot) \/ used \/ meta[fslot].flags # Flags(fslot)
    /\ meta' = [meta EXCEPT ![fslot].version = @ + 1]
    /\ fpc' = IF Fresh(fslot) THEN "generation" ELSE "flags"
    /\ UNCHANGED <<repositoryVars, signalVars, storeVars, preparedVars, fslot, todo, used, workerVars>>
PublishGeneration ==
    /\ fpc = "generation"
    /\ meta' = [meta EXCEPT ![fslot].generation = store[fslot].generation]
    /\ fpc' = "flags"
    /\ UNCHANGED <<repositoryVars, signalVars, storeVars, preparedVars, fslot, todo, used, workerVars>>
PublishFlags ==
    /\ fpc = "flags"
    /\ meta' = [meta EXCEPT ![fslot].flags = Flags(fslot)]
    /\ fpc' = "close"
    /\ UNCHANGED <<repositoryVars, signalVars, storeVars, preparedVars, fslot, todo, used, workerVars>>
PublishClose ==
    /\ fpc = "close"
    /\ meta' = [meta EXCEPT ![fslot].version = @ + 1]
    /\ fpc' = "unpin"
    /\ UNCHANGED <<repositoryVars, signalVars, storeVars, preparedVars, fslot, todo, used, workerVars>>
SyncUnpin ==
    /\ fpc = "unpin"
    /\ Repository!Leave(fslot, Foreground)
    /\ fpc' = AfterSync(todo)
    /\ used' = (used /\ todo # {})
    /\ UNCHANGED <<meta, signalVars, storeVars, preparedVars, fslot, todo, workerVars>>

-----------------------------------------------------------------------------
(* The foreground: what changes the metadata of an installed block.  The   *)
(* lease of validate_repository_mutation is held until it is published; a  *)
(* block that cannot be pinned makes the call throw, which changes nothing.*)
Mutate(s, b, g, pc) ==
    /\ Idle /\ Room(s)
    /\ store[s].generation # 0 /\ Pinnable(s, store[s].generation)
    /\ Repository!Pin(s, Foreground)
    /\ store' = [store EXCEPT ![s].backed = b, ![s].gpu = g]
    /\ fslot' = s
    /\ fpc' = pc
    /\ UNCHANGED <<meta, signalVars, begin, total, preparedVars, todo, used, workerVars>>

(* set_repository_gc_flags: backing or index done or lost, anchors.        *)
SetFlags(s) == Mutate(s, ~store[s].backed, store[s].gpu, "pinned")

(* set_block_tier: out of the GPU, which may complete the backing, or in.  *)
Evict(s) ==
    /\ IsResident(s)
    /\ \E b \in {store[s].backed, TRUE} : Mutate(s, b, FALSE, "evict")
StageIn(s) ==
    /\ ~IsResident(s)
    /\ Mutate(s, store[s].backed, TRUE, "stage")
DropResident ==
    /\ fpc = "evict"
    /\ Repository!Leave(fslot, Resident(fslot))
    /\ fpc' = "pinned"
    /\ UNCHANGED <<meta, signalVars, storeVars, preparedVars, fslot, todo, used, workerVars>>
TakeResident ==
    /\ fpc = "stage"
    /\ Repository!Pin(fslot, Resident(fslot))
    /\ fpc' = "pinned"
    /\ UNCHANGED <<meta, signalVars, storeVars, preparedVars, fslot, todo, used, workerVars>>

(* gc_begin_step: a new step, in which every block on the GPU is used; the *)
(* tier of a discarded block is never reset, so some cannot be pinned.     *)
BeginStep ==
    /\ Idle /\ step < MaxSteps
    /\ step' = step + 1
    /\ todo' = {s \in Slots : store[s].gpu}
    /\ \A s \in todo' : Pinnable(s, store[s].generation) => Room(s)
    /\ fpc' = AfterSync(todo')
    /\ used' = (todo' # {})
    /\ UNCHANGED <<repositoryVars, meta, mode, history_end, frame, submitted, storeVars, preparedVars, fslot,
                   workerVars>>

(* submit_scores: the frame is stored before its sequence number.          *)
SubmitScores ==
    /\ Idle /\ frame < MaxScores
    /\ frame' = frame + 1
    /\ fpc' = "submit"
    /\ UNCHANGED <<repositoryVars, meta, mode, history_end, submitted, step, storeVars, preparedVars, fslot, todo,
                   used, workerVars>>
StoreSubmitted ==
    /\ fpc = "submit"
    /\ submitted' = frame
    /\ fpc' = "idle"
    /\ UNCHANGED <<repositoryVars, meta, mode, history_end, frame, step, storeVars, preparedVars, fslot, todo, used,
                   workerVars>>

-----------------------------------------------------------------------------
(* The foreground: rewinds.                                                *)
CapturedSlots == {s \in Slots : Captured(s) \in readers[s]}
InOrder(S) == CHOOSE s \in S : \A t \in S : store[s].position <= store[t].position

(* prepare_repository_rewind pins what lies at or after the position; a    *)
(* block it cannot pin counts as a hole the collector made.                *)
PrepareRewind(p) ==
    /\ Idle /\ prepared = "none" /\ p < total
    /\ rposition' = p
    /\ todo' = {s \in Slots : store[s].position >= p}
    /\ IF todo' = {} THEN fpc' = "idle" /\ prepared' = "rewind"
                     ELSE fpc' = "capture" /\ UNCHANGED prepared
    /\ UNCHANGED <<repositoryVars, meta, signalVars, storeVars, aslot, fslot, used, workerVars>>
Captures(s) ==
    /\ fpc = "capture"
    /\ s = InOrder(todo)
    /\ todo' = todo \ {s}
    /\ IF todo' = {} THEN fpc' = "idle" /\ prepared' = "rewind" ELSE UNCHANGED <<fpc, prepared>>
    /\ UNCHANGED <<meta, signalVars, storeVars, aslot, rposition, fslot, used, workerVars>>
Capture(s) ==
    /\ Captures(s)
    /\ Pinnable(s, store[s].generation)
    /\ Repository!Pin(s, Captured(s))
CaptureHole(s) ==
    /\ Captures(s)
    /\ ~Pinnable(s, store[s].generation)
    /\ UNCHANGED repositoryVars

(* RepositoryRewind::commit: retire what was captured and give up its      *)
(* residency, then cut the directory and store the new end.  The captured  *)
(* leases go last, with the rewind object; that is all an abandoned rewind *)
(* does.                                                                   *)
CommitRewind ==
    /\ Idle /\ prepared = "rewind"
    /\ todo' = CapturedSlots
    /\ fpc' = IF todo' = {} THEN "cut" ELSE "discard"
    /\ UNCHANGED <<repositoryVars, meta, signalVars, storeVars, preparedVars, fslot, used, workerVars>>
Discard(s) ==
    /\ fpc = "discard"
    /\ s = InOrder(todo)
    /\ Repository!Withdraw(s, Captured(s))
    /\ todo' = todo \ {s}
    /\ store' = [store EXCEPT ![s].valid = FALSE, ![s].backed = FALSE]
    /\ fslot' = s
    /\ fpc' = IF IsResident(s) THEN "nonresident" ELSE IF todo' = {} THEN "cut" ELSE "discard"
    /\ UNCHANGED <<meta, signalVars, begin, total, preparedVars, used, workerVars>>
DiscardResident ==
    /\ fpc = "nonresident"
    /\ Repository!Leave(fslot, Resident(fslot))
    /\ fpc' = IF todo = {} THEN "cut" ELSE "discard"
    /\ UNCHANGED <<meta, signalVars, storeVars, preparedVars, fslot, todo, used, workerVars>>
CutHistory ==
    /\ fpc = "cut"
    /\ store' = [s \in Slots |-> IF store[s].position >= rposition
                                 THEN [store[s] EXCEPT !.position = Nowhere] ELSE store[s]]
    /\ total' = rposition
    /\ history_end' = rposition
    /\ prepared' = "none"
    /\ todo' = CapturedSlots
    /\ fpc' = IF todo' = {} THEN "idle" ELSE "drop"
    /\ UNCHANGED <<repositoryVars, meta, mode, frame, submitted, step, begin, aslot, rposition, fslot, used,
                   workerVars>>
AbandonRewind ==
    /\ Idle /\ prepared = "rewind"
    /\ prepared' = "none"
    /\ todo' = CapturedSlots
    /\ fpc' = IF todo' = {} THEN "idle" ELSE "drop"
    /\ UNCHANGED <<repositoryVars, meta, signalVars, storeVars, aslot, rposition, fslot, used, workerVars>>
DropCaptured ==
    LET s == Least(todo) IN
    /\ fpc = "drop"
    /\ Repository!Leave(s, Captured(s))
    /\ todo' = todo \ {s}
    /\ fpc' = IF todo' = {} THEN "idle" ELSE "drop"
    /\ UNCHANGED <<meta, signalVars, storeVars, preparedVars, fslot, used, workerVars>>

(* repository_slot_read and its kin: a lease on any block that can be      *)
(* pinned, held by a transfer or a checkpoint and dropped at any time.     *)
ReaderPin(r, s) ==
    /\ Pinnable(s, store[s].generation)
    /\ Repository!Pin(s, r)
    /\ UNCHANGED <<foregroundVars, workerVars>>
ReaderDrop(r, s) ==
    /\ Repository!Leave(s, r)
    /\ UNCHANGED <<foregroundVars, workerVars>>

-----------------------------------------------------------------------------
(* The worker.                                                             *)
Goto(pc) == wpc' = pc /\ UNCHANGED <<loop, use, slot>>

(* Why the block in slot s with metadata m must stay.                      *)
protected_now(s, m) ==
    LET recent_begin == IF history_end > Recent THEN history_end - Recent ELSE 0 IN
    \/ m.generation # block[s]
    \/ m.flags = "hot"
    \/ Recent > 0 /\ begin[s] + 1 > recent_begin

(* refresh(): a history of another generation starts again, and a new      *)
(* version ends an observation and a shadow mark.                          *)
Restarted(h, m) == h.generation # m.generation
Unmarked_Restart(h, m) == h.shadow /\ Restarted(h, m)   \* mutant: a new version is not counted
Unmarked(h, m) == h.shadow /\ (Restarted(h, m) \/ h.version # m.version)
refresh(h, m) ==
    LET kept == IF Restarted(h, m) THEN [NoHistory EXCEPT !.generation = m.generation] ELSE h IN
    IF kept.version = m.version THEN kept
    ELSE [kept EXCEPT !.version = m.version, !.observed = FALSE, !.shadow = FALSE]

(* consume_scores: the entries of a new frame that are not stale refresh   *)
(* the history of their slot.                                              *)
Described == {s \in Slots : meta[s].version % 2 = 0 /\ meta[s].generation = block[s] /\ block[s] # 0}
ConsumeScores ==
    /\ wpc = "idle"
    /\ mode # "Off" /\ frame > score_sequence
    /\ score_sequence' = frame
    /\ \E S \in SUBSET Described :
          /\ hist' = [s \in Slots |-> IF s \in S THEN refresh(hist[s], meta[s]) ELSE hist[s]]
          /\ pending_count' = pending_count
                - Cardinality({s \in S : Restarted(hist[s], meta[s]) /\ hist[s].pending})
          /\ shadow_live' = shadow_live - Cardinality({s \in S : Unmarked(hist[s], meta[s])})
    /\ Goto("tick")
    /\ UNCHANGED <<repositoryVars, foregroundVars, snap, cursor, scanned, now, replenishing, pressure,
                   pickVars>>
NoScores ==
    /\ wpc = "idle"
    /\ mode = "Off" \/ frame <= score_sequence
    /\ Goto("tick")
    /\ UNCHANGED <<repositoryVars, foregroundVars, snap, tickVars, pickVars, historyVars>>

(* Mutant: the pressure starts again with every tick.                      *)
StartTick_Pressure ==
    LET ready == Ready + shadow_live IN
    /\ wpc = "tick"
    /\ now' = step
    /\ replenishing' = (ready < ReadyHigh /\ (ready < ReadyLow \/ replenishing))
    /\ pressure' = 0
    /\ wpc' = "loop" /\ loop' = "scan"
    /\ UNCHANGED <<repositoryVars, foregroundVars, use, slot, snap, cursor, scanned, score_sequence,
                   pickVars, historyVars>>

(* The ready slots decide whether the tick replenishes; the hysteresis     *)
(* lasts from the low watermark to the high one.                           *)
StartTick ==
    LET ready == Ready + shadow_live IN
    /\ wpc = "tick"
    /\ now' = step
    /\ replenishing' = (ready < ReadyHigh /\ (ready < ReadyLow \/ replenishing))
    /\ pressure' = IF ready >= ReadyHigh THEN 0 ELSE pressure
    /\ wpc' = "loop" /\ loop' = "scan"
    /\ UNCHANGED <<repositoryVars, foregroundVars, use, slot, snap, cursor, scanned, score_sequence,
                   pickVars, historyVars>>

(* The scan looks at the next slots in turn: a withdrawn block is released,*)
(* another one pinned and judged.                                          *)
ScanSlot ==
    /\ wpc = "loop" /\ loop = "scan"
    /\ scanned < ScanBlocks /\ scanned < Capacity
    /\ scanned' = scanned + 1
    /\ slot' = cursor
    /\ cursor' = IF cursor + 1 = Capacity THEN 0 ELSE cursor + 1
    /\ pressure' = IF replenishing /\ pressure < Capacity THEN pressure + 1 ELSE pressure
    /\ wpc' = CASE Reclaimable(cursor) /\ releases < BatchBlocks -> "release"
                [] Reclaimable(cursor) /\ releases >= BatchBlocks -> "loop"
                [] ~Reclaimable(cursor) /\ mode = "Off" -> "loop"
                [] OTHER -> "pin"
    /\ UNCHANGED <<repositoryVars, foregroundVars, loop, use, snap, now, score_sequence, replenishing,
                   pickVars, historyVars>>

(* All slots were scanned, or the budget has run out after the first.      *)
EndScan ==
    /\ wpc = "loop" /\ loop = "scan" /\ scanned > 0
    /\ loop' = "pick"
    /\ UNCHANGED <<repositoryVars, foregroundVars, wpc, use, slot, snap, tickVars, pickVars, historyVars>>

PinSlot ==
    /\ wpc = "pin"
    /\ Repository!Pin(slot, Worker)
    /\ wpc' = "version" /\ use' = "assess"
    /\ UNCHANGED <<foregroundVars, loop, slot, snap, tickVars, pickVars, historyVars>>
PinSlotFails ==
    /\ wpc = "pin"
    /\ phase[slot] # "Live"
    /\ Goto("loop")
    /\ UNCHANGED <<repositoryVars, foregroundVars, snap, tickVars, pickVars, historyVars>>

(* snapshot(): the version, the fields, and the version again.  When it    *)
(* fails a pinned block is left alone, and a withdrawn one rescued.        *)
SnapshotFailed == IF use = "recheck" THEN "rescue" ELSE "unpin"
ReadVersion_Odd ==   \* mutant: a publication in progress is not noticed
    /\ wpc = "version"
    /\ snap' = [snap EXCEPT !.version = meta[slot].version]
    /\ Goto("generation")
    /\ UNCHANGED <<repositoryVars, foregroundVars, tickVars, pickVars, historyVars>>
ReadVersion ==
    /\ wpc = "version"
    /\ snap' = [snap EXCEPT !.version = meta[slot].version]
    /\ Goto(IF meta[slot].version % 2 = 1 THEN SnapshotFailed ELSE "generation")
    /\ UNCHANGED <<repositoryVars, foregroundVars, tickVars, pickVars, historyVars>>
ReadGeneration ==
    /\ wpc = "generation"
    /\ snap' = [snap EXCEPT !.generation = meta[slot].generation]
    /\ Goto("flags")
    /\ UNCHANGED <<repositoryVars, foregroundVars, tickVars, pickVars, historyVars>>
ReadFlags ==
    /\ wpc = "flags"
    /\ snap' = [snap EXCEPT !.flags = meta[slot].flags]
    /\ Goto("check")
    /\ UNCHANGED <<repositoryVars, foregroundVars, tickVars, pickVars, historyVars>>
ReadAgain ==
    /\ wpc = "check"
    /\ Goto(IF meta[slot].version = snap.version THEN use ELSE SnapshotFailed)
    /\ UNCHANGED <<repositoryVars, foregroundVars, snap, tickVars, pickVars, historyVars>>

(* A lease of the worker goes out of scope, and its snapshot with it.      *)
Unpin ==
    /\ wpc = "unpin"
    /\ Repository!Leave(slot, Worker)
    /\ snap' = NoSnapshot
    /\ Goto("loop")
    /\ UNCHANGED <<foregroundVars, tickVars, pickVars, historyVars>>

(* The scan judges a block: it refreshes the history and, if the block is  *)
(* not protected, observes it as a candidate; one that was observed long   *)
(* enough is a candidate of this tick when slots are short.                *)
Assesses(h) ==
    /\ hist' = [hist EXCEPT ![slot] = h]
    /\ pending_count' = pending_count - Count(Restarted(hist[slot], snap) /\ hist[slot].pending)
    /\ shadow_live' = shadow_live - Count(Unmarked(hist[slot], snap))
    /\ replenishing' = (replenishing \/ Ready + shadow_live' < ReadyLow)
    /\ Goto("unpin")
    /\ UNCHANGED <<repositoryVars, foregroundVars, snap, cursor, scanned, now, score_sequence, pressure,
                   cand, picked, releases>>
AssessStale ==
    /\ wpc = "assess"
    /\ snap.generation # block[slot]
    /\ Goto("unpin")
    /\ UNCHANGED <<repositoryVars, foregroundVars, snap, tickVars, pickVars, historyVars>>
AssessProtected ==
    /\ wpc = "assess"
    /\ snap.generation = block[slot] /\ protected_now(slot, snap)
    /\ Assesses([refresh(hist[slot], snap) EXCEPT !.observed = FALSE])
    /\ UNCHANGED cands
age(a, b) == IF a > b THEN a - b ELSE 0
Observed(h) == IF h.observed THEN h
               ELSE [h EXCEPT !.observed = TRUE, !.step = now, !.end = history_end]
Mature(h) == \/ IngestBlocks > 0 /\ age(history_end, h.end) >= IngestBlocks
             \/ age(now, h.step) >= CandidateSteps

(* Level 4 is for anchors, which the worker never passes on as a feature.  *)
AssessCandidate(level) ==
    LET h == Observed(refresh(hist[slot], snap)) IN
    /\ wpc = "assess"
    /\ ~protected_now(slot, snap)
    /\ Assesses(h)
    /\ cands' = IF Mature(h) /\ replenishing'
                THEN cands \cup {[slot |-> slot, generation |-> snap.generation,
                                  version |-> snap.version, level |-> level]}
                ELSE cands

(* The pick loop takes the candidates in order, level 3 after the others,  *)
(* until enough slots are ready or on their way.                           *)
InBudget_NoPending == picked < BatchBlocks /\ Ready + shadow_live < ReadyHigh   \* mutant
InBudget == picked < BatchBlocks /\ Ready + pending_count + shadow_live < ReadyHigh
Picks(c) ==
    /\ wpc = "loop" /\ loop = "pick"
    /\ InBudget
    /\ c \in cands
    /\ c.level = 3 => \A d \in cands : d.level = 3
    /\ cands' = cands \ {c}
Allowed(c) == c.level = 3 => pressure = Capacity
PickSkip(c) ==
    /\ Picks(c)
    /\ ~Allowed(c) \/ ~Pinnable(c.slot, c.generation)
    /\ UNCHANGED <<repositoryVars, foregroundVars, controlVars, snap, tickVars, cand, picked, releases,
                   historyVars>>
PickPin(c) ==
    /\ Picks(c)
    /\ Allowed(c) /\ Pinnable(c.slot, c.generation)
    /\ Repository!Pin(c.slot, Worker)
    /\ cand' = c
    /\ wpc' = "version" /\ use' = "verify" /\ slot' = c.slot
    /\ UNCHANGED <<foregroundVars, loop, snap, tickVars, picked, releases, historyVars>>

(* The block must be as it was when it was judged.                         *)
Unchanged == snap.version = cand.version /\ ~protected_now(slot, snap)
VerifyFails ==
    /\ wpc = "verify"
    /\ ~Unchanged
    /\ Goto("unpin")
    /\ UNCHANGED <<repositoryVars, foregroundVars, snap, tickVars, pickVars, historyVars>>
VerifyShadow ==
    /\ wpc = "verify"
    /\ Unchanged /\ mode = "Shadow"
    /\ hist' = [hist EXCEPT ![slot].shadow = TRUE]
    /\ shadow_live' = shadow_live + Count(~hist[slot].shadow)
    /\ picked' = picked + 1
    /\ Goto("unpin")
    /\ UNCHANGED <<repositoryVars, foregroundVars, snap, tickVars, cands, cand, releases, pending_count>>
VerifyDelete ==
    /\ wpc = "verify"
    /\ Unchanged /\ mode # "Shadow"
    /\ Goto("retire")
    /\ UNCHANGED <<repositoryVars, foregroundVars, snap, tickVars, pickVars, historyVars>>

(* retire_if_only_reader, then the second look.                            *)
OnlyReader_Reader(s) == Worker \in readers[s]   \* mutant: others may read too
OnlyReader(s) == readers[s] = {Worker}
RetireOnlyReader ==
    /\ wpc = "retire"
    /\ OnlyReader(slot)
    /\ Repository!Withdraw(slot, Worker)
    /\ wpc' = "version" /\ use' = "recheck"
    /\ UNCHANGED <<foregroundVars, loop, slot, snap, tickVars, pickVars, historyVars>>
RetireFails ==
    /\ wpc = "retire"
    /\ phase[slot] # "Live" \/ ~OnlyReader(slot)
    /\ Goto("unpin")
    /\ UNCHANGED <<repositoryVars, foregroundVars, snap, tickVars, pickVars, historyVars>>
StillDue_Assumed == TRUE   \* mutant: no second look
StillDue == Unchanged /\ submitted = score_sequence
Condemn ==
    /\ wpc = "recheck"
    /\ StillDue
    /\ Repository!Leave(slot, Worker)
    /\ picked' = picked + 1
    /\ snap' = NoSnapshot
    /\ IF releases < BatchBlocks
       THEN Goto("release") /\ UNCHANGED <<hist, pending_count>>
       ELSE /\ Goto("loop")
            /\ hist' = [hist EXCEPT ![slot].pending = TRUE]
            /\ pending_count' = pending_count + Count(~hist[slot].pending)
    /\ UNCHANGED <<foregroundVars, tickVars, cands, cand, releases, shadow_live>>
Reprieve ==
    /\ wpc = "recheck"
    /\ ~StillDue
    /\ Goto("rescue")
    /\ UNCHANGED <<repositoryVars, foregroundVars, snap, tickVars, pickVars, historyVars>>
Rescue ==
    /\ wpc = "rescue"
    /\ Repository!Restore(slot, Worker)
    /\ Goto("unpin")
    /\ UNCHANGED <<foregroundVars, snap, tickVars, pickVars, historyVars>>

(* release(): the slot counts as pending until it is free.  The worker is  *)
(* the only reclaimer, so the block it was sent to is still the one in the *)
(* slot.  Readers, or a bundle that cannot be freed whole, defer it.       *)
MarkPending ==
    LET h == hist[slot]
        restart == h.generation # block[slot] IN
    /\ shadow_live' = shadow_live - Count(h.shadow)
    /\ pending_count' = pending_count - Count(restart /\ h.pending) + Count(restart \/ ~h.pending)
    /\ hist' = [hist EXCEPT ![slot] =
          IF restart THEN [NoHistory EXCEPT !.generation = block[slot], !.pending = TRUE]
          ELSE [h EXCEPT !.pending = TRUE, !.shadow = FALSE]]
ReleaseSeal ==
    /\ wpc = "release"
    /\ Repository!Seal(slot)
    /\ MarkPending
    /\ Goto("callback")
    /\ UNCHANGED <<foregroundVars, snap, tickVars, pickVars>>
ReleaseRetry ==
    /\ wpc = "release"
    /\ phase[slot] = "Releasing"
    /\ MarkPending
    /\ Goto("callback")
    /\ UNCHANGED <<repositoryVars, foregroundVars, snap, tickVars, pickVars>>
ReleaseReaders ==
    /\ wpc = "release"
    /\ readers[slot] # {}
    /\ MarkPending
    /\ releases' = releases + 1
    /\ Goto("loop")
    /\ UNCHANGED <<repositoryVars, foregroundVars, snap, tickVars, cands, cand, picked>>
ReleaseDone ==
    /\ wpc = "callback"
    /\ Repository!Recycle(slot)
    /\ hist' = [hist EXCEPT ![slot].pending = FALSE]
    /\ pending_count' = pending_count - 1
    /\ releases' = releases + 1
    /\ Goto("loop")
    /\ UNCHANGED <<foregroundVars, snap, tickVars, cands, cand, picked, shadow_live>>
ReleaseFails ==
    /\ wpc = "callback"
    /\ releases' = releases + 1
    /\ Goto("loop")
    /\ UNCHANGED <<repositoryVars, foregroundVars, snap, tickVars, cands, cand, picked, historyVars>>

(* The candidates are done, or enough, or the budget is; the tick's locals *)
(* go out of scope, and the candidates, cleared before their next use.     *)
EndTick ==
    /\ wpc = "loop" /\ loop = "pick"
    /\ wpc' = "idle" /\ loop' = "scan" /\ use' = "assess" /\ slot' = 0
    /\ scanned' = 0 /\ picked' = 0 /\ releases' = 0
    /\ cands' = {} /\ cand' = NoCandidate
    /\ UNCHANGED <<repositoryVars, foregroundVars, snap, cursor, now, score_sequence, replenishing, pressure,
                   historyVars>>

-----------------------------------------------------------------------------
ForegroundNext ==
    \/ CommitAppend \/ StoreEnd \/ CancelAppend \/ DropReservation
    \/ SyncPin \/ SyncSkip \/ PublishSame \/ PublishOpen \/ PublishGeneration \/ PublishFlags
    \/ PublishClose \/ SyncUnpin
    \/ DropResident \/ TakeResident
    \/ BeginStep \/ SubmitScores \/ StoreSubmitted
    \/ CommitRewind \/ DiscardResident \/ CutHistory \/ AbandonRewind \/ DropCaptured
    \/ \E p \in RewindTo : PrepareRewind(p)
    \/ \E s \in Slots :
          \/ PrepareAppend(s) \/ SetFlags(s) \/ Evict(s) \/ StageIn(s)
          \/ Capture(s) \/ CaptureHole(s) \/ Discard(s)
ReaderNext == \E r \in Readers, s \in Slots : ReaderPin(r, s) \/ ReaderDrop(r, s)
Pick == \E c \in cands : PickPin(c)
WorkerNext ==
    \/ ConsumeScores \/ NoScores \/ StartTick
    \/ ScanSlot \/ EndScan \/ PinSlot \/ PinSlotFails
    \/ ReadVersion \/ ReadGeneration \/ ReadFlags \/ ReadAgain \/ Unpin
    \/ AssessStale \/ AssessProtected \/ \E level \in {2, 3} : AssessCandidate(level)
    \/ \E c \in cands : PickSkip(c) \/ PickPin(c)
    \/ VerifyFails \/ VerifyShadow \/ VerifyDelete
    \/ RetireOnlyReader \/ RetireFails \/ Condemn \/ Reprieve \/ Rescue
    \/ ReleaseSeal \/ ReleaseRetry \/ ReleaseReaders \/ ReleaseDone \/ ReleaseFails
    \/ EndTick
Next == ForegroundNext \/ ReaderNext \/ WorkerNext

Spec == Init /\ [][Next]_vars

(* The worker's loop runs for ever and no call of the foreground blocks.   *)
(* A tick does not always run out of its budget before the pick loop, and  *)
(* storage that stays attached does not refuse a release for ever.         *)
Fairness ==
    /\ WF_vars(WorkerNext)
    /\ WF_vars(~Idle /\ ForegroundNext)
    /\ SF_vars(Pick)
    /\ SF_vars(ReleaseDone)
FairSpec == Spec /\ Fairness

-----------------------------------------------------------------------------
(* Properties.                                                             *)

Snapshot == [version : 0 .. MaxVersion, generation : 0 .. MaxBlocks, flags : {"hot", "cold"}]
ForegroundPc == {"idle", "end", "cancel", "sync", "pinned", "generation", "flags", "close", "unpin",
                 "evict", "stage", "submit", "capture", "discard", "nonresident", "cut", "drop"}
WorkerPc == {"idle", "tick", "loop", "pin", "version", "generation", "flags", "check", "assess",
             "verify", "retire", "recheck", "rescue", "unpin", "release", "callback"}

(* Every variable has its type; the counters of the worker stay within the *)
(* number of slots.                                                        *)
TypeOK ==
    /\ phase \in [Slots -> {"Free", "Writing", "Live", "Retired", "Releasing", "Cancelled"}]
    /\ block \in [Slots -> 0 .. MaxBlocks] /\ issued \in 0 .. MaxBlocks
    /\ readers \in [Slots -> SUBSET Leases]
    /\ meta \in [Slots -> Snapshot] /\ snap \in Snapshot
    /\ begin \in [Slots -> 0 .. MaxBlocks]
    /\ store \in [Slots -> [generation : 0 .. MaxBlocks, valid : BOOLEAN, gpu : BOOLEAN,
                            backed : BOOLEAN, position : Nowhere .. MaxBlocks]]
    /\ {total, history_end, rposition} \subseteq 0 .. MaxBlocks
    /\ mode \in Modes
    /\ {frame, submitted, score_sequence} \subseteq 0 .. MaxScores
    /\ {step, now} \subseteq 0 .. MaxSteps
    /\ prepared \in {"none", "append", "rewind"}
    /\ fpc \in ForegroundPc /\ todo \subseteq Slots /\ used \in BOOLEAN
    /\ wpc \in WorkerPc /\ loop \in {"scan", "pick"} /\ use \in {"assess", "verify", "recheck"}
    /\ {aslot, fslot, slot, cursor} \subseteq Slots
    /\ {scanned, pressure, pending_count, shadow_live} \subseteq 0 .. Capacity
    /\ {picked, releases} \subseteq 0 .. BatchBlocks
    /\ replenishing \in BOOLEAN
    /\ cands \subseteq [slot : Slots, generation : 1 .. MaxBlocks, version : 0 .. MaxVersion, level : {2, 3}]
    /\ hist \in [Slots -> [generation : 0 .. MaxBlocks, version : 0 .. MaxVersion, observed : BOOLEAN,
                           step : 0 .. MaxSteps, end : 0 .. MaxBlocks,
                           pending : BOOLEAN, shadow : BOOLEAN]]

(* A snapshot that snapshot() accepted is not a mix of two publications:   *)
(* as long as the slot still has its version, its fields are the current   *)
(* ones, whatever publish() was doing while they were read.                *)
SnapshotAtomic ==
    wpc \in {"assess", "verify", "retire", "recheck"} /\ snap.version = meta[slot].version =>
        snap = meta[slot]

(* The block in slot s is the one the store installed there.               *)
Installed(s) == store[s].valid /\ store[s].generation = block[s]

(* The worker has withdrawn the block for good: the store did not discard  *)
(* it, and the worker no longer holds the lease it could rescue it with.   *)
Condemned(s) ==
    Installed(s) /\ phase[s] \in {"Retired", "Releasing"} /\ Worker \notin readers[s]

(* No block is freed on a stale decision: a block the worker gave up has   *)
(* no reader, its published metadata are complete and about this block,    *)
(* and they are what the foreground would publish now: backed, indexed and *)
(* not resident (the second snapshot of tick() after the retiring CAS).    *)
DecisionCurrent ==
    \A s \in Slots : Condemned(s) =>
        /\ readers[s] = {}
        /\ meta[s].version % 2 = 0
        /\ meta[s].generation = block[s]
        /\ meta[s].flags = "cold" /\ Flags(s) = "cold"

(* The worker never withdraws a block under somebody's lease, not even for *)
(* the moment before a rescue, so a transfer, a resident block or a        *)
(* publication in progress never sees its block retired.                   *)
LeasedStaysLive ==
    \A s \in Slots : Installed(s) /\ phase[s] = "Retired" => readers[s] \subseteq {Worker}

(* pending_ and shadow_live_ are the number of marked slots, and a slot    *)
(* marked pending is on its way to the ring under the generation it was    *)
(* marked for: a mark left behind would count as a ready slot for ever and *)
(* stop the collector below its high watermark.                            *)
PendingExact ==
    /\ pending_count = Cardinality({s \in Slots : hist[s].pending})
    /\ shadow_live = Cardinality({s \in Slots : hist[s].shadow})
    /\ \A s \in Slots : hist[s].pending => Reclaimable(s) /\ hist[s].generation = block[s]

(* The high watermark bounds deletion: the worker condemns a block only    *)
(* while the ready slots and the condemned ones that are not free yet stay *)
(* below it, also when releases fail and appends go on.                    *)
CondemnedSlots == {s \in Slots : Condemned(s)}
NoOvershoot ==
    [][~(CondemnedSlots' \subseteq CondemnedSlots) =>
          Ready + Cardinality(CondemnedSlots) < ReadyHigh]_vars

(* What has been discarded by a rewind is dead: when no rewind is in       *)
(* progress, no readable block lies beyond the end of the history.         *)
DiscardedStayDead ==
    Idle => \A s \in Slots : Installed(s) /\ phase[s] = "Live" => begin[s] < total

(* A block that could be given up: nobody uses it, and what is published   *)
(* about it does not protect it.                                           *)
Victim(s) ==
    /\ Installed(s) /\ phase[s] \in {"Live", "Retired", "Releasing"}
    /\ readers[s] \subseteq {Worker}
    /\ ~protected_now(s, meta[s])

(* A repository below its low watermark that has a victim gets a slot      *)
(* back, unless a user or a protection takes the last victim: hot blocks   *)
(* (level 3) are only a preference and never block the append for ever.    *)
Replenished ==
    (mode = "Delete" /\ Ready < ReadyLow /\ \E s \in Slots : Victim(s)) ~>
        (Ready >= ReadyLow \/ \A s \in Slots : ~Victim(s))

=============================================================================
