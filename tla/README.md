# Verification of the KV memory and its serving layer

QW3 is a CUDA inference runtime; KVMem is its tiered memory for attention
keys and values. In bounded mode a fixed number of physical slots holds the
blocks of an unbounded history; in unbounded mode the history grows and a
collector retires what is no longer useful. Background threads decide which
blocks to forget while the serving thread, transfers and checkpoints go on
reading without locks. A long context can be built once into an archive on
disk and attached by others. Above that, a continuous-batching worker serves
requests that share the device, prompt prefixes and sessions. This directory
models these parts in TLA+, model-checks them with TLC and proves their safety
with TLAPS.

Paths below are relative to the repository (`src/...` here is the
repository's `src/` directory, `include/...` its `include/`).

## Inventory

### Parts, their state and operations

| Part | State | Operations | Status |
| --- | --- | --- | --- |
| `KvMemRepository` (`src/kvmem_repository.cpp`) | per slot an atomic word (phase, reference count), an atomic generation and a plain record; a single-producer single-consumer ring of free slots; an owner flag | `try_reserve`, `Reservation::commit/cancel`, `try_pin(_slot)`, `Lease::clone/reset`, `retire`, `retire_if_only_reader`, `rescue`, `retired_at`, `try_reclaim` | modelled, proved |
| `KvMemRepositoryGc` (`src/kvmem_repository_gc.cpp`) | per slot versioned metadata written by the foreground; per slot history kept by the worker; watermarks, counters, candidates | `publish`, `submit_scores`, `set_history_end`, `begin_step`, `tick` (scan, pick, retire, second look, rescue, release) | modelled without scores, statistics and `stop`; proved |
| `KvMemStore`, repository half (`src/kvmem_store.cpp`) | block table, history directory, GC flags, resident leases, a prepared append or rewind | append (prepare, commit, cancel), `set_repository_gc_flags`, `set_block_tier`, `gc_begin_step`, rewind (prepare, commit, abandon), reads | block-aligned core modelled |
| `KvMemStore`, selection | selections, keep allocation | `pick_*`, `set_selection`, `resolve_kvmem_keep_allocation` | not modelled |
| storage release bundle (`kvmem_repository_gc.cpp:17-53`) | per slot a generation, two captured allocations, done flags | one callback, retried | modelled, proved |
| `KvMemGc` (`src/kvmem_gc.cpp`) | per block atomics (flags, generation, touch), leases, immutable directories (views), the worker's history, candidates and retirements | `register_block`, `update_flags`, `forget_tail`, `used`, leases, `submit_scores`, `tick` | modelled without score arithmetic, statistics and `stop`; proved |
| `NvmeKvTier` (`include/qw3/nvme_kv_tier.hpp`) | slot map, free list, recency, allocation ids; an overlay file with a state per slot | allocate, release exactly, clear; copy-on-write reads and writes | allocator core and overlay modelled, proved |
| `PinnedKvTier`, `HostIoBufferPool` | slots, LRU, idle buffers | allocate, evict, recycle | not modelled |
| `KvMemArchive` and its builder (`src/kvmem_archive.cpp`, `build_kvmem_archive`) | raw-K and block payload, ladder states, tokens, two validity bitmaps, manifest | open, resume, ingest, checkpoint, seal | builder modelled, with kills; proved |
| continuous batching (`src/qwen_native_backend.cpp`) | pending queue, rows, token budget, session keys, the worker thread | start, admit, withdraw, decode, requeue, group runs, stop, failure | modelled, proved |
| controlled scheduler (same file, `continuous_prefill_policy.hpp`, `idle_session_cache.hpp`) | rows with suspended controllers, their events, parked sessions | admit, resume, prefill, draft, verify, finish | modelled, proved |
| `CooperativeRequest` (`src/cooperative_request.hpp`) | a controller thread's state, stop flag and event | `resume`, `yield`, destruction | modelled, proved |
| prefix cache, `GlobalKvPagePool`, `PrefixStateStorage` | free stack, pins, entries with references and snapshots, page tables, host copies | lookup, seed, commit, evict, release, offload, recycle | modelled without the draft model's pages; proved |
| other caches, request planning | in-memory maps, pure decisions | lookups | not modelled |
| server, kernels, loaders, tokenizer, vision | device and network I/O, numerics | | not modelled |

### How they interact

* One foreground thread owns a `KvMemStore`. It reserves slots, commits and
  installs blocks, publishes metadata to the collector under a lease, and
  rewinds the history. It is the only consumer of the ready ring.
* One background thread runs `KvMemRepositoryGc::tick`. It is the only
  producer of the ring in this program, though `try_reclaim` itself admits
  several callers through its owner flag.
* Leases may be cloned, handed over and dropped by any thread: transfers and
  checkpoints hold blocks while the other two threads go on.
* The shared memory is exactly: control words, generations, records, the
  ring, the metadata with their version, `history_end_`, the score frame and
  its sequence number, `step_`.
* A reclaimed repository slot is released through the storage bundle, which
  try-locks the allocators of the two NVMe tiers. The unbounded collector
  releases through a callback of the executor over the same two allocators.
* The archive builder drives an executor and writes the archive's files; an
  attached archive is the read-only base of a tier with an overlay.
* Request threads enqueue into the continuous batch and wait on their own
  condition variable; the worker owns the device, runs plain rows itself and
  hands groups to the controlled scheduler, which resumes one controller
  thread at a time. Rows take pages from the global pool, which calls back
  into the prefix cache when it is dry.

### What is hard

Lock-free slot reuse (a stale handle, a pin racing retirement, a count that
carries into the phase bits), a release that fails half way, a sequence lock
whose reader then acts on what it read, decisions that are stale by the time
they are applied, watermarks fed by counters that several paths adjust,
starvation of appends, and the moment in which the worker has withdrawn a
block that it may still bring back. In the unbounded collector: readers of
older directories, a release that succeeds in one tier only, block ids that a
rewind gives to another lineage. In the archive: kills between and inside the
writes of files that only together mean something. In the serving layer: a
worker that fails while others enqueue, join or stop it, requests that move
between four containers, a pointer into another thread's stack, pages shared
by cache entries and requests. `PROJECT.json` lists each hazard with its
line and the properties aimed at it.

### What makes each part correct

* Repository: a lease fences its block (never reused, released or half
  released under it); counts are exact; identities are never reused; the ring
  loses nothing and hands nothing out twice; an admitted append is served;
  every withdrawn block comes back as a free slot.
* Collector: accepted snapshots are not torn; nothing is freed on a stale
  decision or under a lease; deletion stops at the high watermark; the
  counters behind that are exact; below the low watermark an unused block is
  found.
* Store: what a rewind discards stays dead.
* Unbounded collector: what was reclaimed is out of reach of every reader and
  lease (with the one exception of a retirement cancelled half way, below); a
  release frees its own lineage only; the live count behind the pressure
  is exact; a retirement settles.
* Storage release: no leak and no foreign release through retries; the
  slots of a tier are partitioned.
* Archive: a resume point is backed by the right states; a sealed archive
  holds its corpus and nothing else; published progress is kept; a build that
  is restarted often enough is sealed.
* Overlay: no half-copied slot is read, no stored write lost, nobody spins
  for ever.
* Batching: budget and session keys exact, each request held once, arrival
  order, one user of the device, every request ends.
* Scheduler: neither prefill nor decode starves; rows and parked sessions
  stay within the limit, a session has one executor.
* Handover: one thread runs request code; held events are alive; a stopped
  controller does not run again.
* Prefix cache: a request reads its own prefix; pages and references are
  conserved; snapshots are not overwritten while used; the pool reports
  exhaustion only if every page is in use.

## Modules

| Module | Role |
| --- | --- |
| `BlockLifecycle` | abstract specification of the slot directory: phases, one block per slot, a set of readers |
| `KvMemRepository` | the lock-free code, one action per access to shared memory |
| `KvMemRepositoryProofs` | theorems about it |
| `KvMemRepositoryGc`, `KvMemRepositoryGcProofs` | the collector and the foreground thread, over `BlockLifecycle`, and theorems about them |
| `StorageRelease` | the release bundle over two tier allocators, over the repository's contract |
| `NvmeOverlay` | the lock-free copy-on-write overlay of one slot |
| `StorageTierProofs` | theorems about these two; it extends both, hence the `Overlay` in the second one's names |
| `KvMemGc`, `KvMemGcProofs` | the unbounded collector with the executor thread and the tiers' allocations, and theorems about it |
| `KvMemArchive`, `KvMemArchiveProofs` | the archive directory and its builder, with kills, and theorems about them |
| `AdmissionControl` | abstract specification of admission: which requests hold a reservation together |
| `ContinuousBatch`, `ContinuousBatchProofs` | request threads, worker and serial fallbacks around the pending queue, and theorems about them |
| `ControlledScheduler` | one turn after the other of the controlled scheduler, with the prefill policy and parked sessions |
| `CooperativeRequest` | the handover between scheduler and controller threads |
| `ControlledSchedulerProofs` | theorems about these two; it extends both, hence the `Handover` in the second one's names |
| `PrefixCache`, `PrefixCacheProofs` | page pool, page tables, cache entries and snapshots, and theorems about them |
| `MC...` | instances for TLC |

`KvMemRepository` implements `BlockLifecycle` (checked and proved), so
`KvMemRepositoryGc` composes the two threads with an `INSTANCE` of the
abstract directory, in which each repository call is one atomic step. That
keeps the composition small and makes its results carry over to the code's
repository. `ContinuousBatch` implements `AdmissionControl` (proved, and checked
on the `batch` run's constants) with the outstanding requests as the admitted
ones and those whose promise is kept as the ended ones.

### KvMemRepository

`control[s]` is the atomic word as `[phase, refs]`; adding to a full count
carries into the phase and taking from an empty one borrows, as the packed
64-bit word does. `generation[s]` is the atomic hint and `record[s]` the plain
record's generation. `bundle[s]` is the storage the slot's block owns: whole,
partly released or none. A lease object `l` has a state (`lstate`), a handle
and, while `try_pin` has not confirmed it, the generation it wants. The append
producer and each reclaimer have a program counter.

A compare-and-swap loop of the code decides only on the word it compares, so
its successful exit is one step and a failed call is a stuttering step. Where
a decision also reads other memory (record, generation, ring indices) the
accesses are separate steps: `PopSlot`/`PopAdvance`,
`StoreWriting`/`StoreRecord`/`StoreGeneration`, `Acquire`/`Confirm`,
`ScanPhase`/`ScanGeneration`, `LoadPrior`/`CheckGeneration`/`TakeReleasing`,
`ReleaseDone`/`StoreFree`/`PushSlot`/`PushPublish`. The release callback may
free the bundle (`ReleaseDone`), or fail or throw after part of it
(`ReleaseDeferred`).

Memory order: the model is sequentially consistent. The code publishes each
plain field by a release store or read-modify-write that its reader acquires
(the record before the generation and before the committing CAS, the ring
entry before `tail`, the end of use of a ring entry before `head`), each
location that decides anything is a single atomic word, and the invariants
relate a word only to data published through it; no argument needs a total
order over two independent words.

### KvMemRepositoryGc

State: the directory of `BlockLifecycle`; `meta[s]`, the versioned metadata;
the atomics `history_end`, `frame`/`submitted` (a score frame and its sequence
number), `step`; the foreground's `store[s]` (generation, whether it has
tokens, tier, backing, directory position) and `total`; the worker's loop,
snapshot, candidates and `hist[s]`.

A step makes at most one access the other thread can see, together with the
private assignments around it. `publish` takes up to five steps between pin
and unpin, `snapshot` four loads. Two simplifications are in the header of
the module: the reads of `history_end_`, ready count and submitted sequence
within one decision are one step, and a call that holds two leases on one
block holds one.

Data that the properties do not tell apart is left open: the level (3 or
ordinary) of a candidate and its place among those of its level, which
entries of a score frame are still valid, and when the tick budget runs out.
A history position is a block; appends add one block. Partial tails,
multi-block appends and checkpoints (here: readers that hold leases) are left
for the plan below.

### StorageRelease

Each tier is the allocator's metadata (map, free list, recency list,
allocation ids). A call of the bundle finds each mutex free or taken, when it
captures and again when it releases; `pending[b]` is the record it keeps
between calls. The repository is assumed by its proved contract: one reclaim
of a slot at a time and no reuse before the bundle reports that both tiers
are done. `Reset` clears both tiers under a pending record.

### KvMemGc

The executor thread and the worker share atomics only. A block has a
generation (its lineage, renewed by `forget_tail` and re-registration), flags
reduced to what `protected_now` distinguishes, and a touch counter. A view is
the immutable directory a reader took; it stays valid for its holder although
newer ones are published. The worker's tick is one step per access: first
look, readers check, second look, release, scan, pick, publish; all of it uses
the step counter as it was when the tick began (`activeStep`).

The release callback takes one try-lock per tier, independently
(`qwen_executor.cpp:12329-12330`), so `Release` may find any of the tiers busy, at
each attempt anew; the tiers that are done stay in the item. Between two attempts
the first look may cancel the retirement (`kvmem_gc.cpp:280`), and a block of which
one tier was released comes back without it. `ReclaimedIsHidden`
says how far that goes: a block that a lease or a held directory reaches has the
storage of its generation in both tiers, unless its retirement was cancelled, and
then in one. That a cancelled retirement gives the block back whole is
`CancelledIsWhole`, which the code violates (see the known counterexamples).

### KvMemArchive

`disk` is the directory: KV and ladder states hold the token sequence that
the executor had processed when they were written. One action is one file
operation, in the code's order: payload and ladder state, tokens, chunk
bitmap, block bitmap, manifest. `Kill` loses the builder's memory and keeps
the files; `KillInBitmap` falls between the truncation of a bitmap and its
bytes (`torn`, where the environment allows it). Loss of power is outside the
contract the repository states.

`WriteState` marks every unit up to the turn's end. The code marks a unit only if
its chunk or block is durable (`qwen_executor.cpp:4792-4803`); by then
`kvmem_archive_persist_through` has staged out every block that is not clean on the
SSD, waited for all writes and synced the raw keys, and a write that fails throws,
which ends the builder as a kill does. A unit that stays unmarked without an error
is therefore not in the model. A semantic-chunk build
(`qwen_native_backend.cpp:2411-2418`, `2567-2579`) is one turn from 0 to the target
that refuses any other resume point once the tokens are truncated: in the model a
build whose cadence reaches the target, or a kill after `Resume`. How it cuts the
prompt into chunks is not modelled.

### NvmeOverlay

One slot with two segments. A writer that finds the slot `Base` claims it,
copies it up unless it overwrites all of it, writes and publishes; the others
wait; any I/O call may fail. Readers choose the file per call.

### ContinuousBatch, ControlledScheduler, CooperativeRequest

Three layers of one path. In `ContinuousBatch` `mu` is held across steps only
by a start that joins an old worker; every other critical section is one step.
Group runs are their admission and their completions. `Complete` merges the two
sections of `complete_continuous_request`, the budget under `cb_mu_` and then
`done` under the request's own mutex (7228-7236): `done` is read by the request's
thread alone, which a later `done` only lets wait longer. `ControlledScheduler`
refines a group run for controlled requests: a turn admits, resumes and
executes one kind of work; requests are numbers of prefill chunks and decode
rounds; the switches read at the start of a run are a mode. Between runs the
worker may drop the parked sessions (`ClearSessions`: a request of the older paths
arrives, 7444, or the worker ends or fails, 7497, 7523).
`CooperativeRequest` is the thread handover beneath `ResumeRow`: each critical
section under a controller's mutex is one step and the bodies are arbitrary.

### PrefixCache

A prompt is a sequence of whole pages, and a page or snapshot holds the
prefix it was computed from, so that a page reused too early shows as wrong
content. All operations run on the worker, one after the other; a page of
prefill is a step, with the evictions its allocation needs and the commit at
the boundary. The entries are kept in order of use, which is what
`last_used_seq` is for. A failed seed leaves the snapshot borrowed but not the
entry, as the code does.

## Runs

| Run | Bounds | Properties | Shows |
| --- | --- | --- | --- |
| `repository` | 1 slot, 3 leases, 1 reclaimer, 3 identities, count limit 2 | `RefsCountLeases`, `ReleaseExclusive`, `LeaseFence`, `ReadyRing`, `ImplementsLifecycle`, `EventuallyReclaimed` | all contention on one slot, a third lease at a full count, the ring's indices wrapping, the refinement, deferred releases coming back |
| `gc_decision` | 1 slot, 1 reader, 2 blocks, versions up to 6, 1 score frame, 1 step, Shadow and Delete | `SnapshotAtomic`, `DecisionCurrent`, `LeasedStaysLive`, `PendingExact` | every interleaving of publication and decision on one slot, across its reuse |
| `gc_watermark` | 2 slots, 2 blocks, one slot scanned per tick, Delete, no rewinds | `NoOvershoot`, `Replenished` | deletion stops at the high watermark although releases fail; below the low one an unused block is found |
| `gc_rewind` | 2 slots, 2 blocks, rewinds to 0, recent window of one block | `DiscardedStayDead` | **violated**, see Finding |
| `history` | 2 ids, 2 lineages, an I/O view, a working lease, rewinds, shadow and delete mode, 2 steps, 1 score event, at most 6 (in shadow mode 5) uses, events and steps, any tier busy at any release | `ReclaimedIsHidden`, `LiveCountExact`, `TombstoneJustified`, `ExactRelease` | what was reclaimed is out of reach, the count behind the pressure is exact, delayed releases free their own lineage |
| `storage` | 2 repository slots, 1 slot per tier, 2 generations, 2 allocations per tier | `SlotPartition`, `StorageExact`, `EventuallyReusable` | retried releases neither leak nor free the next generation's storage, and end |
| `archive` | inputs of 3 units, 3 cadences, 3 kills, three environments (below) | `ResumeIntact`, `SealedIntact`, `ProgressKept`, `EventuallySealed` | kills between and inside file operations, restarts on other inputs and targets |
| `overlay` | 3 writers (one of the whole slot), 2 readers | `WritesSurvive`, `ReadsCoherent`, `EveryCallEnds` | the overlay is coherent and live under failing I/O |
| `batch` | 3 requests (2 grouped, 2 of one session), 1 serial, 1 worker exception, 2 rows, queue of 2 | `BudgetExact`, `SessionExclusive`, `HeldOnce`, `EveryRequestEnds` | nothing leaks or is held twice across cancellations, stops and failures; requests of an undisturbed worker end |
| `cooperative` | 3 controllers | `OneRuns`, `EventLive`, `SchedulerReturns` | the handover is safe and returns |
| `scheduler` | 3 requests of 2 sessions, 2 rows, 3 modes, 1 exception | `Residents`, `PrefillServed`, `EveryQueuedEnds` | one executor per session and no more than budgeted, bounded waiting of prefills, every queued request completes |
| `prefix_cache` | 4 prompts, 2 rows, 5 pages, budgets of 3 pages and 2 entries, 1 snapshot on the device | `PrefixIntact`, `PagesConserved`, `SnapshotsIntact`, `ExhaustionHonest` | sharing, eviction and recycling never touch what a request uses; exhaustion is reported only when it is real |

One run covers several configurations where the code reads a setting once: the
initial state chooses it (`mode` of the bounded collector and of the scheduler,
`shadow` of the unbounded one, `env` of the archive), and nothing changes it. The
archive's three environments are: several corpora and targets with kills between
file operations; one corpus with kills inside a bitmap's rewrite as well; one
corpus and one target, the one in which a build must be finished.

Why the bounds are enough. Contention on a slot involves its word and its record
only, so one slot shows every race between leases, reclaimer and publisher;
three leases are needed to go from a full count to one more, and three
identities make the two ring positions wrap and let a handle outlive two blocks.
Several slots, rival reclaimers and larger limits are the proofs' part: for the
safety properties they remove the bounds of every component (see Proofs). In the
collector two slots separate "the scanned slot" from "the one that would have to
be found". `MaxVersion` counts two per publication: in `gc_decision` three of
them, enough to install a block, make it cold and publish the next block in the
slot, or change it once more under the worker's eyes; in `gc_watermark` two,
enough to make a block cold. That run has no score frames; with one frame
(`MaxScores = 1`) `NoOvershoot` and `Replenished` hold too, in a run of several
minutes. The bounds `MaxBlocks`, `MaxVersion`, `MaxScores`, `MaxSteps` are
tested where a call starts, so no call is cut off in the middle; `MaxSequence`
is the code's own limit, where `try_reserve` reports exhaustion.

In the unbounded collector two ids are enough for one to be retired while the
other keeps the target reached, and two lineages for a release that comes too
late. `MaxWork` bounds uses, score events and steps together: six are a block
registered and staged out, a second one that makes the pressure, two steps and
one use, lease or score event to disturb the retirement. Two repository slots
that compete for the one slot of a tier and two generations let a stale record
meet the next owner. Three units make an archive with a committed prefix, a
written but uncommitted unit and one to come; the corpora differ in their first
or second unit; three kills reach every file age the writes can combine to.
Three requests are more than two rows hold. For the prefix cache the prompts
form a chain of three prefixes with a branch and equal boundaries, so an entry
can share all its pages with a longer one and two requests commit the same
prefix; five pages are fewer than two requests need at once.

Deadlock is checked in the runs of both collectors (their workers always have
a step). It is not in the other runs: there the system may legitimately stop,
once all identities are used or all requests, builds and calls have ended.

### Fairness

* `KvMemRepository`: each reclaimer's call finishes (`WF`); each slot is
  scanned again and again (`SF` on `ScanPhase`) because `run()` loops for
  ever (`kvmem_repository_gc.cpp:358-374`) and `cursor_` visits slots round
  robin (262-263); a callback retried for ever is not refused for ever (`SF`
  on `ReleaseDone`), which is a property of the storage, whose refusals are a
  busy lock or an I/O error.
* `KvMemRepositoryGc`: the worker runs (`WF`), no foreground call blocks
  half way (`WF` on steps inside a call; starting a call is never fair), the
  tick budget is not exhausted before the pick loop in every tick (`SF` on
  `Pick`; the budget is 2 ms by default and the check of the clock cooperative) and
  the storage does not refuse for ever. That the round robin reaches the
  victim and that level 3 is eventually allowed is not assumed but part of
  the model.
* `KvMemGc`: the worker runs (`run()` ticks for ever), of infinitely many
  attempts to release infinitely many find a given tier's allocator free (`SF`, per
  tier: nothing says that both are free at once), a reader
  drops its view when its batch ends, the executor's calls finish.
* `StorageRelease`: the same for the worker's retries, for each mutex on its
  own.
* `KvMemArchive`: a builder that is not killed runs on and an unfinished build
  is started again; the kills are finitely many.
* `NvmeOverlay`, `CooperativeRequest`, `ContinuousBatch`,
  `ControlledScheduler`: threads are scheduled, device calls return, a body
  comes to its next yield. Failures are never fair. Nothing is assumed about
  who gets a mutex or about arrivals.

## Finding

`gc_rewind` is a run that TLC must refute; `PROJECT.json` quotes what the
repository says.

`gc_rewind`: `prepare_repository_rewind` skips every block it cannot pin:
"historical GC holes remain holes" (`src/kvmem_store.cpp:557`), and the
documentation says a rewind does not revive deleted blocks
(`docs/kvmem_bounded_repository.md:64`). But a pin also fails in the moment
between the worker's `retire_if_only_reader` and its second look. Counterexample:
two blocks are appended, the first is backed and evicted, the worker retires
it; a rewind to 0 starts, cannot pin it and passes over it, discards the second
block, cuts the directory and lowers `history_end_`; the worker's second look
now finds the first block within the recent window and rescues it. The block
is live, has tokens and lies beyond the end of the history, and
`is_live`/`repository_slot_read` accept it. With a recent window configured
every rescue after such a rewind has this outcome. A rewind that marks the
block (or waits for the window to pass) would close it.

## Properties outside the runs

The modules state more than the runs above check. To try one, add it to the
cfg of its module's run (as an INVARIANT, or as a PROPERTY where it is an action
or temporal formula) with the constants given.

Held when checked, and proved: `TypeOK`, `ReservationWritable`, `NoOverflow`,
`AdmissionKept`, `IdentityUnique` and `LifeCycle` of `KvMemRepository`;
`RetireUnderPressure` of `KvMemGc` (its guard decides where two candidates are
picked in one tick: no I/O view, no score event, no shadow mode, `MaxWork` 7,
`MaxSteps = 2`, `CandidateSteps = 1`, `Recent = 0`, `BatchBlocks = 2`);
`BuilderAligned` of `KvMemArchive`;
`RowsBounded` and `ImplementsAdmission` of `ContinuousBatch`; `VerifyServed` of
`ControlledScheduler`; `HandshakeOK` and `StopIsFinal` of
`CooperativeRequest`; `TypeOK`, `LeasesExact` and `OverBudgetOnlyInUse` of
`PrefixCache`.

Held when checked only: `TypeOK` of the other modules (their proofs' invariants
contain stronger or unbounded types); `RetirementSettles` of `KvMemGc` (FairSpec,
without rewinds: one lineage, `MaxGen = 1`); `ArrivalOrder` of `ContinuousBatch`,
with four ungrouped requests of distinct sessions on two rows and no serial one.

Known counterexamples. Some of the properties above carry an exception because
the code does not keep them without it; each entry says what happens and how to
see it.

| Property | Change | What the code does |
| --- | --- | --- |
| `CancelledIsWhole` | the `history` run's constants | `kvmem_gc.cpp:280`: a release finds one allocator busy and frees the other tier; a rewind then drops the blocks after it, the block now lies in the recent window, and the next tick cancels its retirement: the block is shown again without the tier that was freed. The design note (`docs/kvmem_background_gc_design.md:191`) has a retirement cancelled while the block is not yet free, with no payload to rebuild. Keeping an item whose release has begun, or taking both locks before freeing, would close it |
| `RetireUnderPressure` without `~Rewound` | no I/O view, `MaxWork` 5, `MaxSteps = 2`, `CandidateSteps = 1`, `Recent = 0`, no score event, no shadow mode | `kvmem_gc.cpp:330`: a rewind during a sweep leaves dropped blocks in the live count, and the collector retires a block without pressure; the same count makes `LiveCountExact` need its condition `~Rewound`, with the run's own constants |
| `ProgressKept` without `~env.torn` | the torn environment | `kvmem_archive.cpp:540`: bitmaps are truncated in place; a kill there loses published progress |
| `ResumeIntact`, `SealedIntact` | torn bitmaps with several corpora | `qwen_native_backend.cpp:2384`: a build of another corpus starts at 0 because the torn bitmap covers no ladder point, and keeps the old points; once its own writes cover them, a restart may resume from a state of the old corpus, and the archive is sealed with it |
| `EventuallySealed` with torn bitmaps in `Steady` | the torn environment with one target | `qwen_executor.cpp:12771`: a resume point beyond the manifest's total makes every later build abort |
| `DeviceExclusive` | the `batch` run's constants | `qwen_native_backend.cpp:4301`: a serial request drains the worker, but another request can start the next one while it is on the device; `cb_running_` is then cleared under the new worker, and a later start joins it with the mutex held |
| `NoCircularWait` | the `batch` run's constants | 7084: a start joins a failing worker with the mutex the worker needs to fail its requests |
| `EveryRequestEnds` without `Undisturbed` | the `batch` run's constants | 7190: a request enqueued after the worker failed, by a thread that had seen it running, is served only if another request starts a worker; its budget stays reserved |
| `QueueBounded` | 3 ungrouped requests, 1 row, queue of 1 | 7478: requeued arrivals push the queue beyond its limit |
| `DecodeServed` | the `scheduler` run's constants | 7851: a row between two verifications counts as idle, so another row's prefill chunks are not interleaved with its decoding |

Writing the bitmaps beside and renaming them, as the manifest is, would close the
three of the archive.

## Proofs

`KvMemRepositoryProofs` proves, for every capacity, every finite set of leases,
any reclaimers, any sequence limit and any positive count limit (the four
named assumptions of `KvMemRepository`):

* `TypeCorrect`, `Invariance` (`Spec => []IInv`);
* `LeasesAreCounted`, `LeasesFence`, `ReservationsStayWritable`,
  `ReleaseIsExclusive`, `RingIsExact`, `RingNeverOverflows`,
  `AdmissionIsKept`, `IdentitiesAreUnique`: the safety invariants of the module,
  those of the run `repository` among them;
* `PhasesFollowLifeCycle`: the action property `LifeCycle`;
* `RepositoryImplementsLifecycle`: `Spec => Lifecycle!Spec` under the mapping
  phase = the word's phase, block = the record's generation, readers = the
  leases on the slot.

None of these invariants is inductive alone. That a lease fences its block
rests on exact counts (a reclaimer acts on a zero count); counts are exact only
if a slot that is being built belongs to its one reservation; that rests on
the ring never containing a slot in use; and the ring's exactness needs to know
where every reclaimer and the producer stand. `IInv` is the conjunction of one
part per actor: `SlotInv`, `LeaseInv`, `AppendInv`, `IdentityInv`,
`ReclaimInv`, `RingInv` with `TypeOK` and `RefsCountLeases`. Each action has a
lemma per part it can disturb. `RingNeverOverflows` is a pigeonhole argument:
the queued slots are distinct and the slot being pushed is not among them, so
fewer than `Capacity` of the `Capacity + 1` positions are occupied.
The refinement theorem uses `IInv` for the steps whose abstract guard speaks
of readers where the code looks at a count.

The other seven proof modules have the same layout: the conjuncts of the inductive
invariant `IInv`, facts about lists, sets and sums, one lemma per action, and the
theorems. TLC checked each invariant on the constants of its component's run
before it was proved. The constants are arbitrary up to the assumption named;
bounds such as `MaxVersion` or `MaxKills` are any natural number.

`KvMemRepositoryGcProofs` (`ConfigAssumption`, `ReadersAssumption`):
`GcInvariant`, `SnapshotAtomicAlways`, `DecisionCurrentAlways`,
`LeasedStaysLiveAlways`, `PendingExactAlways`, and the action property
`NoOvershootAlways`. That a snapshot is not torn needs the meaning of the
version (`Versions`: odd exactly while `publish` writes; fields read under an even
version are the published ones as long as it stays) and who holds which lease
(`Holding`). That a decision is still right when the block is given up needs that
the metadata agree with the store whenever the foreground holds no lease
(`Synced`), and that a block the worker has withdrawn is its own (`Withdrawing`).
The worker's counters rest on what the marks of a slot's history mean (`Marks`;
one part was found by failing proofs: a cancelled reservation was never
installed), the watermark on the look that precedes the pick (`Budget`).

`StorageTierProofs`, the release bundle (`StorageConfig`): `StorageInvariant`,
`SlotPartitionAlways`, `StorageExactAlways`. `SlotPartition` is inductive per
tier. `StorageExact` is not: a retry releases what an earlier call captured, so
`Stored` says that a captured allocation is still the slot's or is gone, also
after a reset of both tiers, and that a tier marked done holds nothing.

`StorageTierProofs`, the overlay (`OverlayConfig`): `OverlayInvariant`,
`WritesSurviveAlways`, `ReadsRecentAlways`, `HalfCopyInvisibleAlways`, from these two
`ReadsCoherentAlways`, and `InitializerAtWork` (an Initializing slot has a writer that will publish or give
up, so those that wait for it do not wait on nobody). `Claiming` says that one
writer holds an Initializing slot; `Contents` that it overwrites every stale
segment before it publishes, by the copy or by a write of the full slot;
`Reading` what a reader's buffer holds on the way.

`KvMemGcProofs` (`GcConfig`): `HistoryInvariant`, `TombstoneJustifiedAlways`,
`LiveCountExactAlways`, the action properties `ExactReleaseAlways` and
`RetireUnderPressureAlways`, and `ReclaimedIsHiddenAlways`. A retirement is
decided long before storage is freed; `Retiring` carries what must stay true in
between: every directory newer than the retirement shows it, and the two looks
establish that only such directories are held and no lease is. `Lineage` relates
generations of entries, allocations and histories, `Directory` tombstones and
held views, `Counting` the live count up to the first rewind. `Backing` says
that an item still has what its releases have not freed, that a cold block which
lacks storage is `Hidden` while its tombstone stands (no lease, and no held
directory that shows it), and that one which lacks all of it is `Gone`: its
tombstone stands for good, because no item is left that could cancel it.
`ReclaimedIsHiddenAlways` has no hypothesis about the allocators.

`KvMemArchiveProofs` (`ArchiveConfig`): `ArchiveBooks` and `ProgressKeptAlways`
hold in every environment; `ArchiveInvariant`, `ResumeIntactAlways`,
`SealedIntactAlways` and `BuilderAlignedAlways` have the hypothesis `OneInputWhenTorn`: where a kill may
fall inside a bitmap's rewrite, all builders have the same input. Without it TLC
refutes both properties (known counterexamples). The invariant has two layers.
`Books` is about bookkeeping: the builder's copies are ahead of the files, which
follow in the order of the writes; bitmaps are initial segments; a running
builder stands at or beyond every ladder point that is covered; without torn
bitmaps every ladder point is covered. `Contents` is about data: while a builder
runs the files hold its input, after a kill some input.

`ContinuousBatchProofs` (`BatchConfig`): `BatchInvariant`, `BudgetExactAlways`,
`SessionExclusiveAlways`, `HeldOnceAlways`, `RowsBoundedAlways` and the refinement
`BatchImplementsAdmission`. `Promises` says that a request's budget is released
exactly when its promise is kept, `Accounts` that the reservation is the sum over
the outstanding requests, `Hands` that each of them is in exactly one container.
The requests may be infinitely many; that only finitely many are outstanding is
part of the invariant. The bound on the rows needs `Seats` beside it: a group
exists only while the worker runs it, and then no plain row is resident. The
refinement maps queueing to `Admit`, each completion to `End`, and all else to a
stutter; that what is admitted fits follows from `Accounts`, because the code
compares a counter and the abstract specification the true sum.

`ControlledSchedulerProofs`, the scheduler (`SchedulerConfig`):
`SchedulerInvariant`, `OneResidentAlways`, `ResidentsBoundedAlways`, `ResidentsAlways`,
`PrefillServedAlways`, `VerifyServedAlways`. `Rows` says what an event of a row
means, `Places` that a request is in the queue or in one row and a session has
one outstanding request, `Residents` who owns a session's executor, parked or
live. Bounded waiting needs `Turns`: how far a waiting row's count of missed
rounds can be, given the decode budget spent since the last prefill and the place
of the cursor.

`ControlledSchedulerProofs`, the handover (`SomeController`):
`HandshakeInvariant` (`HandoverSpec => []HandshakeOK`) and from it
`OneRunsAlways`, `EventLiveAlways` and the action property `StopIsFinalAlways`.
None of the three is inductive: that one body runs at a time needs to know that
`Running` is a state only of the controller the scheduler waits for, that a
stopped controller is the one being joined, and where each thread is when its
state says `Yielded`; `HandshakeOK` says exactly this, per controller.

`PrefixCacheProofs` (`CacheConfig`): `PrefixCacheInvariant`, `PrefixCacheTypes`,
`PrefixIntactAlways`, `PagesConservedAlways`, `SnapshotsIntactAlways`,
`LeasesExactAlways`, `OverBudgetOnlyInUseAlways` and the action property
`ExhaustionHonestAlways`. The invariant has one part per account: `Stack`, `Pins`
and `Owners` say that a page is free once, or listed by as many entries as it has
pins, or owned by one request; `Counted` and `Held` that an entry has the
references of its holders and that what a request borrowed is in an entry it
holds; `Holdings` that a page has the prefix it stands for; `Snapshots` the same
of buffers and host copies. None of the properties is inductive alone: that a
borrowed page keeps its prefix needs exact references, they need the names of
entries to be unique, and that only unused entries are evicted needs both. One
operation of the code is a sequence of evictions, drops, copies and updates, so
the parts are operators of a pool, a set of entries, requests and contents, and
each small step keeps all of them; the loops are recursive functions, and what
they do is shown for runs of any length. `ExhaustionHonest` rests on what the
evicting loop leaves behind when it gives up. The assumption
`Cardinality(Buffers) > 2 * Cardinality(Requests)` says that a new device buffer
can always be had: an entry and a request use one each.

Sums and lists without repetition need induction over data. Where a fact is about
a set of naturals it is derived from the least-element principle (`NatLessThanWellFounded`
and `WFMin` of the library), which needs no operator parameter: so the lemmas on
`RemoveFirst`, on sums over finite sets and on greatest covered units.

Only model-checked: the liveness properties `EventuallyReclaimed`, `Replenished`,
`EventuallyReusable`, `EventuallySealed`, `EveryCallEnds`, `EveryRequestEnds`,
`SchedulerReturns` and `EveryQueuedEnds` (fairness is beyond the prover);
`ResumeIntact`, `SealedIntact`, `BuilderAligned` with torn bitmaps and several inputs
are outside the theorems' hypotheses because the code does not keep them there; and, among
the properties outside the runs, those listed as checked only. Every other
safety or action property of a passing run is a theorem.

## Plan

1. Collector and store: partial tails and multi-block appends (`extend`,
   accepted prefixes), checkpoints as leases that a rewind invalidates;
   an abstract specification of the store (a history with holes: append,
   forget, rewind) implemented by `KvMemRepositoryGc`.
2. Proofs: `ArrivalOrder`, which needs the order of three lists in the
   invariant; the refinement of the abstract store once it is stated.

## Not modelled

* Kernels, executors' numerics, loaders, tokenizer, vision, adapters and the
  HTTP server make up most of the repository's lines. Their difficulty is
  numeric, or in formats and devices; a TLA+ model would assume the very thing
  that could be wrong. What is concurrent or must survive a crash in the
  native backend and the executor is in the modules above. The share of the
  repository's lines that the map covers is therefore small.
* Selection and keep allocation, prefix-reuse policy and request planning:
  sequential decisions, largely on floating-point scores, with unit tests. The
  models admit every ranking.
* `PinnedKvTier`, `HostIoBufferPool`, the local and shared page pools, message
  and token caches, the cancellation registry: bookkeeping under one lock or on
  one thread; models would repeat the code. The prefix cache, the global pool
  and the NVMe allocator, whose objects several parties share, are modelled.
* Inside modelled parts: score arithmetic, statistics, wake-up timing and
  `stop` of the collectors; eviction inside `place_block`, direct I/O and span
  coalescing of the NVMe tier; byte formats and the read-only attach of
  archives; batched prefill of several rows; the draft model's pages and device
  errors of snapshot copies in the prefix cache.
