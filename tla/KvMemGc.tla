------------------------------ MODULE KvMemGc ------------------------------
(***************************************************************************)
(* KvMemGc (src/kvmem_gc.cpp): the collector of the unbounded history.     *)
(* The executor thread registers blocks, moves them between the GPU and    *)
(* the two NVMe tiers, reads the retirement directory and leases blocks;   *)
(* a worker thread ticks: it finishes earlier retirements, scans, ranks,   *)
(* retires and publishes a new immutable directory (a view).  The two      *)
(* share only atomics, so every read the worker acts on can be stale.      *)
(*                                                                         *)
(* Data abstraction.  The eleven flags are reduced to what protected_now   *)
(* tells apart: "none" (0), "busy" (Registered, and some hard protection   *)
(* is set or some backing is missing) and "cold" (Registered, Sealed, both *)
(* backings, no protection).  The score of a block is reduced to its level *)
(* (the use frequency is taken with recency; doubles only break ties).  A  *)
(* tier stores, per block, the generation its allocation was made for.     *)
(***************************************************************************)
EXTENDS Integers, Sequences, FiniteSets, Functions

CONSTANTS
  Capacity,       \* number of logical block IDs
  Store, Batches, \* who can hold a view: the store (gc_view_) and the I/O batches
  Leases, Working,  \* lease objects (window, checkpoint, ...) and the one set_active got
  MaxGen, MaxSteps, MaxEvents,   \* bounds of the counters
  MaxWork,        \* bound of uses, events and steps together, with and without shadow mode
  MaxLive, Recent, Grace, HalfLife, CandidateSteps, ScanBlocks, BatchBlocks,
  Scores,         \* the score events a request may submit
  Shadow          \* the values config_.shadow may have

Ids == 0 .. Capacity - 1
Holders == {Store} \cup Batches
Tiers == {"raw", "values"}
ASSUME GcConfig == /\ Capacity \in Nat \ {0}
                   /\ Working \in Leases /\ IsFiniteSet(Leases)
                   /\ MaxLive \in Nat \ {0} /\ ScanBlocks \in Nat \ {0}
                   /\ BatchBlocks \in Nat \ {0} /\ Shadow \subseteq BOOLEAN
                   /\ Scores \subseteq [Ids -> {"low", "mid", "high"}]

VARIABLES
  gen, flags, touches, lastUse,  \* Shared::entries, per block
  count, step,                   \* count_, Shared::step
  store,                         \* per tier and block: generation stored, 0 = no slot
  lease,                         \* pinned IDs per lease
  fg,                            \* the executor inside register_block or a Lease constructor
  hold,                          \* view each holder keeps
  mail, events,                  \* scores_ mailbox, events submitted so far
  view, oldViews,                \* view_, epochs in old_views_
  hist, dead, live, dirty,       \* history_, dead_, live_count_, dirty_view_
  retired, item, left,           \* retired_, the item in hand, loop budget of the tick
  shadow,                        \* config_.shadow, which never changes
  cursor, limit, ready,          \* cursor_, scan_limit_, ready_
  activeStep, wpc                \* active_step_, position of the worker in tick()

entries == <<gen, flags, lastUse>>
request == <<count, step, lease, fg, hold, events>>
directory == <<view, oldViews, dead, dirty>>
history == <<hist, live>>
queue == <<retired, item, left>>
sweep == <<shadow, cursor, limit, ready>>
worker == <<directory, history, queue, sweep, activeStep, wpc>>
vars == <<entries, request, touches, store, mail, worker>>

NoView == [epoch |-> -1, dead |-> [i \in Ids |-> 0]]
NoItem == [id |-> -1]
NoMail == [step |-> -1]
Idle == [op |-> "idle", id |-> -1]
NewHistory(g, reg) ==
  [gen |-> g, counted |-> reg, dead |-> FALSE, shadow |-> FALSE, cstep |-> 0,
   ctouch |-> 0, clevel |-> 0, low |-> 0, high |-> 0]
Min2(a, b) == IF a < b THEN a ELSE b
Max2(a, b) == IF a > b THEN a ELSE b

----------------------------------------------------------------------------
(* What both threads compute from the shared entries.                      *)

Pins(id) == Cardinality({l \in Leases : id \in lease[l]})

\* is_live: a tombstone of this generation hides the block unless a lease holds it.
IsLive(id, v) == \/ v.dead[id] = 0
                 \/ v.dead[id] # gen[id]
                 \/ Pins(id) # 0

\* protected_now, with indexed_ at its maximum.
ProtectedNow(id) == \/ flags[id] # "cold"
                    \/ Pins(id) # 0
                    \/ id >= count - Min2(count, Recent)

\* kvmem_gc_score and decision: recent or hot 3, consistently low 1, other 2.  Ages are
\* counted from the step this tick started with (tick's now), which active_step_ keeps.
Level(id) ==
  LET Fresh(s) == s # 0 /\ activeStep - s <= HalfLife IN
  IF activeStep - lastUse[id] < Grace \/ Fresh(hist[id].high) THEN 3
  ELSE IF Fresh(hist[id].low) THEN 1 ELSE 2

\* readers_before.
ReadersBefore(e) == \E v \in oldViews : v <= e /\ \E h \in Holders : hold[h].epoch = v

----------------------------------------------------------------------------
Init ==
  /\ gen = [i \in Ids |-> 0] /\ flags = [i \in Ids |-> "none"]
  /\ touches = [i \in Ids |-> 0] /\ lastUse = [i \in Ids |-> 0]
  /\ count = 0 /\ step = 0
  /\ store = [t \in Tiers |-> [i \in Ids |-> 0]]
  /\ lease = [l \in Leases |-> {}] /\ fg = Idle
  /\ hold = [h \in Holders |-> NoView] /\ mail = NoMail /\ events = 0
  /\ view = [epoch |-> 0, dead |-> [i \in Ids |-> 0]] /\ oldViews = {}
  /\ hist = [i \in Ids |-> NewHistory(0, FALSE)]
  /\ dead = [i \in Ids |-> 0] /\ live = 0 /\ dirty = FALSE
  /\ retired = <<>> /\ item = NoItem /\ left = 0
  /\ shadow \in Shadow
  /\ cursor = 0 /\ limit = 0 /\ ready = {} /\ activeStep = 0 /\ wpc = "idle"

----------------------------------------------------------------------------
(* The executor thread.                                                    *)

Touch(ids) == touches' = [i \in Ids |-> touches[i] + IF i \in ids THEN 1 ELSE 0]
Work == SumFunction(touches) + events + step
Room == Work < MaxWork[shadow]   \* bound of the model

\* register_block, first half: flags cleared, then the new generation.
RegisterBegin ==
  /\ fg = Idle /\ count < Capacity /\ gen[count] < MaxGen /\ Room
  /\ gen' = [gen EXCEPT ![count] = @ + 1]
  /\ flags' = [flags EXCEPT ![count] = "none"]
  /\ fg' = [op |-> "register", id |-> count]
  /\ UNCHANGED <<lastUse, count, step, lease, hold, events, touches, store, mail, worker>>

\* register_block, second half: birth and use, touches, flags (on the GPU), count.
RegisterEnd ==
  /\ fg.op = "register"
  /\ lastUse' = [lastUse EXCEPT ![fg.id] = step]
  /\ Touch({fg.id})
  /\ flags' = [flags EXCEPT ![fg.id] = "busy"]
  /\ count' = fg.id + 1
  /\ fg' = Idle
  /\ UNCHANGED <<gen, step, lease, hold, events, store, mail, worker>>

\* Stage-out: both tiers hold the block, then update_flags clears Gpu (and used()).
StageOut(id) ==
  /\ fg = Idle /\ id < count /\ flags[id] = "busy" /\ Room
  /\ store' = [t \in Tiers |-> [store[t] EXCEPT ![id] = gen[id]]]
  /\ lastUse' = [lastUse EXCEPT ![id] = step]
  /\ flags' = [flags EXCEPT ![id] = "cold"]
  /\ Touch({id})
  /\ UNCHANGED <<request, gen, mail, worker>>

\* Stage-in of a selected block: Gpu is set again.
StageIn(id) ==
  /\ fg = Idle /\ id < count /\ flags[id] = "cold" /\ id \in lease[Working] /\ Room
  /\ flags' = [flags EXCEPT ![id] = "busy"]
  /\ Touch({id})
  /\ UNCHANGED <<request, gen, lastUse, store, mail, worker>>

\* truncate_to: forget_tail, and the foreground releases the dropped allocations.
ForgetTail(first) ==
  /\ fg = Idle /\ first < count /\ gen[first] < MaxGen
  /\ flags' = [i \in Ids |-> IF i >= first THEN "none" ELSE flags[i]]
  /\ count' = first
  /\ store' = [t \in Tiers |-> [i \in Ids |-> IF i >= first THEN 0 ELSE store[t][i]]]
  /\ UNCHANGED <<gen, lastUse, step, lease, fg, hold, events, touches, mail, worker>>

\* gc_begin_step: a request starts with the current directory.
BeginStep ==
  /\ fg = Idle /\ step < MaxSteps /\ Room
  /\ step' = step + 1
  /\ hold' = [hold EXCEPT ![Store] = view]
  /\ UNCHANGED <<entries, count, lease, fg, events, touches, store, mail, worker>>

\* An I/O batch or a prefetch keeps the store's view; anybody drops theirs.
ShareView(b) ==
  /\ fg = Idle /\ hold[Store] # NoView /\ hold[b] = NoView
  /\ hold' = [hold EXCEPT ![b] = hold[Store]]
  /\ UNCHANGED <<entries, count, step, lease, fg, events, touches, store, mail, worker>>

DropView(h) ==
  /\ fg = Idle /\ hold[h] # NoView
  /\ hold' = [hold EXCEPT ![h] = NoView]
  /\ UNCHANGED <<entries, count, step, lease, fg, events, touches, store, mail, worker>>

\* Lease::Lease, first loop body half: the pin.  IDs come from a held view.
PinBegin(l, id) ==
  /\ fg = Idle /\ lease[l] = {} /\ id < count /\ Room
  /\ hold[Store] # NoView /\ IsLive(id, hold[Store])
  /\ lease' = [lease EXCEPT ![l] = {id}]
  /\ fg' = [op |-> "pin", id |-> id]
  /\ UNCHANGED <<entries, count, step, hold, events, touches, store, mail, worker>>

\* second half: last_use, then touches.
PinEnd ==
  /\ fg.op = "pin"
  /\ lastUse' = [lastUse EXCEPT ![fg.id] = step]
  /\ Touch({fg.id}) /\ fg' = Idle
  /\ UNCHANGED <<gen, flags, count, step, lease, hold, events, store, mail, worker>>

\* Lease::~Lease.
Unpin(l) ==
  /\ fg = Idle /\ lease[l] # {}
  /\ lease' = [lease EXCEPT ![l] = {}]
  /\ UNCHANGED <<entries, count, step, fg, hold, events, touches, store, mail, worker>>

\* submit_scores: the event replaces one the worker has not taken.
SubmitScores(kind) ==
  /\ fg = Idle /\ events < MaxEvents /\ hold[Store] # NoView /\ Room
  /\ mail' = [step |-> step,
              gens |-> gen,
              kinds |-> [i \in Ids |-> IF i < count /\ IsLive(i, hold[Store])
                                       THEN kind[i] ELSE "none"]]
  /\ events' = events + 1
  /\ UNCHANGED <<entries, count, step, lease, fg, hold, touches, store, worker>>

----------------------------------------------------------------------------
(* The worker thread: tick().                                              *)

\* refresh_history: a new lineage (or none) starts a new history.
Stale(id) == flags[id] = "none" \/ gen[id] # hist[id].gen
Reused(id) == hist[id].shadow /\ touches[id] # hist[id].ctouch
Refreshed(id) ==
  IF Stale(id) THEN NewHistory(gen[id], flags[id] # "none")
  ELSE IF Reused(id) THEN [hist[id] EXCEPT !.shadow = FALSE, !.cstep = 0]
  ELSE hist[id]
\* Mutant: a nominated block that was used again is not counted again.
RefreshedLive_NoReuse(S) ==
  LET lost == {i \in S : Stale(i) /\ hist[i].counted /\ ~hist[i].dead /\ ~hist[i].shadow}
      gained == {i \in S : Stale(i) /\ flags[i] # "none"}
  IN  Max2(0, live - Cardinality(lost)) + Cardinality(gained)
\* live_count_ after the histories of the blocks in S were refreshed.
RefreshedLive(S) ==
  LET lost == {i \in S : Stale(i) /\ hist[i].counted /\ ~hist[i].dead /\ ~hist[i].shadow}
      gained == {i \in S : IF Stale(i) THEN flags[i] # "none" ELSE Reused(i)}
  IN  Max2(0, live - Cardinality(lost)) + Cardinality(gained)
\* Mutant: a rewind leaves the old lineage's tombstone in dead_.
RefreshedDead_Kept(S) == dead
RefreshedDead(S) == [i \in Ids |-> IF i \in S /\ Stale(i) THEN 0 ELSE dead[i]]

\* score_event on one eligible block: low evidence, high evidence, or neither.
Scored(h, kind, s) == CASE kind = "low"  -> [h EXCEPT !.low = s]
                        [] kind = "high" -> [h EXCEPT !.low = 0, !.high = s]
                        [] kind = "mid"  -> [h EXCEPT !.low = 0]

\* Start of a tick: the working window counts as used once per step, delivered
\* scores are observed first, and views nobody holds leave old_views_.
TickStart ==
  /\ wpc = "idle"
  /\ LET used == IF activeStep # step THEN lease[Working] ELSE {} IN
     /\ Touch(used)
     /\ lastUse' = [i \in Ids |-> IF i \in used THEN Max2(lastUse[i], step) ELSE lastUse[i]]
  /\ activeStep' = step
  /\ LET scored == IF mail = NoMail THEN {}
                   ELSE {i \in Ids : mail.kinds[i] # "none" /\ mail.gens[i] = gen[i]}
     IN /\ hist' = [i \in Ids |-> IF i \in scored
                      THEN Scored(Refreshed(i), mail.kinds[i], mail.step) ELSE hist[i]]
        /\ live' = RefreshedLive(scored)
        /\ dead' = RefreshedDead(scored)
        /\ dirty' = (dirty \/ dead' # dead)
  /\ mail' = NoMail
  /\ oldViews' = {v \in oldViews : \E h \in Holders : hold[h].epoch = v}
  /\ left' = Min2(Len(retired), ScanBlocks)
  /\ wpc' = "check"
  /\ UNCHANGED <<request, sweep, gen, flags, view, retired, item, store>>

\* The retirement no longer holds: protected, touched since, or at another level.
Disturbed(it) == \/ ProtectedNow(it.id)
                 \/ touches[it.id] # it.touches
                 \/ Level(it.id) # it.level
CancelledLive == live + 1

\* The first look at a retired item: dropped for a new lineage, cancelled when it is
\* protected, was touched or changed level, otherwise kept in hand.
CheckItem ==
  /\ wpc = "check" /\ left > 0
  /\ LET it == Head(retired) IN
     /\ left' = left - 1
     /\ retired' = Tail(retired)
     /\ \/ /\ gen[it.id] # it.gen
           /\ UNCHANGED <<item, hist, dead, live, dirty, wpc>>
        \/ /\ gen[it.id] = it.gen
           /\ Disturbed(it)
           /\ dead' = [dead EXCEPT ![it.id] = 0]
           /\ hist' = [hist EXCEPT ![it.id].dead = FALSE, ![it.id].cstep = 0]
           /\ live' = CancelledLive /\ dirty' = TRUE
           /\ UNCHANGED <<item, wpc>>
        \/ /\ gen[it.id] = it.gen /\ ~Disturbed(it)
           /\ item' = it /\ wpc' = "readers"
           /\ UNCHANGED <<hist, dead, live, dirty>>
  /\ UNCHANGED <<entries, request, sweep, view, oldViews, touches, store, mail, activeStep>>

Requeue == retired' = Append(retired, item) /\ item' = NoItem /\ wpc' = "check"

\* readers_before: somebody still reads a directory that shows the block.
CheckReaders ==
  /\ wpc = "readers"
  /\ IF ReadersBefore(item.epoch) THEN Requeue
     ELSE wpc' = "recheck" /\ UNCHANGED <<retired, item>>
  /\ UNCHANGED <<entries, request, directory, history, sweep, left, touches, store, mail,
                 activeStep>>

\* Mutant: no second look.
LateUse_Ignored == FALSE
\* Used, or scored, between the first look and the end of the last old reader.
LateUse == ProtectedNow(item.id) \/ touches[item.id] # item.touches \/ mail # NoMail

\* The second look, after quiescence.
Recheck ==
  /\ wpc = "recheck"
  /\ IF LateUse THEN Requeue
     ELSE wpc' = "release" /\ UNCHANGED <<retired, item>>
  /\ UNCHANGED <<entries, request, directory, history, sweep, left, touches, store, mail,
                 activeStep>>

\* Mutant: whatever the block has now is freed.
FreeExact_ById(t, id, g) == 0
\* try_release_allocation on one tier: the allocation captured when the block was
\* retired, and no other, goes back to the free list.
FreeExact(t, id, g) == IF store[t][id] = g THEN 0 ELSE store[t][id]

\* The release callback: one independent try-lock per tier, so any of them may be found
\* busy; the tiers that are done are remembered, the others retried by a later tick.
Release(busy) ==
  /\ wpc = "release"
  /\ LET now == Tiers \ (item.done \cup busy)
         all == item.done \cup now
     IN /\ store' = [t \in Tiers |-> IF t \in now
                       THEN [store[t] EXCEPT ![item.id] = FreeExact(t, item.id, item.alloc[t])]
                       ELSE store[t]]
        /\ IF all = Tiers THEN retired' = retired
           ELSE retired' = Append(retired, [item EXCEPT !.done = all])
  /\ item' = NoItem /\ wpc' = "check"
  /\ UNCHANGED <<entries, request, directory, history, sweep, left, touches, mail,
                 activeStep>>

ScanQuota(end) == Min2(ScanBlocks, end - cursor)

\* Between the two loops: a sweep that starts over covers every registered block.
ScanStart ==
  /\ wpc = "check" /\ left = 0
  /\ limit' = IF cursor = 0 THEN Max2(limit, count) ELSE limit
  /\ left' = ScanQuota(limit')
  /\ wpc' = "scan"
  /\ UNCHANGED <<entries, request, directory, history, retired, item, shadow, cursor,
                 ready, touches, store, mail, activeStep>>

\* The scan's verdict on a block whose history is h, given the live count n.
Observed(id, h, n) ==
  LET lv == Level(id) IN
  IF h.dead \/ h.shadow \/ ProtectedNow(id)
    THEN IF h.shadow THEN h ELSE [h EXCEPT !.cstep = 0]
  ELSE IF lv >= 3 \/ n <= MaxLive THEN [h EXCEPT !.cstep = 0]
  ELSE IF h.cstep = 0 \/ h.ctouch # touches[id] \/ h.clevel # lv
    THEN [h EXCEPT !.cstep = activeStep, !.ctouch = touches[id], !.clevel = lv]
  ELSE h

\* One block of the scan: refresh, then start, keep, drop or mature its candidacy.
ScanBlock ==
  /\ wpc = "scan" /\ left > 0
  /\ LET id == cursor
         h == Refreshed(id)
         n == RefreshedLive({id})
         h2 == IF flags[id] = "none" THEN h ELSE Observed(id, h, n)
     IN /\ hist' = [hist EXCEPT ![id] = h2]
        /\ live' = n
        /\ dead' = RefreshedDead({id})
        /\ dirty' = (dirty \/ dead' # dead)
        /\ ready' = IF /\ flags[id] # "none" /\ h2 = h /\ h.cstep # 0
                       /\ ~h.dead /\ ~h.shadow /\ activeStep - h.cstep >= CandidateSteps
                    THEN ready \cup {id} ELSE ready
  /\ cursor' = cursor + 1 /\ left' = left - 1
  /\ UNCHANGED <<entries, request, view, oldViews, retired, item, shadow, limit,
                 touches, store, mail, activeStep, wpc>>

\* publish: the prior directory becomes an old one that readers may still hold.
Publish(d) ==
  /\ view' = [epoch |-> view.epoch + 1, dead |-> d]
  /\ oldViews' = oldViews \cup {view.epoch}
  /\ dirty' = FALSE

EndTick == /\ wpc' = "idle"
           /\ IF dirty THEN Publish(dead) ELSE UNCHANGED <<view, oldViews, dirty>>

\* End of this tick's scan: an unfinished sweep ends the tick, a finished one is ranked.
ScanEnd ==
  /\ wpc = "scan" /\ left = 0
  /\ \/ /\ cursor # limit /\ EndTick
        /\ UNCHANGED <<cursor, limit, left>>
     \/ /\ cursor = limit
        /\ cursor' = 0 /\ limit' = count /\ left' = BatchBlocks
        /\ wpc' = "pick"
        /\ UNCHANGED <<view, oldViews, dirty>>
  /\ UNCHANGED <<entries, request, history, dead, retired, item, shadow, ready, touches,
                 store, mail, activeStep>>

\* Everything the retirement decision rests on, read again at the last moment.
StillCandidate(id) ==
  LET h == hist[id] IN
  /\ gen[id] = h.gen /\ ~h.dead /\ ~h.shadow /\ h.cstep # 0
  /\ activeStep - h.cstep >= CandidateSteps /\ ~ProtectedNow(id)
  /\ Level(id) = h.clevel /\ h.clevel < 3 /\ touches[id] = h.ctouch

Pressure == live > MaxLive

\* One ranked candidate, lowest level first: skipped, nominated (shadow) or retired.
Pick(id) ==
  /\ wpc = "pick" /\ left > 0 /\ Pressure
  /\ id \in ready /\ \A j \in ready : Level(id) <= Level(j)
  /\ ready' = ready \ {id}
  /\ \/ /\ ~StillCandidate(id) \/ (~shadow /\ \E t \in Tiers : store[t][id] = 0)
        /\ UNCHANGED <<hist, live, left, retired, dead, dirty>>
     \/ /\ StillCandidate(id) /\ shadow
        /\ hist' = [hist EXCEPT ![id].shadow = TRUE]
        /\ live' = live - 1 /\ left' = left - 1
        /\ UNCHANGED <<retired, dead, dirty>>
     \/ /\ StillCandidate(id) /\ ~shadow /\ \A t \in Tiers : store[t][id] # 0
        /\ retired' = Append(retired,
             [id |-> id, gen |-> hist[id].gen, epoch |-> view.epoch, touches |-> hist[id].ctouch,
              level |-> hist[id].clevel, done |-> {}, alloc |-> [t \in Tiers |-> store[t][id]]])
        /\ hist' = [hist EXCEPT ![id].dead = TRUE]
        /\ dead' = [dead EXCEPT ![id] = hist[id].gen]
        /\ live' = live - 1 /\ left' = left - 1 /\ dirty' = TRUE
  /\ UNCHANGED <<entries, request, view, oldViews, item, shadow, cursor, limit, touches,
                 store, mail, activeStep, wpc>>

PickEnd ==
  /\ wpc = "pick" /\ (left = 0 \/ ~Pressure \/ ready = {})
  /\ ready' = {} /\ EndTick
  /\ UNCHANGED <<entries, request, history, queue, dead, shadow, cursor, limit, touches,
                 store, mail, activeStep>>

----------------------------------------------------------------------------
Foreground ==
  \/ RegisterBegin \/ RegisterEnd \/ PinEnd
  \/ \E id \in Ids : StageOut(id) \/ StageIn(id) \/ ForgetTail(id)
  \/ BeginStep \/ (\E h \in Holders : DropView(h)) \/ (\E b \in Batches : ShareView(b))
  \/ \E l \in Leases : Unpin(l) \/ \E id \in Ids : PinBegin(l, id)
  \/ \E kind \in Scores : SubmitScores(kind)

Worker ==
  \/ TickStart \/ CheckItem \/ CheckReaders \/ Recheck
  \/ \E busy \in SUBSET Tiers : Release(busy)
  \/ ScanStart \/ ScanBlock \/ ScanEnd \/ (\E id \in Ids : Pick(id)) \/ PickEnd

Next == Foreground \/ Worker
Spec == Init /\ [][Next]_vars

\* The worker thread keeps ticking; the lock of a tier is released in the end, so some
\* later attempt finds that tier free, whatever it finds of the other; a request or an I/O
\* batch that holds a view ends, and so does the executor's own call.
Fairness == /\ WF_vars(Worker)
            /\ \A t \in Tiers : SF_vars(\E busy \in SUBSET (Tiers \ {t}) : Release(busy))
            /\ \A h \in Holders : WF_vars(DropView(h))
            /\ WF_vars(RegisterEnd \/ PinEnd)
FairSpec == Spec /\ Fairness

----------------------------------------------------------------------------
(* Properties.                                                             *)

HistoryType == [gen : 0 .. MaxGen, counted : BOOLEAN, dead : BOOLEAN, shadow : BOOLEAN,
                cstep : 0 .. MaxSteps, ctouch : Nat, clevel : 0 .. 3,
                low : 0 .. MaxSteps, high : 0 .. MaxSteps]

\* Every variable has its type.
TypeOK ==
  /\ gen \in [Ids -> 0 .. MaxGen] /\ flags \in [Ids -> {"none", "busy", "cold"}]
  /\ touches \in [Ids -> Nat] /\ lastUse \in [Ids -> 0 .. MaxSteps]
  /\ count \in 0 .. Capacity /\ step \in 0 .. MaxSteps
  /\ store \in [Tiers -> [Ids -> 0 .. MaxGen]]
  /\ lease \in [Leases -> SUBSET Ids] /\ fg.op \in {"idle", "register", "pin"}
  /\ \A h \in Holders : hold[h].epoch \in -1 .. view.epoch
  /\ hist \in [Ids -> HistoryType] /\ dead \in [Ids -> 0 .. MaxGen]
  /\ live \in Nat /\ left \in Nat /\ cursor \in 0 .. limit /\ limit \in 0 .. Capacity
  /\ oldViews \subseteq 0 .. view.epoch /\ ready \subseteq Ids
  /\ wpc \in {"idle", "check", "readers", "recheck", "release", "scan", "pick"}

\* What a thread may use of block id: it holds a lease on it, or a view that shows it.
Reachable(id) == \/ \E l \in Leases : id \in lease[l]
                 \/ \E h \in Holders : hold[h] # NoView /\ IsLive(id, hold[h])

\* What was reclaimed is out of reach, whichever allocators each release attempt finds
\* busy: a registered block off the GPU that a lease or a held directory reaches has the
\* allocation of its generation in both tiers ("Reclaim only after every earlier directory
\* reader and resource lease is gone", tick()).  The code makes one exception, which is
\* therefore part of the statement: tick() may cancel a retirement that has released one
\* tier and found the other busy.  That block comes back without the released tier; no
\* block comes back without both, and none while its retirement stands.
ReclaimedIsHidden ==
  \A id \in Ids : (id < count /\ flags[id] = "cold" /\ Reachable(id))
                  => \/ \A t \in Tiers : store[t][id] = gen[id]
                     \/ dead[id] # gen[id] /\ \E t \in Tiers : store[t][id] = gen[id]

\* A cancelled retirement gives the block back whole (docs/kvmem_background_gc_design.md:191,
\* not yet free and no payload to rebuild).  Refuted where one tier alone is found busy.
CancelledIsWhole ==
  [][\A id \in Ids : (wpc = "check" /\ id < count /\ dead[id] = gen[id] /\ dead'[id] = 0)
                     => \A t \in Tiers : store[t][id] = gen[id]]_vars

\* A release callback frees the allocations of the lineage it was prepared for: one
\* delayed past a rewind never frees what the next lineage wrote under the same ID.
ExactRelease ==
  [][\A t \in Tiers, id \in Ids :
       (wpc = "release" /\ wpc' = "check" /\ store'[t][id] # store[t][id])
         => store[t][id] = item.gen]_vars

\* Some block has been dropped by a rewind (and perhaps registered again).
Rewound == \E i \in Ids : gen[i] > 1 \/ (gen[i] = 1 /\ i >= count /\ fg.id # i)

\* live_count_ is the number of registered blocks that are neither retired nor
\* nominated, so pressure is measured on what is really there, whatever retires,
\* nominates, rescues and reuses blocks.  (A rewind leaves the count of dropped blocks
\* behind until a sweep passes over them.)
LiveCountExact ==
  ~Rewound => live = Cardinality({i \in Ids : hist[i].counted /\ ~hist[i].dead /\ ~hist[i].shadow})

\* A tombstone in the published directory belongs to an item on its way out or to a
\* block already reclaimed: no published directory hides a block that was rescued and
\* whose cancellation has been published too.
TombstoneJustified ==
  (wpc = "idle" /\ ~dirty) =>
    \A id \in Ids : view.dead[id] = dead[id] /\ (dead[id] # 0 => dead[id] = hist[id].gen /\ hist[id].dead)

\* Until a rewind, a block is retired only while more blocks are live than the target
\* allows (tick's live_count_ > max_live_blocks).
RetireUnderPressure ==
  [][~Rewound /\ wpc = "pick" /\ Len(retired') > Len(retired)
       => Cardinality({i \in Ids : flags[i] # "none" /\ dead[i] # gen[i]}) > MaxLive]_vars

\* Every retirement is settled: the item is reclaimed, rescued or overtaken by a rewind.
RetirementSettles ==
  \A id \in Ids :
    LET Pending == item.id = id \/ \E k \in DOMAIN retired : retired[k].id = id
    IN  Pending ~> ~Pending
============================================================================
