---------------------------- MODULE PrefixCache -----------------------------
(***************************************************************************)
(* The prefix cache of the continuous batch (qwen_native_backend.cpp)      *)
(* over the physical KV pages of global_kv_page_pool.hpp and the snapshots *)
(* of prefix_state_storage.hpp.  A request that has prefilled its prompt   *)
(* up to a page boundary commits that prefix: its pages are pinned, its    *)
(* recurrent state is captured.  A later request adopts the pages of the   *)
(* longest cached prefix and starts from the captured state.  Idle entries *)
(* are evicted for budgets or when the pool runs dry; idle snapshots move  *)
(* to host memory and their device buffer is recycled.                     *)
(*                                                                         *)
(* A prompt is a sequence of whole pages; what a page or a snapshot holds  *)
(* is the prefix it was computed from.  All operations run on the batch    *)
(* worker, one at a time.  The draft model's second pool, which is handled *)
(* in step with this one, and device errors of snapshot copies are left    *)
(* out.                                                                    *)
(***************************************************************************)
EXTENDS Naturals, Sequences, FiniteSets, SequencesExt, FiniteSetsExt

CONSTANTS Requests, Prompt,    \* Prompt[r]: the pages of the prompt of request r
          Pages, Buffers,      \* physical KV pages; device buffers for snapshots
          Rows,                \* requests served at once
          PageBudget, EntryBudget,   \* QW3_PREFIX_CACHE_MAX_*; 0 is unlimited
          GpuEntries,          \* snapshots kept on the device; 0 turns host storage off
          Guard,               \* pages left out at the end of a committed prefix
          None

ASSUME CacheConfig ==
  /\ IsFiniteSet(Requests) /\ IsFiniteSet(Pages) /\ IsFiniteSet(Buffers) /\ None \notin Buffers
  /\ \A r \in Requests : Prompt[r] \in Seq(ToSet(Prompt[r])) /\ Prompt[r] # <<>>
  /\ {PageBudget, EntryBudget, GpuEntries, Guard, Rows} \subseteq Nat
  /\ Cardinality(Buffers) > 2 * Cardinality(Requests)

VARIABLES pool,      \* free: stack of pages; allocated; pins per page
          cache,     \* the entries, least recently used first
          recycled,  \* prefix_recycled_snapshot_
          holds,     \* what a page holds
          state,     \* what a device buffer holds
          req        \* status, page table, how much of it is borrowed, lease, snapshot
vars == <<pool, cache, recycled, holds, state, req>>

HostPool == GpuEntries > 0 /\ GpuEntries < EntryBudget
Prefix(r, n) == SubSeq(Prompt[r], 1, n)
New == [status |-> "new", table |-> <<>>, borrowed |-> 0, lease |-> {}, snapshot |-> None,
        hit |-> 0, restored |-> <<>>]

Init ==
  /\ pool = [free |-> SetToSeq(Pages), allocated |-> {}, pins |-> [p \in Pages |-> 0]]
  /\ cache = <<>> /\ recycled = None
  /\ holds = [p \in Pages |-> <<>>] /\ state = [b \in Buffers |-> <<>>]
  /\ req = [r \in Requests |-> New]

-----------------------------------------------------------------------------
(* The page pool. *)

\* Only an allocated page that no entry pins goes back on the stack.
Returnable(P, p) == P.pins[p] = 0 /\ p \in P.allocated

ReturnPage(P, p) ==
  IF Returnable(P, p) THEN [P EXCEPT !.free = Append(@, p), !.allocated = @ \ {p}] ELSE P

release_physical_pages(P, pages) ==
  LET after[k \in 0 .. Len(pages)] == IF k = 0 THEN P ELSE ReturnPage(after[k - 1], pages[k])
  IN  after[Len(pages)]

pin_pages(P, pages) ==
  [P EXCEPT !.pins = [p \in Pages |-> IF p \in ToSet(pages) THEN @[p] + 1 ELSE @[p]]]
unpin_pages(P, pages) ==
  [P EXCEPT !.pins = [p \in Pages |-> IF p \in ToSet(pages) /\ @[p] > 0 THEN @[p] - 1 ELSE @[p]]]

-----------------------------------------------------------------------------
(* Eviction.  C is a record of the pool and the entries. *)

Evictable(e) == e.refs = 0

\* The least recently used idle entry loses its pins, and its pages their allocation
\* unless another entry pins them.
EvictOne(C) ==
  LET i == SelectInSeq(C.cache, Evictable) IN
  IF i = 0 THEN C
  ELSE [cache |-> RemoveAt(C.cache, i),
        pool |-> release_physical_pages(unpin_pages(C.pool, C.cache[i].pages),
                                        C.cache[i].pages)]

prefix_cache_evict_lru(C, n) ==
  LET after[k \in 0 .. n] == IF k = 0 THEN C ELSE EvictOne(after[k - 1]) IN after[n]

Idle(C) == Cardinality({i \in DOMAIN C.cache : Evictable(C.cache[i])})

\* Mutant: an eviction that freed no page ends the search.
Evictions_Pages(C) ==
  IF C.pool.free # <<>> \/ prefix_cache_evict_lru(C, 1).pool.free = <<>> THEN 0 ELSE 1
\* allocate_physical_page evicts one entry after the other until a page is free or
\* nothing is left to evict: an entry may share all its pages with a longer one.
Evictions(C) ==
  Min({n \in 0 .. Idle(C) : prefix_cache_evict_lru(C, n).pool.free # <<>>} \cup {Idle(C)})

WithinBudget(C) ==
  /\ PageBudget = 0 \/ Cardinality({p \in Pages : C.pool.pins[p] > 0}) <= PageBudget
  /\ EntryBudget = 0 \/ Len(C.cache) <= EntryBudget

WithinBudgets(C) ==
  prefix_cache_evict_lru(C, Min({n \in 0 .. Idle(C) : WithinBudget(prefix_cache_evict_lru(C, n))}
                                \cup {Idle(C)}))

-----------------------------------------------------------------------------
(* Snapshots on the device and in host memory. *)

\* use_count() of an entry's device snapshot is not one.
Borrowed(b, R) == \E r \in Requests : R[r].snapshot = b

Stageable(e, R) == e.gpu # None /\ ~e.copying /\ e.refs = 0 /\ ~Borrowed(e.gpu, R)

\* Beyond the hot budget the oldest idle snapshots start their copy to the host.
prefix_cache_stage_cold(entries, R) ==
  LET resident == {i \in DOMAIN entries : entries[i].gpu # None /\ ~entries[i].copying}
      idle == {i \in resident : Stageable(entries[i], R)}
      staged == {i \in idle : /\ HostPool
                              /\ Cardinality(resident) - Cardinality({j \in idle : j < i})
                                 > GpuEntries}
  IN  [i \in DOMAIN entries |-> IF i \in staged THEN [entries[i] EXCEPT !.copying = TRUE]
                                ELSE entries[i]]

\* Mutant: a snapshot that a request borrowed is recycled.
Reapable_Borrowed(e, R) == e.refs = 0 /\ e.copying
Reapable(e, R) == e.refs = 0 /\ e.copying /\ ~Borrowed(e.gpu, R)

\* finish_offload: the host copy is complete and the device buffer is given up.
Offloaded(e) == [e EXCEPT !.host = IF @ = None THEN state[e.gpu] ELSE @,
                          !.gpu = None, !.copying = FALSE]
prefix_cache_reap_host_copies(entries, R) ==
  [i \in DOMAIN entries |-> IF Reapable(entries[i], R) THEN Offloaded(entries[i]) ELSE entries[i]]
\* One device buffer is kept for the next snapshot.
Recycled(kept, entries, R) ==
  LET i == SelectInSeq(entries, LAMBDA e : Reapable(e, R)) IN
  IF kept # None \/ i = 0 THEN kept ELSE entries[i].gpu

prefix_cache_enforce_budgets(C, R) ==
  LET D == WithinBudgets(C) IN
  /\ pool' = D.pool /\ cache' = prefix_cache_stage_cold(D.cache, R)

\* The buffer of a new snapshot: the recycled one, or one that nobody refers to.
NextBuffer ==
  IF recycled # None THEN recycled
  ELSE CHOOSE b \in Buffers : /\ \A i \in DOMAIN cache : cache[i].gpu # b
                              /\ ~Borrowed(b, req)

-----------------------------------------------------------------------------
(* Requests. *)

Active == {r \in Requests : req[r].status = "active"}

\* The references in ids are dropped, finished copies reaped, the budgets enforced;
\* without a reference nothing happens.
prefix_cache_release(P, entries, ids, R) ==
  LET dropped == [i \in DOMAIN entries |->
                    IF entries[i].id \in ids THEN [entries[i] EXCEPT !.refs = @ - 1]
                    ELSE entries[i]]
  IN  IF ids = {} THEN pool' = P /\ cache' = entries /\ UNCHANGED recycled
      ELSE /\ recycled' = Recycled(recycled, dropped, R)
           /\ prefix_cache_enforce_budgets(
                [pool |-> P, cache |-> prefix_cache_reap_host_copies(dropped, R)], R)

\* KvPageTable::reset gives back the pages behind the borrowed prefix.
OwnedPages(q) == SubSeq(q.table, q.borrowed + 1, Len(q.table))

\* complete_continuous_active: executor, snapshot, lease, in this order.
Complete(r, status, C) ==
  LET R == [req EXCEPT ![r] = [New EXCEPT !.status = status]] IN
  /\ req' = R
  /\ prefix_cache_release(release_physical_pages(C.pool, OwnedPages(req[r])),
                          C.cache, req[r].lease, R)

\* Mutant: the whole prompt may be taken from the cache.
Longest_Whole(r) == Len(Prompt[r])
\* The longest prefix that is looked up leaves one page of the prompt to prefill.
Longest(r) == Len(Prompt[r]) - 1

\* The entry of the longest cached prefix, 0 when there is none.
prefix_cache_lookup(r) ==
  LET fits == {i \in DOMAIN cache : /\ Len(Prompt[r]) >= 2
                                    /\ Len(cache[i].pages) <= Longest(r)
                                    /\ cache[i].prefix = Prefix(r, Len(cache[i].pages))}
  IN  IF fits = {} THEN 0
      ELSE CHOOSE i \in fits : \A j \in fits : Len(cache[i].pages) >= Len(cache[j].pages)

\* The used entry becomes the most recent one.
Moved(i, e) == Append(RemoveAt(cache, i), e)

\* A request without a cached prefix.
StartCold(r) ==
  /\ req[r].status = "new" /\ Cardinality(Active) < Rows /\ prefix_cache_lookup(r) = 0
  /\ req' = [req EXCEPT ![r].status = "active"]
  /\ UNCHANGED <<pool, cache, recycled, holds, state>>

\* A hit: a cold entry first gets its snapshot back onto the device.  Then the executor
\* adopts the pages and the state, or fails to and prefills from the beginning; in that
\* case the snapshot stays borrowed, but not the entry.
Restored(e) == IF e.gpu # None THEN e ELSE [e EXCEPT !.gpu = NextBuffer]
StartHit(r, seeded) ==
  LET i == prefix_cache_lookup(r)
      e == Restored(cache[i])
      content == IF cache[i].gpu # None THEN state[cache[i].gpu] ELSE cache[i].host
      began == [New EXCEPT !.status = "active", !.snapshot = IF HostPool THEN e.gpu ELSE None]
      seed == [began EXCEPT !.table = e.pages, !.borrowed = Len(e.pages), !.lease = {e.id},
                            !.hit = Len(e.pages), !.restored = content]
      R == [req EXCEPT ![r] = IF seeded THEN seed ELSE began]
      kept == IF cache[i].gpu = None THEN None ELSE recycled
  IN
  /\ req[r].status = "new" /\ Cardinality(Active) < Rows /\ i # 0
  /\ state' = [state EXCEPT ![e.gpu] = content]
  /\ req' = R /\ UNCHANGED holds
  /\ IF seeded
     THEN /\ cache' = Moved(i, [e EXCEPT !.refs = @ + 1])
          /\ recycled' = kept /\ UNCHANGED pool
     ELSE /\ recycled' = Recycled(kept, Moved(i, e), R)
          /\ prefix_cache_enforce_budgets(
               [pool |-> pool, cache |-> prefix_cache_reap_host_copies(Moved(i, e), R)], R)

\* Where the prefix of r is committed, 0 for a prompt that is too short.
CommitLength(r) ==
  IF Len(Prompt[r]) < 2 \/ Len(Prompt[r]) - 1 <= Guard THEN 0 ELSE Len(Prompt[r]) - 1 - Guard

\* Mutants: the executor stays the owner of the pages; the page in work is marked too.
Marked_Owned(n) == 0
\* mark_prefix_shared: the executor no longer owns the pages it gave to the cache.
Marked(n) == n

\* prefix_cache_commit at the page boundary, C being pool and entries after the prefill.
\* A request commits once, so its name serves as the id of the entry.
Commit(r, table, C) ==
  LET n == Len(table)
      same == SelectInSeq(C.cache, LAMBDA e : e.prefix = Prefix(r, n))
      entry == [id |-> r, prefix |-> Prefix(r, n), pages |-> table, refs |-> 1,
                gpu |-> NextBuffer, host |-> None, copying |-> FALSE]
      R == [req EXCEPT ![r].table = table, ![r].borrowed = Marked(n), ![r].lease = @ \cup {r}]
  IN
  IF same # 0
  THEN /\ cache' = Append(RemoveAt(C.cache, same), [C.cache[same] EXCEPT !.refs = @ + 1])
       /\ req' = [req EXCEPT ![r].table = table, ![r].lease = @ \cup {C.cache[same].id}]
       /\ pool' = C.pool /\ UNCHANGED <<recycled, state>>
  ELSE /\ req' = R /\ state' = [state EXCEPT ![NextBuffer] = entry.prefix] /\ recycled' = None
       /\ prefix_cache_enforce_budgets([pool |-> pin_pages(C.pool, table),
                                        cache |-> Append(C.cache, entry)], R)

\* One page of prefill: allocate it, compute it, commit where the prefix ends.  A pool
\* that cannot give a page ends the request with an error.
Prefill(r) ==
  LET C == [pool |-> pool, cache |-> cache]
      D == prefix_cache_evict_lru(C, Evictions(C))
      p == Last(D.pool.free)
      taken == [D.pool EXCEPT !.free = Front(@), !.allocated = @ \cup {p}]
      table == Append(req[r].table, p)
  IN
  /\ r \in Active /\ Len(req[r].table) < Len(Prompt[r])
  /\ IF D.pool.free = <<>>
     THEN Complete(r, "exhausted", D) /\ UNCHANGED <<holds, state>>
     ELSE /\ holds' = [holds EXCEPT ![p] = Prefix(r, Len(table))]
          /\ IF Len(table) = CommitLength(r) /\ CommitLength(r) > req[r].hit
             THEN Commit(r, table, [pool |-> taken, cache |-> D.cache])
             ELSE /\ req' = [req EXCEPT ![r].table = table]
                  /\ pool' = taken /\ cache' = D.cache /\ UNCHANGED <<recycled, state>>

\* The reply is complete, or the request is cancelled or fails at some point before.
Finish(r) == r \in Active /\ Complete(r, "done", [pool |-> pool, cache |-> cache])
             /\ UNCHANGED <<holds, state>>

Next == \E r \in Requests : \/ StartCold(r) \/ Prefill(r) \/ Finish(r)
                            \/ \E seeded \in BOOLEAN : StartHit(r, seeded)
Spec == Init /\ [][Next]_vars

-----------------------------------------------------------------------------
(* Properties. *)

\* Every variable has its type.
TypeOK ==
  /\ pool.free \in Seq(Pages) /\ pool.allocated \subseteq Pages /\ pool.pins \in [Pages -> Nat]
  /\ \A i \in DOMAIN cache : /\ cache[i].gpu \in Buffers \cup {None} /\ cache[i].refs \in Nat
                             /\ ToSet(cache[i].pages) \subseteq Pages
  /\ recycled \in Buffers \cup {None}
  /\ \A r \in Requests : /\ req[r].status \in {"new", "active", "done", "exhausted"}
                         /\ req[r].table \in Seq(Pages) /\ req[r].borrowed <= Len(req[r].table)

\* What a request attends to is its own prompt: every page in its table still holds the
\* prefix it stands for, and the recurrent state it started from was that of its hit.
PrefixIntact ==
  \A r \in Active : /\ \A i \in DOMAIN req[r].table : holds[req[r].table[i]] = Prefix(r, i)
                    /\ req[r].restored = Prefix(r, req[r].hit)
                    /\ req[r].hit < Len(Prompt[r])

\* No page is lost and none has two owners: it is on the free stack once or allocated,
\* and then owned by one page table or pinned by the entries that list it.
PagesConserved ==
  /\ IsInjective(pool.free) /\ ToSet(pool.free) = Pages \ pool.allocated
  /\ \A p \in Pages : pool.pins[p] = Cardinality({i \in DOMAIN cache : p \in ToSet(cache[i].pages)})
  /\ \A p \in pool.allocated :
       Cardinality({r \in Active : p \in ToSet(OwnedPages(req[r]))})
       = IF pool.pins[p] = 0 THEN 1 ELSE 0

\* An entry has as many references as requests hold it, and the pages a request borrowed
\* belong to an entry it holds.
LeasesExact ==
  /\ \A i \in DOMAIN cache : cache[i].refs = Cardinality({r \in Active : cache[i].id \in req[r].lease})
  /\ \A r \in Active : \A k \in 1 .. req[r].borrowed :
       \E i \in DOMAIN cache : cache[i].id \in req[r].lease /\ req[r].table[k] \in ToSet(cache[i].pages)

\* An entry's snapshot, on the device or on the host, is the state at the end of its
\* prefix, also after its buffer was recycled; a borrowed snapshot is not overwritten.
SnapshotsIntact ==
  /\ \A i \in DOMAIN cache :
       cache[i].prefix = IF cache[i].gpu # None THEN state[cache[i].gpu] ELSE cache[i].host
  /\ \A r \in Active : req[r].snapshot # None => \E n \in 1 .. Len(Prompt[r]) :
                         state[req[r].snapshot] = Prefix(r, n)

\* The cache exceeds a budget only while every entry is in use.
OverBudgetOnlyInUse ==
  ~WithinBudget([pool |-> pool, cache |-> cache]) => \A i \in DOMAIN cache : cache[i].refs > 0

\* A request fails for want of pages only if every page is owned by a live request or
\* pinned by an entry that one holds.
ExhaustionHonest ==
  [][\A r \in Requests : (req'[r].status = "exhausted" /\ r \in Active) =>
       \A p \in Pages : \/ \E q \in Active : p \in ToSet(OwnedPages(req[q]))
                        \/ \E i \in DOMAIN cache : cache[i].refs > 0 /\ p \in ToSet(cache[i].pages)]_vars
=============================================================================
