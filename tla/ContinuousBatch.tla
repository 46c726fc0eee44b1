--------------------------- MODULE ContinuousBatch --------------------------
(***************************************************************************)
(* The continuous-batching front end of qwen_native_backend.cpp: request   *)
(* threads that start the worker, pass admission control and wait; the     *)
(* worker thread with its pending queue, its prefilling and decoding rows  *)
(* and its grouped runs (MTP and full-controller requests); unsupported    *)
(* requests that stop the worker and use the device themselves.            *)
(*                                                                         *)
(* cb_mu_ is held across another step only by a start that joins an old    *)
(* worker, so `mu' names that thread and every critical section asks for   *)
(* mu = NoOne.  request_setup_mu_ is `setup'.  Tokens are counted, their   *)
(* contents are not modelled; a forward pass may fail for one row (the     *)
(* request gets the error) or as a whole (the exception ends the worker).  *)
(***************************************************************************)
EXTENDS Integers, Sequences, FiniteSets, SequencesExt, FiniteSetsExt

CONSTANTS Batched,     \* requests the continuous route supports
          Grouped,     \* those run by run_continuous_{mtp_batch,controlled}_requests
          Fallback,    \* requests it does not support
          Reserve,     \* reserved_tokens of a batched request
          Key,         \* its kvmem_prefix_cache_key, NoKey for none
          NoKey, NoOne,
          MaxActive, MaxPending, MaxTotal,
          Chunks,      \* prefill chunks of a prompt
          Tokens,      \* max_tokens of a request
          Burst,       \* continuous_batching_prefill_burst
          Failures     \* bound: exceptions that end a worker
ASSUME BatchConfig ==
  /\ Grouped \subseteq Batched /\ Batched \cap Fallback = {}
  /\ NoOne \notin Batched \cup Fallback
  /\ Reserve \in [Batched -> Nat]
  /\ {MaxActive, MaxPending, Chunks, Tokens, Burst} \subseteq Nat \ {0}
  /\ {MaxTotal, Failures} \subseteq Nat

VARIABLES
  pc,                    \* of each request thread
  setup, mu,             \* holders of request_setup_mu_ and cb_mu_
  running, stop,         \* cb_running_, cb_stop_
  worker,                \* the worker thread's place; "none": cb_worker_ not joinable
  pending,               \* cb_pending_
  arrivals, prefilling, active, group, doomed, burst,  \* locals of the worker
  reserved, keys,        \* cb_reserved_tokens_, cb_session_keys_inflight_
  released, done,        \* of a request: budget_released, done
  cancelled,             \* should_cancel() of a request
  progress,              \* chunks, then tokens, computed for a request
  failed                 \* worker exceptions so far
thread == <<pc, setup>>
queue == <<reserved, keys, released, done>>
rows == <<arrivals, prefilling, active, group, doomed, burst>>
vars == <<pc, setup, mu, running, stop, worker, pending, rows, queue, cancelled,
          progress, failed>>

Init ==
  /\ pc = [c \in Batched \cup Fallback |-> "idle"] /\ setup = NoOne /\ mu = NoOne
  /\ running = FALSE /\ stop = FALSE /\ worker = "none" /\ pending = <<>>
  /\ arrivals = <<>> /\ prefilling = <<>> /\ active = {} /\ group = {}
  /\ doomed = {} /\ burst = 0
  /\ reserved = 0 /\ keys = {} /\ released = [r \in Batched |-> FALSE]
  /\ done = [r \in Batched |-> FALSE] /\ cancelled = [r \in Batched |-> FALSE]
  /\ progress = [r \in Batched |-> 0] /\ failed = 0

Goto(c, label) == pc' = [pc EXCEPT ![c] = label]
Cost(S) == MapThenSumSet(LAMBDA r : Reserve[r], S)

-----------------------------------------------------------------------------
(* Request threads. *)

\* Request preparation under request_setup_mu_, which a continuous request gives back
\* before it enters generate_continuous_batched.
Prepare(c) ==
  /\ c \in Batched /\ pc[c] = "idle" /\ setup = NoOne /\ Goto(c, "start")
  /\ UNCHANGED <<setup, mu, running, stop, worker, pending, rows, queue, cancelled,
                 progress, failed>>

\* A new worker thread: stop cleared, running set, the loop entered.
Spawn(c) ==
  /\ stop' = FALSE /\ running' = TRUE /\ worker' = "begin" /\ Goto(c, "enqueue")

\* start_continuous_batch_worker.  A joinable old thread is joined with cb_mu_ held.
Start(c) ==
  /\ c \in Batched /\ pc[c] = "start" /\ mu = NoOne
  /\ \/ running /\ Goto(c, "enqueue") /\ UNCHANGED <<running, stop, worker, mu>>
     \/ ~running /\ worker = "none" /\ Spawn(c) /\ UNCHANGED mu
     \/ /\ ~running /\ worker # "none" /\ mu' = c /\ Goto(c, "join")
        /\ UNCHANGED <<running, stop, worker>>
  /\ UNCHANGED <<setup, pending, rows, queue, cancelled, progress, failed>>

Joined(c) ==
  /\ pc[c] = "join" /\ worker \in {"dead", "none"} /\ Spawn(c) /\ mu' = NoOne
  /\ UNCHANGED <<setup, pending, rows, queue, cancelled, progress, failed>>

\* Mutant: the claim of the session key is not checked.
Admissible_AnyKey(r) ==
  /\ Len(pending) < MaxPending /\ Reserve[r] <= MaxTotal
  /\ reserved + Reserve[r] <= MaxTotal
\* Admission control of generate_continuous_batched.
Admissible(r) ==
  /\ Len(pending) < MaxPending /\ Reserve[r] <= MaxTotal
  /\ reserved + Reserve[r] <= MaxTotal /\ (Key[r] # NoKey => Key[r] \notin keys)

Enqueue(r) ==
  /\ pc[r] = "enqueue" /\ mu = NoOne
  /\ \/ /\ Admissible(r) /\ Goto(r, "waiting") /\ pending' = Append(pending, r)
        /\ reserved' = reserved + Reserve[r] /\ keys' = keys \cup ({Key[r]} \ {NoKey})
     \/ ~Admissible(r) /\ Goto(r, "leave") /\ UNCHANGED <<pending, reserved, keys>>
  /\ UNCHANGED <<setup, mu, running, stop, worker, rows, released, done, cancelled,
                 progress, failed>>

\* release_continuous_request_budget of the requests in S.
Release(S) ==
  LET new == {r \in S : ~released[r]} IN
  /\ reserved' = IF Cost(new) > reserved THEN 0 ELSE reserved - Cost(new)
  /\ released' = [r \in Batched |-> released[r] \/ r \in S]
  /\ keys' = keys \ {Key[r] : r \in new}

\* complete_continuous_request of S: the budget first, then the promise.
Complete(S) ==
  /\ (S # {} => mu = NoOne) /\ Release(S)
  /\ done' = [r \in Batched |-> done[r] \/ r \in S]

\* The client gives up; should_cancel() holds from now on.
Cancel(r) ==
  /\ pc[r] = "waiting" /\ ~cancelled[r] /\ cancelled' = [cancelled EXCEPT ![r] = TRUE]
  /\ UNCHANGED <<thread, mu, running, stop, worker, pending, rows, queue, progress, failed>>

\* The 100 ms poll finds the request still queued and takes it out...
Withdraw(r) ==
  /\ pc[r] = "waiting" /\ ~done[r] /\ cancelled[r] /\ mu = NoOne
  /\ r \in Range(pending) /\ pending' = RemoveFirst(pending, r) /\ Goto(r, "withdrawn")
  /\ UNCHANGED <<setup, mu, running, stop, worker, rows, queue, cancelled, progress, failed>>

\* Mutant: a withdrawn request is dropped without completing it.
Withdrawn_Silent(r) ==
  /\ pc[r] = "withdrawn" /\ Goto(r, "waiting") /\ mu = NoOne
  /\ done' = [done EXCEPT ![r] = TRUE] /\ UNCHANGED <<reserved, released, keys>>
  /\ UNCHANGED <<setup, mu, running, stop, worker, pending, rows, cancelled, progress, failed>>
\* ...and completes it with "request cancelled".
Withdrawn(r) ==
  /\ pc[r] = "withdrawn" /\ Goto(r, "waiting") /\ mu = NoOne /\ Complete({r})
  /\ UNCHANGED <<setup, mu, running, stop, worker, pending, rows, cancelled, progress, failed>>

\* The wait ends; request_setup_mu_ is taken once more before the thread returns.
Leave(r) ==
  /\ \/ pc[r] = "waiting" /\ done[r]
     \/ pc[r] = "leave"
  /\ setup = NoOne /\ Goto(r, "returned")
  /\ UNCHANGED <<setup, mu, running, stop, worker, pending, rows, queue, cancelled,
                 progress, failed>>

\* An unsupported request stops the worker, holding request_setup_mu_ to its end.
StopSignal(f) ==
  /\ f \in Fallback /\ pc[f] = "idle" /\ setup = NoOne /\ mu = NoOne /\ setup' = f
  /\ stop' = (running \/ stop) /\ Goto(f, "join")
  /\ UNCHANGED <<mu, running, worker, pending, rows, queue, cancelled, progress, failed>>

StopJoin(f) ==
  /\ f \in Fallback /\ pc[f] = "join" /\ worker \in {"dead", "none"}
  /\ worker' = "none" /\ Goto(f, "stopped")
  /\ UNCHANGED <<setup, mu, running, stop, pending, rows, queue, cancelled, progress, failed>>

\* cb_running_ is cleared without the lock, and the request runs on the device.
FallbackRuns(f) ==
  /\ pc[f] = "stopped" /\ running' = FALSE /\ Goto(f, "device")
  /\ UNCHANGED <<setup, mu, stop, worker, pending, rows, queue, cancelled, progress, failed>>

FallbackEnds(f) ==
  /\ pc[f] = "device" /\ Goto(f, "returned") /\ setup' = NoOne
  /\ UNCHANGED <<mu, running, stop, worker, pending, rows, queue, cancelled, progress, failed>>

-----------------------------------------------------------------------------
(* The worker thread, continuous_batch_worker_loop. *)

Resident == active \cup Range(prefilling) \cup group
OfClients == <<pc, setup, cancelled>>

WorkerBegin ==
  /\ worker = "begin" /\ worker' = "wait"
  /\ UNCHANGED <<OfClients, mu, running, stop, pending, rows, queue, progress, failed>>

\* The wait of the loop: leave when told to stop with nothing to do, else take every
\* pending request.
Take ==
  /\ worker = "wait" /\ mu = NoOne
  /\ \/ /\ stop /\ pending = <<>> /\ Resident = {}
        /\ worker' = "ending" /\ UNCHANGED <<pending, arrivals>>
     \/ /\ Range(pending) \cup Resident # {}
        /\ worker' = "admit" /\ arrivals' = pending /\ pending' = <<>>
  /\ UNCHANGED <<OfClients, mu, running, stop, prefilling, active, group, doomed, burst,
                 queue, progress, failed>>

\* A slot is free for another row.
Vacant == Cardinality(active) + Len(prefilling) < MaxActive

\* One plain arrival gets a row, or fails to (cancelled, or no executor).
AdmitRow ==
  /\ worker = "admit" /\ arrivals # <<>> /\ Vacant /\ Head(arrivals) \notin Grouped
  /\ LET r == Head(arrivals) IN
     /\ arrivals' = Tail(arrivals)
     /\ \/ ~cancelled[r] /\ prefilling' = Append(prefilling, r) /\ UNCHANGED queue
        \/ Complete({r}) /\ UNCHANGED prefilling
  /\ UNCHANGED <<OfClients, mu, running, stop, worker, pending, active, group, doomed, burst,
                 progress, failed>>

\* A run of grouped requests at the head, when no row is resident.
GroupRun(n) ==
  /\ n \in 1..Min({Len(arrivals), MaxActive}) /\ Range(SubSeq(arrivals, 1, n)) \subseteq Grouped
  /\ n < Min({Len(arrivals), MaxActive}) => arrivals[n + 1] \notin Grouped

AdmitGroup ==
  /\ worker = "admit" /\ Resident = {}
  /\ \E n \in 1..Len(arrivals) :
       /\ GroupRun(n) /\ group' = Range(SubSeq(arrivals, 1, n))
       /\ arrivals' = SubSeq(arrivals, n + 1, Len(arrivals))
  /\ worker' = "group"
  /\ UNCHANGED <<OfClients, mu, running, stop, pending, prefilling, active, doomed, burst,
                 queue, progress, failed>>

\* While it runs, the group takes grouped requests from the head of the queue...
GroupAdmit ==
  /\ worker = "group" /\ mu = NoOne /\ group # {} /\ Cardinality(group) < MaxActive
  /\ pending # <<>> /\ Head(pending) \in Grouped
  /\ group' = group \cup {Head(pending)} /\ pending' = Tail(pending)
  /\ UNCHANGED <<OfClients, mu, running, stop, worker, arrivals, prefilling, active, doomed,
                 burst, queue, progress, failed>>

\* ...and each of its requests completes, with a text or with an error.
GroupRow(r) ==
  /\ worker = "group" /\ r \in group /\ Complete({r}) /\ group' = group \ {r}
  /\ UNCHANGED <<OfClients, mu, running, stop, worker, pending, arrivals, prefilling, active,
                 doomed, burst, progress, failed>>

NoMoreRows ==
  arrivals # <<>> => ~Vacant \/ (Head(arrivals) \in Grouped /\ Resident # {})

\* Mutant: what was not admitted is forgotten.
Requeued_Dropped == pending
\* What was not admitted goes back to the front of the queue, in order.
Requeued == arrivals \o pending

Requeue ==
  /\ \/ worker = "admit" /\ NoMoreRows
     \/ worker = "group" /\ group = {}
  /\ (arrivals # <<>> => mu = NoOne) /\ pending' = Requeued /\ arrivals' = <<>>
  /\ worker' = IF active # {} THEN "decode" ELSE IF prefilling # <<>> THEN "prefill" ELSE "wait"
  /\ burst' = Min({Burst, Len(prefilling)})
  /\ UNCHANGED <<OfClients, mu, running, stop, prefilling, active, group, doomed, queue,
                 progress, failed>>

\* max_tokens have been generated.
AtLimit(n) == n >= Chunks + Tokens

\* continuous_decode_batch_step: every active row gets a token; the rows at max_tokens
\* and the cancelled ones complete, and so may others (end of text, an error of the row).
Decode ==
  /\ worker = "decode"
  /\ progress' = [r \in Batched |-> progress[r] + IF r \in active THEN 1 ELSE 0]
  /\ \E fin \in SUBSET active :
       /\ {r \in active : cancelled[r] \/ AtLimit(progress'[r])} \subseteq fin
       /\ Complete(fin) /\ active' = active \ fin
  /\ worker' = IF prefilling # <<>> THEN "prefill" ELSE "wait"
  /\ burst' = Min({1, Len(prefilling)})
  /\ UNCHANGED <<OfClients, mu, running, stop, pending, arrivals, prefilling, group, doomed,
                 failed>>

\* advance_continuous_prefill of the first row: an unfinished prompt goes to the back,
\* the last chunk samples the first token and the row completes or starts decoding.
Prefill ==
  /\ worker = "prefill"
  /\ LET r == Head(prefilling) IN
     /\ progress' = [progress EXCEPT ![r] = IF @ + 1 < Chunks THEN @ + 1 ELSE Chunks + 1]
     /\ \/ Complete({r}) /\ prefilling' = Tail(prefilling) /\ UNCHANGED active
        \/ /\ ~cancelled[r] /\ progress'[r] < Chunks
           /\ prefilling' = Append(Tail(prefilling), r) /\ UNCHANGED <<active, queue>>
        \/ /\ ~cancelled[r] /\ progress'[r] = Chunks + 1 /\ Tokens > 1
           /\ prefilling' = Tail(prefilling) /\ active' = active \cup {r} /\ UNCHANGED queue
  /\ burst' = IF active' # {} \/ prefilling' = <<>> THEN 0 ELSE burst - 1
  /\ worker' = IF burst' = 0 THEN "wait" ELSE worker
  /\ UNCHANGED <<OfClients, mu, running, stop, pending, arrivals, group, doomed, failed>>

\* The loop was left: running and stop are cleared and the thread ends.
WorkerEnds ==
  /\ worker = "ending" /\ mu = NoOne /\ worker' = "dead" /\ running' = FALSE /\ stop' = FALSE
  /\ UNCHANGED <<OfClients, mu, pending, rows, queue, progress, failed>>

\* An exception reaches the loop's catch block: the queue is taken over, running cleared...
WorkerFails ==
  /\ worker \in {"begin", "decode", "prefill", "ending"} /\ failed < Failures /\ mu = NoOne
  /\ failed' = failed + 1 /\ worker' = "failing" /\ running' = FALSE /\ stop' = FALSE
  /\ doomed' = Range(pending) /\ pending' = <<>>
  /\ UNCHANGED <<OfClients, mu, arrivals, prefilling, active, group, burst, queue, progress>>

Mourned == doomed \cup active \cup Range(prefilling)

\* ...and each request it held completes with the error, taking cb_mu_ once more for it.
FailRow(r) ==
  /\ worker = "failing" /\ r \in Mourned /\ Complete({r})
  /\ doomed' = doomed \ {r} /\ active' = active \ {r} /\ prefilling' = RemoveFirst(prefilling, r)
  /\ UNCHANGED <<OfClients, mu, running, stop, worker, pending, arrivals, group, burst,
                 progress, failed>>

WorkerDies ==
  /\ worker = "failing" /\ Mourned = {} /\ worker' = "dead"
  /\ UNCHANGED <<OfClients, mu, running, stop, pending, rows, queue, progress, failed>>

Goes(r) == Start(r) \/ Joined(r) \/ Enqueue(r) \/ Withdraw(r) \/ Withdrawn(r) \/ Leave(r)
SerialGoes(f) == StopJoin(f) \/ FallbackRuns(f) \/ FallbackEnds(f)
Worker == \/ WorkerBegin \/ Take \/ AdmitRow \/ AdmitGroup \/ GroupAdmit \/ Requeue \/ Decode
          \/ Prefill \/ WorkerEnds \/ WorkerDies
          \/ \E r \in Batched : GroupRow(r) \/ FailRow(r)

Next == \/ \E r \in Batched : Prepare(r) \/ Goes(r) \/ Cancel(r)
        \/ \E f \in Fallback : StopSignal(f) \/ SerialGoes(f)
        \/ Worker \/ WorkerFails
Spec == Init /\ [][Next]_vars
\* Threads are scheduled; a group is not kept busy by arrivals alone.  Nothing makes a
\* client call, cancel, or a worker fail.
FairSpec ==
  /\ Spec /\ WF_vars(Worker) /\ \A r \in Batched : WF_vars(GroupRow(r))
  /\ \A r \in Batched : WF_vars(Goes(r))
  /\ \A f \in Fallback : WF_vars(SerialGoes(f))

-----------------------------------------------------------------------------
(* Properties. *)

\* Every variable has its type.
TypeOK ==
  /\ pc \in [Batched \cup Fallback -> {"idle", "start", "join", "enqueue", "waiting", "withdrawn",
                                       "leave", "stopped", "device", "returned"}]
  /\ setup \in Fallback \cup {NoOne} /\ mu \in Batched \cup {NoOne}
  /\ {running, stop} \subseteq BOOLEAN
  /\ worker \in {"none", "begin", "wait", "admit", "group", "decode", "prefill", "ending",
                 "failing", "dead"}
  /\ {pending, arrivals, prefilling} \subseteq Seq(Batched)
  /\ {active, group, doomed} \subseteq SUBSET Batched
  /\ burst \in 0..Burst /\ reserved \in 0..MaxTotal /\ keys \subseteq Range(Key) \ {NoKey}
  /\ released \in [Batched -> BOOLEAN] /\ done \in [Batched -> BOOLEAN]
  /\ progress \in [Batched -> 0..(Chunks + Tokens)] /\ failed \in 0..Failures

Outstanding == {r \in Batched : pc[r] \in {"waiting", "withdrawn"} /\ ~done[r]}

\* The shared budget is exactly what the outstanding requests reserved, whichever of
\* finish, error, cancellation or worker failure ended the others.
BudgetExact == reserved = Cost(Outstanding)

\* A session key is claimed exactly while one request of that session is outstanding, so
\* two requests never work on one session's parked state.
SessionExclusive ==
  /\ keys = {Key[r] : r \in Outstanding} \ {NoKey}
  /\ \A r, s \in Outstanding : r # s /\ Key[r] = Key[s] => Key[r] = NoKey

\* An outstanding request is in exactly one hand: the queue, one of the worker's
\* collections, or its own thread's.
HeldOnce ==
  LET hands == <<Range(pending), Range(arrivals), Range(prefilling), active, group, doomed,
                 {r \in Batched : pc[r] = "withdrawn"}>>
  IN \A r \in Batched :
       Cardinality({i \in DOMAIN hands : r \in hands[i]}) = IF r \in Outstanding THEN 1 ELSE 0

\* The batch implements the admission control it stands for: whatever threads, queue and
\* worker do to the counters, the budget is never exceeded, a session never admitted twice,
\* and no request admitted again after its answer.
Admission == INSTANCE AdmissionControl WITH
  Requests <- Batched, admitted <- Outstanding, ended <- {r \in Batched : done[r]}
ImplementsAdmission == Admission!Spec

\* The rows on the device never exceed max_active, however arrivals, grouped runs and
\* requeued requests interleave.
RowsBounded == Cardinality(active) + Len(prefilling) + Cardinality(group) <= MaxActive

Line == arrivals \o pending
Ahead(r, s) == \E i, j \in DOMAIN Line : i < j /\ Line[i] = r /\ Line[j] = s
\* Requests of the plain route get their rows in the order in which they were queued,
\* even when some were taken by the worker and handed back.
ArrivalOrder ==
  [][\A r, s \in Batched : Ahead(r, s) /\ r \in Range(Line')
       => Ahead(r, s)' \/ s \notin Range(Line' \o prefilling')]_vars

\* No exception ended a worker, and no unsupported request stopped one: either can leave
\* a request that nobody serves, or a start waiting for a worker that waits for it.
Undisturbed == failed = 0 /\ \A f \in Fallback : pc[f] = "idle"

\* Every admitted request of an undisturbed worker ends and gives its reservation back.
EveryRequestEnds ==
  \A r \in Batched : pc[r] = "waiting" ~> (released[r] /\ done[r]) \/ ~Undisturbed

\* An unsupported request has the device to itself.
DeviceExclusive ==
  \A f \in Fallback : pc[f] = "device" => worker \in {"none", "dead"}

\* A start that joins the old worker never keeps it from ending.
NoCircularWait == ~(mu # NoOne /\ worker = "failing" /\ Mourned # {})

\* No more than max_pending requests are queued.
QueueBounded == Len(pending) <= MaxPending
=============================================================================
