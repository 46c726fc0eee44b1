------------------------ MODULE ControlledScheduler -------------------------
(***************************************************************************)
(* run_continuous_controlled_requests of qwen_native_backend.cpp with      *)
(* ContinuousPrefillPolicy and IdleSessionCache: the scheduler that        *)
(* multiplexes suspended request controllers over max_active rows.  A turn *)
(* admits requests to vacant rows, resumes every controller that holds no  *)
(* event, and executes one kind of work: one prefill chunk, the drafts, or *)
(* one verification of all ready rows.  A finished session's executor is   *)
(* parked under its key and taken up by the session's next request.        *)
(*                                                                         *)
(* A request is the number of prefill chunks and decode rounds it needs;   *)
(* what its controller computes is not modelled.  The controllers' own     *)
(* threads are CooperativeRequest, the queue is ContinuousBatch.           *)
(***************************************************************************)
EXTENDS Integers, Sequences, FiniteSets, SequencesExt, FiniteSetsExt

CONSTANTS Requests,      \* ids, in the order they were drawn
          Key, NoKey,    \* kvmem_prefix_cache_key of a request
          Chunks, Rounds, \* prefill chunks and decode rounds a request asks for
          MaxActive, Budget,
          Modes,         \* settings of the switches read at the start of a run
          Failures       \* bound: exceptions that end a run
ASSUME SchedulerConfig ==
  /\ Requests \subseteq Nat \ {0} /\ {MaxActive, Budget} \subseteq Nat \ {0} /\ Failures \in Nat
  /\ Chunks \in [Requests -> Nat] /\ Rounds \in [Requests -> Nat]
  /\ Modes \subseteq [independent : BOOLEAN, admission : BOOLEAN, oldest : BOOLEAN,
                      drafts : BOOLEAN, query : BOOLEAN]

Slots == 1..MaxActive
VARIABLES
  mode,                  \* the switches
  queue,                 \* full-controller requests of cb_pending_
  ctl,                   \* controllers: the request of a row, 0 for a vacant one
  ev,                    \* pending: the event a suspended controller published
  chunks, rounds, asked, \* of a request: work left; it has made its private query yield
  drafted,               \* its next event is a verification
  idle,                  \* cb_kvmem_sessions_, oldest first
  phase, at,             \* place in the turn
  spent, cursor,         \* rounds_ and cursor_ of the prefill policy
  outcome, cancelled, failed,
  waited                 \* ghost, of a held event: verify rounds and prefill chunks run since
vars == <<mode, queue, ctl, ev, chunks, rounds, asked, drafted, idle, phase, at, spent, cursor,
          outcome, cancelled, failed, waited>>
work == <<chunks, rounds, asked, drafted>>
policy == <<spent, cursor>>
NoWait == [verify |-> 0, prefill |-> 0]

Init ==
  /\ mode \in Modes /\ queue = <<>> /\ idle = <<>> /\ phase = "idle" /\ at = 1
  /\ ctl = [s \in Slots |-> 0] /\ ev = [s \in Slots |-> "none"]
  /\ chunks = Chunks /\ rounds = Rounds
  /\ asked = [r \in Requests |-> FALSE] /\ drafted = [r \in Requests |-> FALSE]
  /\ spent = 0 /\ cursor = 1 /\ failed = 0
  /\ outcome = [r \in Requests |-> "new"] /\ cancelled = [r \in Requests |-> FALSE]
  /\ waited = [s \in Slots |-> NoWait]

Live == {s \in Slots : ctl[s] # 0}
Holding(kind) == {s \in Live : ev[s] = kind}
Outstanding == {r \in Requests : outcome[r] \in {"queued", "live"}}

-----------------------------------------------------------------------------
(* Clients. *)

\* generate_continuous_batched queues one request of a session at a time.
Submit(r) ==
  /\ outcome[r] = "new" /\ (Key[r] # NoKey => \A q \in Outstanding : Key[q] # Key[r])
  /\ queue' = Append(queue, r) /\ outcome' = [outcome EXCEPT ![r] = "queued"]
  /\ UNCHANGED <<mode, ctl, ev, work, idle, phase, at, policy, cancelled, failed, waited>>

Cancel(r) ==
  /\ r \in Outstanding /\ ~cancelled[r] /\ cancelled' = [cancelled EXCEPT ![r] = TRUE]
  /\ UNCHANGED <<mode, queue, ctl, ev, work, idle, phase, at, policy, outcome, failed, waited>>

-----------------------------------------------------------------------------
(* IdleSessionCache. *)

\* Mutant: the resident stays in the cache.
Taken_Kept(k) == idle
\* take(): the resident of key k leaves the cache.
Taken(k) == RemoveFirst(idle, k)

\* The residents that may stay when one more row is filled.
Room == MaxActive - Cardinality(Live) - 1

\* trim(): the oldest go first.
Trimmed == SubSeq(idle, Max({0, Len(idle) - Room}) + 1, Len(idle))

\* park() refuses a key that is already there; finish() then drops the resident.
Parked(k) == IF k \in Range(idle) THEN idle ELSE Append(idle, k)

\* clear(): a request of the older paths arrived, or the worker ends or failed; the worker
\* is between runs.
ClearSessions ==
  /\ phase = "idle" /\ idle # <<>> /\ idle' = <<>>
  /\ UNCHANGED <<mode, queue, ctl, ev, work, phase, at, policy, outcome, cancelled, failed, waited>>

-----------------------------------------------------------------------------
(* Admission. *)

\* A worker with nothing resident takes a run of full-controller requests.
RunBegins ==
  /\ phase = "idle" /\ queue # <<>> /\ phase' = "admit" /\ at' = 1
  /\ spent' = 0 /\ cursor' = 1
  /\ UNCHANGED <<mode, queue, ctl, ev, work, idle, outcome, cancelled, failed, waited>>

\* Held events block admission, unless they are prefills and the switch allows it.
AllowAdmission ==
  \A s \in Live : ev[s] = "none" \/ (mode.independent /\ mode.admission /\ ev[s] = "prefill")

\* admit(): the first vacant row, the session's parked executor or a new one.
Admit(r) ==
  LET row == Min({s \in Slots : ctl[s] = 0})
      hit == Key[r] # NoKey /\ Key[r] \in Range(idle)
  IN \/ /\ ~cancelled[r] /\ idle' = IF hit THEN Taken(Key[r]) ELSE Trimmed
        /\ ctl' = [ctl EXCEPT ![row] = r] /\ outcome' = [outcome EXCEPT ![r] = "live"]
     \/ /\ cancelled[r] /\ outcome' = [outcome EXCEPT ![r] = "done"] /\ UNCHANGED <<ctl, idle>>
     \/ \* initialize_continuous_active, or the setup of a taken executor, throws
        /\ ~cancelled[r] /\ idle' = IF hit THEN Taken(Key[r]) ELSE Trimmed
        /\ outcome' = [outcome EXCEPT ![r] = "done"] /\ UNCHANGED ctl

AdmitRow ==
  /\ phase = "admit" /\ AllowAdmission /\ at \in Slots
  /\ \/ ctl[at] # 0 /\ UNCHANGED <<queue, ctl, idle, outcome>>
     \/ ctl[at] = 0 /\ queue # <<>> /\ Admit(Head(queue)) /\ queue' = Tail(queue)
  /\ at' = at + 1
  /\ UNCHANGED <<mode, ev, work, phase, policy, cancelled, failed, waited>>

AdmitEnds ==
  /\ phase = "admit"
  /\ AllowAdmission /\ at \in Slots => ctl[at] = 0 /\ queue = <<>>
  /\ phase' = "resume" /\ at' = 1
  /\ UNCHANGED <<mode, queue, ctl, ev, work, idle, policy, outcome, cancelled, failed, waited>>

-----------------------------------------------------------------------------
(* Resuming the controllers. *)

\* finish() of the rows S: controllers unwound, a good session parked, promise kept.
Finish(S, ok) ==
  /\ ctl' = [s \in Slots |-> IF s \in S THEN 0 ELSE ctl[s]]
  /\ ev' = [s \in Slots |-> IF s \in S THEN "none" ELSE ev[s]]
  /\ outcome' = [r \in Requests |-> IF \E s \in S : ctl[s] = r THEN "done" ELSE outcome[r]]
  /\ waited' = [s \in Slots |-> IF s \in S THEN NoWait ELSE waited[s]]
  /\ idle' = IF ok /\ \E s \in S : Key[ctl[s]] # NoKey /\ ~cancelled[ctl[s]]
             THEN Parked(Key[ctl[CHOOSE s \in S : TRUE]]) ELSE idle

Publish(kind) ==
  /\ ev' = [ev EXCEPT ![at] = kind] /\ UNCHANGED <<ctl, outcome, waited, idle>>

\* The controller of this row runs to its next event or to its end.  Every hook looks
\* at the cancellation first; an error may end it anywhere, the end of the text after
\* its prompt.
RunsBody(r) ==
  \/ Finish({at}, FALSE) /\ UNCHANGED asked
  \/ chunks[r] = 0 /\ Finish({at}, TRUE) /\ UNCHANGED asked
  \/ /\ ~cancelled[r] /\ mode.query /\ mode.independent /\ ~asked[r] /\ chunks[r] = 0
     /\ asked' = [asked EXCEPT ![r] = TRUE] /\ Publish("none")
  \/ ~cancelled[r] /\ chunks[r] > 0 /\ Publish("prefill") /\ UNCHANGED asked
  \/ /\ ~cancelled[r] /\ chunks[r] = 0 /\ rounds[r] > 0 /\ UNCHANGED asked
     /\ Publish(IF mode.drafts /\ ~drafted[r] THEN "draft" ELSE "verify")

ResumeRow ==
  /\ phase = "resume" /\ at \in Slots /\ at' = at + 1
  /\ IF ctl[at] # 0 /\ ev[at] = "none" THEN RunsBody(ctl[at])
     ELSE UNCHANGED <<ctl, ev, outcome, waited, idle, asked>>
  /\ UNCHANGED <<mode, queue, chunks, rounds, drafted, phase, policy, cancelled, failed>>

-----------------------------------------------------------------------------
(* Executing one kind of work. *)

\* Mutant: a prefill waits for the decode rounds even when no row decodes.
RunPrefill_BudgetOnly == Holding("prefill") # {} /\ spent >= Budget
\* run_prefill()
RunPrefill == Holding("prefill") # {} /\ (Holding("verify") = {} \/ spent >= Budget)

\* Mutant: always the first row.
SelectPrefill_First == Min(Holding("prefill"))
\* select_prefill() and select_oldest_prefill()
SelectPrefill ==
  LET rows == Holding("prefill")
      next == {s \in rows : s >= cursor}
  IN IF mode.oldest THEN CHOOSE s \in rows : \A t \in rows : ctl[s] <= ctl[t]
     ELSE Min(IF next # {} THEN next ELSE rows)

\* verified()
Verified == IF mode.independent THEN Min({spent + 1, Budget}) ELSE spent

\* The events of the rows S are answered; the others have waited once more for `kind'.
Answer(S, kind) ==
  /\ ev' = [s \in Slots |-> IF s \in S THEN "none" ELSE ev[s]]
  /\ waited' = [s \in Slots |-> IF s \in S \/ ev[s] = "none" THEN NoWait
                                ELSE [waited[s] EXCEPT ![kind] = @ + 1]]
Of(S) == {ctl[s] : s \in S}

Prefill(S) ==
  /\ Answer(S, "prefill")
  /\ chunks' = [r \in Requests |-> chunks[r] - IF r \in Of(S) THEN 1 ELSE 0]
  /\ UNCHANGED <<rounds, drafted>>

\* One chunk of one row, chosen by the policy.
IndependentPrefill ==
  /\ phase = "resume" /\ at \notin Slots /\ mode.independent /\ RunPrefill
  /\ Prefill({SelectPrefill}) /\ spent' = 0 /\ cursor' = SelectPrefill + 1

\* One chunk of every prefilling row, in a joint batch.
JointPrefill ==
  /\ phase = "resume" /\ at \notin Slots /\ ~mode.independent /\ Holding("prefill") # {}
  /\ Prefill(Holding("prefill")) /\ UNCHANGED policy

NoPrefill ==
  IF mode.independent THEN ~RunPrefill ELSE Holding("prefill") = {}

\* All drafts; ready verifications wait for them.
Draft ==
  /\ phase = "resume" /\ at \notin Slots /\ NoPrefill /\ Holding("draft") # {}
  /\ ev' = [s \in Slots |-> IF ev[s] = "draft" THEN "none" ELSE ev[s]]
  /\ waited' = [s \in Slots |-> IF ev[s] = "draft" THEN NoWait ELSE waited[s]]
  /\ drafted' = [r \in Requests |-> drafted[r] \/ r \in Of(Holding("draft"))]
  /\ UNCHANGED <<chunks, rounds, policy>>

\* One target round for every row that is ready.
Verify ==
  /\ phase = "resume" /\ at \notin Slots /\ NoPrefill /\ Holding("draft") = {}
  /\ Holding("verify") # {} /\ Answer(Holding("verify"), "verify")
  /\ rounds' = [r \in Requests |-> rounds[r] - IF r \in Of(Holding("verify")) THEN 1 ELSE 0]
  /\ drafted' = [r \in Requests |-> drafted[r] /\ r \notin Of(Holding("verify"))]
  /\ spent' = Verified /\ UNCHANGED <<chunks, cursor>>

NothingReady ==
  /\ phase = "resume" /\ at \notin Slots
  /\ Holding("prefill") \cup Holding("draft") \cup Holding("verify") = {}
  /\ UNCHANGED <<ev, waited, chunks, rounds, drafted, policy>>

Execute ==
  /\ IndependentPrefill \/ JointPrefill \/ Draft \/ Verify \/ NothingReady
  /\ phase' = (IF Live = {} THEN "idle" ELSE "admit") /\ at' = 1
  /\ UNCHANGED <<mode, queue, ctl, asked, idle, outcome, cancelled, failed>>

\* An exception of the shared work ends the run: every row finishes with it.
RunFails ==
  /\ phase = "resume" /\ at \notin Slots /\ Live # {} /\ failed < Failures /\ failed' = failed + 1
  /\ Finish(Live, FALSE) /\ phase' = "idle" /\ at' = 1
  /\ UNCHANGED <<mode, queue, work, policy, cancelled>>

Scheduler == RunBegins \/ AdmitRow \/ AdmitEnds \/ ResumeRow \/ Execute
Next == Scheduler \/ RunFails \/ ClearSessions \/ \E r \in Requests : Submit(r) \/ Cancel(r)
Spec == Init /\ [][Next]_vars
\* The worker thread is scheduled and its GPU calls return.
FairSpec == Spec /\ WF_vars(Scheduler)

-----------------------------------------------------------------------------
(* Properties. *)

\* Every variable has its type.
TypeOK ==
  /\ mode \in Modes /\ queue \in Seq(Requests) /\ idle \in Seq(Range(Key) \ {NoKey})
  /\ ctl \in [Slots -> Requests \cup {0}]
  /\ ev \in [Slots -> {"none", "prefill", "draft", "verify"}]
  /\ chunks \in [Requests -> Nat] /\ rounds \in [Requests -> Nat]
  /\ phase \in {"idle", "admit", "resume"} /\ at \in 1..(MaxActive + 1)
  /\ spent \in 0..Budget /\ cursor \in 1..(MaxActive + 1)
  /\ outcome \in [Requests -> {"new", "queued", "live", "done"}]

\* Executors in use and parked ones together never exceed the rows they were budgeted for.
ResidentsBounded == Cardinality(Live) + Len(idle) <= MaxActive

\* A session has at most one resident: parked once, or in a row, never both.
OneResident ==
  /\ \A i, j \in DOMAIN idle : idle[i] = idle[j] => i = j
  /\ \A s \in Live : Key[ctl[s]] \notin Range(idle)

\* Live rows and parked sessions together stand for device memory: a session that comes
\* back finds its own executor, once, and no take, park, trim, failure or clear leaves more
\* executors than were budgeted.
Residents == OneResident /\ ResidentsBounded

\* A prefill never waits for more than Budget verify rounds, unless another row's chunk
\* was served meanwhile, and in round robin no more than one of each other row.
PrefillServed ==
  \A s \in Holding("prefill") :
    /\ waited[s].verify <= Budget * (waited[s].prefill + 1)
    /\ ~mode.oldest => waited[s].prefill < MaxActive

\* A row ready for its target round lets at most one prefill chunk go first.
VerifyServed ==
  \A s \in Holding("verify") : mode.independent => waited[s].prefill <= 1

\* A row that decodes, drafting or verifying, lets at most one prefill chunk go first.
DecodeServed ==
  \A s \in Holding("draft") \cup Holding("verify") : mode.independent => waited[s].prefill <= 1

\* A request that was queued ends, in every mode.
EveryQueuedEnds == \A r \in Requests : outcome[r] = "queued" ~> outcome[r] = "done"
=============================================================================
