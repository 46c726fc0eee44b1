---------------------------- MODULE NvmeOverlay -----------------------------
(***************************************************************************)
(* The copy-on-write overlay of a read-only NvmeKvTier                     *)
(* (include/qw3/nvme_kv_tier.hpp): one slot of an attached archive, whose  *)
(* main and MTP segments are written and read by worker threads without a  *)
(* lock.  The first writer claims the slot with a compare-exchange, copies *)
(* the archived slot into the overlay unless it writes all of it, writes   *)
(* its own range and publishes; the others spin on the slot's state.  Any  *)
(* I/O call may fail.  A segment holds the name of the thread that wrote   *)
(* it, "base" for archived bytes, "hole" for what a sparse file reads as.  *)
(***************************************************************************)
EXTENDS Integers, FiniteSets

CONSTANTS Segments,   \* of the slot
          Writers,    \* each one write_slot_range call
          Wants,      \* the segments each writer's range covers
          Readers     \* each one read of the whole slot
ASSUME OverlayConfig == /\ Wants \in [Writers -> (SUBSET Segments) \ {{}}]
                        /\ Writers \cap (Readers \cup {"base", "hole"}) = {}

VARIABLES valid,     \* overlay_valid_ of the slot: Base, Initializing or Valid
          overlay,   \* the overlay file's bytes
          pc, left,  \* of each thread: its place, and the segments it has still to move
          owner,     \* ghost: writers that claimed the slot
          got,       \* what each reader has read
          known      \* ghost: the segments already written when a reader began
overlayVars == <<valid, overlay, pc, left, owner, got, known>>
Threads == Writers \cup Readers

OverlayInit ==
  /\ valid = "Base" /\ overlay = [s \in Segments |-> "hole"]
  /\ pc = [t \in Threads |-> "load"] /\ left = [t \in Threads |-> {}]
  /\ owner = {} /\ got = [r \in Readers |-> [s \in Segments |-> "base"]]
  /\ known = [r \in Readers |-> {}]

Goto(t, label) == pc' = [pc EXCEPT ![t] = label]

\* A writer loads the state; while another writer initializes the slot it yields.
LoadState(w) ==
  /\ pc[w] = "load" /\ valid # "Initializing"
  /\ Goto(w, IF valid = "Valid" THEN "write" ELSE "claim")
  /\ left' = [left EXCEPT ![w] = Wants[w]]
  /\ UNCHANGED <<valid, overlay, owner, got, known>>

\* compare_exchange_strong(Base, Initializing) succeeds.
Claims == valid = "Base"
\* The segments to copy up: none for a full-slot write, else all.
CopyUp(w) == IF Wants[w] = Segments THEN {} ELSE Segments

Claim(w) ==
  /\ pc[w] = "claim"
  /\ IF Claims THEN /\ valid' = "Initializing" /\ owner' = owner \cup {w}
                    /\ left' = [left EXCEPT ![w] = CopyUp(w)] /\ Goto(w, "copy")
     ELSE Goto(w, "load") /\ UNCHANGED <<valid, owner, left>>
  /\ UNCHANGED <<overlay, got, known>>

CopySegment(w, s) ==
  /\ pc[w] = "copy" /\ s \in left[w]
  /\ overlay' = [overlay EXCEPT ![s] = "base"]
  /\ left' = [left EXCEPT ![w] = @ \ {s}]
  /\ UNCHANGED <<valid, pc, owner, got, known>>

CopyEnd(w) ==
  /\ pc[w] = "copy" /\ left[w] = {}
  /\ left' = [left EXCEPT ![w] = Wants[w]] /\ Goto(w, "write")
  /\ UNCHANGED <<valid, overlay, owner, got, known>>

\* pwrite_all of the caller's range, into a claimed or an already valid slot.
WriteSegment(w, s) ==
  /\ pc[w] = "write" /\ s \in left[w]
  /\ overlay' = [overlay EXCEPT ![s] = w]
  /\ left' = [left EXCEPT ![w] = @ \ {s}]
  /\ UNCHANGED <<valid, pc, owner, got, known>>

\* The call returns; the writer that claimed the slot publishes it first.
WriteEnd(w) ==
  /\ pc[w] = "write" /\ left[w] = {}
  /\ valid' = IF w \in owner THEN "Valid" ELSE valid
  /\ Goto(w, "done")
  /\ UNCHANGED <<overlay, left, owner, got, known>>

\* Mutant: a failed writer leaves the slot claimed.
AfterFailure_Kept(w) == valid
\* Mutant: a failure in a slot that is already valid gives it back too.
AfterFailure_Always(w) == "Base"
AfterFailure(w) == IF w \in owner THEN "Base" ELSE valid

\* An I/O call fails: the exception leaves the call, and gives a claimed slot back.
WriteFails(w) ==
  /\ pc[w] \in {"copy", "write"} /\ left[w] # {}
  /\ valid' = AfterFailure(w)
  /\ Goto(w, "failed")
  /\ UNCHANGED <<overlay, left, owner, got, known>>

ReadsOverlay == valid = "Valid"

\* read_slot_range begins.
ReadBegin(r) ==
  /\ pc[r] = "load"
  /\ known' = [known EXCEPT ![r] = UNION {Wants[w] : w \in {v \in Writers : pc[v] = "done"}}]
  /\ Goto(r, "fd")
  /\ UNCHANGED <<valid, overlay, left, owner, got>>

\* Mutant: a reader does not wait for the initializing writer, and takes the overlay.
ReadFd_Unwaited(r) ==
  /\ pc[r] = "fd"
  /\ IF valid # "Base" THEN Goto(r, "read") /\ left' = [left EXCEPT ![r] = Segments]
     ELSE Goto(r, "done") /\ UNCHANGED left
  /\ UNCHANGED <<valid, overlay, owner, got, known>>
\* read_fd: spin while a writer initializes the slot, then choose a file for good.
ReadFd(r) ==
  /\ pc[r] = "fd" /\ valid # "Initializing"
  /\ IF ReadsOverlay THEN Goto(r, "read") /\ left' = [left EXCEPT ![r] = Segments]
     ELSE Goto(r, "done") /\ UNCHANGED left
  /\ UNCHANGED <<valid, overlay, owner, got, known>>

ReadSegment(r, s) ==
  /\ pc[r] = "read" /\ s \in left[r]
  /\ got' = [got EXCEPT ![r][s] = overlay[s]]
  /\ left' = [left EXCEPT ![r] = @ \ {s}]
  /\ Goto(r, IF left[r] = {s} THEN "done" ELSE "read")
  /\ UNCHANGED <<valid, overlay, owner, known>>

WriterStep(w) == \/ LoadState(w) \/ Claim(w) \/ CopyEnd(w) \/ WriteEnd(w)
                 \/ \E s \in Segments : CopySegment(w, s) \/ WriteSegment(w, s)
ReaderStep(r) == ReadBegin(r) \/ ReadFd(r) \/ \E s \in Segments : ReadSegment(r, s)
OverlayNext ==
  \/ \E w \in Writers : WriterStep(w) \/ WriteFails(w)
  \/ \E r \in Readers : ReaderStep(r)

OverlaySpec == OverlayInit /\ [][OverlayNext]_overlayVars

\* Every thread is scheduled; whether a call fails is not fair to anybody.
FairOverlay ==
  /\ OverlaySpec
  /\ \A w \in Writers : WF_overlayVars(WriterStep(w))
  /\ \A r \in Readers : WF_overlayVars(ReaderStep(r))

----------------------------------------------------------------------------
(* Properties.                                                             *)

\* Every variable has its type, and one writer at most is initializing the slot.
OverlayTypes ==
  /\ valid \in {"Base", "Initializing", "Valid"}
  /\ overlay \in [Segments -> Writers \cup {"base", "hole"}]
  /\ left \in [Threads -> SUBSET Segments] /\ owner \subseteq Writers
  /\ Cardinality({w \in owner : pc[w] \in {"copy", "write"}}) <= 1

\* A reader never sees a sparse-file hole, or bytes of a writer whose initialization
\* failed half-way: the slot is the coherence unit of write_overlay_slot_range.
HalfCopyInvisible ==
  \A r \in Readers, s \in Segments :
    /\ got[r][s] # "hole"
    /\ \A w \in owner : pc[w] = "failed" => got[r][s] # w

\* A write that returned is not undone: the slot stays valid, and its segments never fall
\* back to archived bytes, whatever the other writers do and however they fail.
WritesSurvive ==
  \A w \in Writers : pc[w] = "done" =>
    valid = "Valid" /\ \A s \in Wants[w] : overlay[s] \in Writers

\* A read that begins after a write returned sees that write or a later one.
ReadsRecent == \A r \in Readers : pc[r] = "done" => \A s \in known[r] : got[r][s] # "base"

\* A reader that chooses its file while writers copy up, publish and fail reads neither a
\* slot half copied nor one older than the writes it comes after.
ReadsCoherent == HalfCopyInvisible /\ ReadsRecent

\* Nobody spins for ever, failures included.
EveryCallEnds == \A t \in Threads : <>(pc[t] \in {"done", "failed"})
=============================================================================
