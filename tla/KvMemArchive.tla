---------------------------- MODULE KvMemArchive ----------------------------
(***************************************************************************)
(* The context archive (src/kvmem_archive.cpp) under its resumable builder *)
(* (build_kvmem_archive in src/qwen_native_backend.cpp).  A builder is     *)
(* killed at any point and started again, perhaps on another corpus, with  *)
(* another target length or ladder cadence.  What it wrote survives: a     *)
(* process death loses no page-cache byte, and power loss is outside the   *)
(* contract the repository states.                                         *)
(*                                                                         *)
(* One unit is one raw-K chunk of tokens, and one block.  What a chunk's   *)
(* KV or a ladder state holds is the sequence of tokens the executor had   *)
(* processed when it was written: that is all a later run may rely on.     *)
(* An exception ends the builder as a kill does.                           *)
(***************************************************************************)
EXTENDS Integers, Sequences, FiniteSets, SequencesExt, FiniteSetsExt

CONSTANTS N,             \* units of every input
          Environments,  \* what the builders of one archive meet: see ArchiveConfig
          Cadences,      \* ladder cadences a builder may be run with
          MaxKills       \* bound on the kills

Units == 1 .. N

\* An environment: the inputs and the target lengths builders are started with, and
\* whether a kill may fall inside a bitmap's rewrite.
ASSUME ArchiveConfig == /\ N \in Nat /\ Cadences \subseteq Units /\ MaxKills \in Nat
                        /\ \A e \in Environments : /\ \A c \in e.corpora : c \in Seq(ToSet(c)) /\ Len(c) = N
                                                  /\ e.targets \subseteq Units
                                                  /\ e.torn \in BOOLEAN

VARIABLES disk,      \* the archive directory
          proc,      \* the builder's memory
          env,       \* the environment of this archive
          kills      \* the kills so far
outside == <<env, kills>>
vars == <<disk, proc, env, kills>>

----------------------------------------------------------------------------
(* The format.                                                             *)

NewManifest == [made |-> FALSE, ladder |-> {}, total |-> 0, sealed |-> FALSE]
Prefix(s, n) == SubSeq(s, 1, n)

\* chunk_valid and block_valid of every unit up to p.
Covered(chunks, blocks, p) == 1 .. p \subseteq chunks \cap blocks

\* resume_position: the highest ladder point whose chunks and blocks are all valid.
ResumePosition(ladder, chunks, blocks) ==
  Max({p \in ladder : Covered(chunks, blocks, p)} \cup {0})

\* ladder_at_or_below, 0 for none.
LadderAtOrBelow(ladder, p) == Max({q \in ladder : q <= p} \cup {0})

----------------------------------------------------------------------------
Dead == [pc |-> "dead"]
At(pc) == proc.pc = pc

Init == /\ disk = [manifest |-> NewManifest, chunks |-> {}, blocks |-> {},
                   tokens |-> <<>>, state |-> [u \in Units |-> <<>>],
                   payload |-> [u \in Units |-> <<>>]]
        /\ proc = Dead
        /\ env \in Environments /\ kills = 0

\* open_for_build: a sealed archive is refused, a new one gets its manifest, an unsealed
\* one is loaded with its bitmaps; the token stream is opened at its length on disk.
OpenForBuild(corpus, target, cadence) ==
  LET m == disk.manifest IN
  /\ At("dead") /\ ~m.sealed
  /\ disk' = [disk EXCEPT !.manifest.made = TRUE]
  /\ proc' = [pc |-> "resume", corpus |-> corpus, target |-> target, cadence |-> cadence,
              manifest |-> [m EXCEPT !.made = TRUE],
              chunks |-> IF m.made THEN disk.chunks ELSE {},
              blocks |-> IF m.made THEN disk.blocks ELSE {},
              pos |-> 0, at |-> 0, hist |-> <<>>]
  /\ UNCHANGED outside

\* Mutant: the input is not compared with the archived tokens.
SamePrefix_Unread(start) == TRUE
\* read_tokens of the archived prefix equals the input's.
SamePrefix(start) == start <= Len(disk.tokens) /\ Prefix(disk.tokens, start) = Prefix(proc.corpus, start)

Truncated(tokens, start) == Prefix(tokens, start)

\* kvmem_attach_archive: where the executor is restored, never past the manifest's total.
RestorePosition(start) ==
  LadderAtOrBelow(proc.manifest.ladder, Min({start, proc.manifest.total}))

\* The builder finds its resume point, refuses a shorter target or another prefix, restores
\* the executor and drops the tokens after that point.  Rebuilding the index then fails
\* when a unit below the resume point was not restored.
Resume ==
  LET start == ResumePosition(proc.manifest.ladder, proc.chunks, proc.blocks)
      restore == RestorePosition(start)
  IN
  /\ At("resume") /\ UNCHANGED outside
  /\ IF start > proc.target \/ ~SamePrefix(start)
     THEN proc' = Dead /\ UNCHANGED disk
     ELSE /\ disk' = [disk EXCEPT !.tokens = Truncated(@, start)]
          /\ proc' = IF restore < start THEN Dead
                     ELSE [proc EXCEPT !.pc = IF start = proc.target THEN "seal" ELSE "ingest",
                                       !.pos = start, !.at = start,
                                       !.hist = IF start = 0 THEN <<>> ELSE disk.state[start]]

TurnEnd == Min({proc.target, proc.pos + proc.cadence})

\* One unit of a turn: processed, and its raw K and values written at their fixed offset.
IngestUnit ==
  LET hist == Append(proc.hist, proc.corpus[proc.at + 1]) IN
  /\ At("ingest") /\ proc.at < TurnEnd
  /\ disk' = [disk EXCEPT !.payload[Len(hist)] = hist]
  /\ proc' = [proc EXCEPT !.at = @ + 1, !.hist = hist]
  /\ UNCHANGED outside

\* Mutant: the ladder point is listed, and its state is not written.
WriteState_Unwritten ==
  LET p == Len(proc.hist) IN
  /\ At("ingest") /\ proc.at = TurnEnd
  /\ proc' = [proc EXCEPT !.pc = "tokens", !.manifest.ladder = @ \cup {p},
                          !.chunks = @ \cup 1 .. p, !.blocks = @ \cup 1 .. p]
  /\ UNCHANGED <<disk, outside>>
\* The end of a turn: kvmem_archive_persist_through marks what is durable, then
\* write_state renames the ladder state into place and lists it.
WriteState ==
  LET p == Len(proc.hist) IN
  /\ At("ingest") /\ proc.at = TurnEnd
  /\ disk' = [disk EXCEPT !.state[p] = proc.hist]
  /\ proc' = [proc EXCEPT !.pc = "tokens", !.manifest.ladder = @ \cup {p},
                          !.chunks = @ \cup 1 .. p, !.blocks = @ \cup 1 .. p]
  /\ UNCHANGED outside

\* Mutant: the turn is committed without its tokens.
AppendTokens_Dropped ==
  /\ At("tokens")
  /\ proc' = [proc EXCEPT !.pc = "chunks", !.manifest.total = Len(proc.hist)]
  /\ UNCHANGED <<disk, outside>>
\* append_tokens, then checkpoint_metadata sets the totals.
AppendTokens ==
  /\ At("tokens")
  /\ disk' = [disk EXCEPT !.tokens = @ \o SubSeq(proc.corpus, proc.pos + 1, TurnEnd)]
  /\ proc' = [proc EXCEPT !.pc = "chunks", !.manifest.total = Len(proc.hist)]
  /\ UNCHANGED outside

\* Mutant: only the bits this builder set are written.
WriteChunkBits_Own ==
  /\ At("chunks")
  /\ disk' = [disk EXCEPT !.chunks = proc.chunks \ 1 .. proc.pos]
  /\ proc' = [proc EXCEPT !.pc = "blocks"]
  /\ UNCHANGED outside
\* write_bitmaps rewrites each file in place: O_TRUNC, then the bytes.
WriteChunkBits ==
  /\ At("chunks")
  /\ disk' = [disk EXCEPT !.chunks = proc.chunks]
  /\ proc' = [proc EXCEPT !.pc = "blocks"]
  /\ UNCHANGED outside
WriteBlockBits ==
  /\ At("blocks")
  /\ disk' = [disk EXCEPT !.blocks = proc.blocks]
  /\ proc' = [proc EXCEPT !.pc = "manifest"]
  /\ UNCHANGED outside

\* write_manifest: the rename commits the turn, or the seal.
WriteManifest ==
  /\ At("manifest")
  /\ disk' = [disk EXCEPT !.manifest = proc.manifest]
  /\ proc' = IF proc.manifest.sealed THEN Dead
             ELSE [proc EXCEPT !.pos = TurnEnd,
                               !.pc = IF TurnEnd = proc.target THEN "seal" ELSE "ingest"]
  /\ UNCHANGED outside

\* seal refuses a short token stream and units that were never persisted.
Sealable == proc.target <= Len(disk.tokens) /\ Covered(proc.chunks, proc.blocks, proc.target)

\* seal: the checks, the totals, then bitmaps and manifest as in a checkpoint.
Seal ==
  /\ At("seal")
  /\ proc' = IF Sealable THEN [proc EXCEPT !.pc = "chunks", !.manifest.total = proc.target,
                                           !.manifest.sealed = TRUE]
             ELSE Dead
  /\ UNCHANGED <<disk, outside>>

\* SIGKILL between two steps.
Kill ==
  /\ ~At("dead") /\ kills < MaxKills
  /\ proc' = Dead /\ kills' = kills + 1
  /\ UNCHANGED <<disk, env>>

\* SIGKILL inside a bitmap's rewrite: the file keeps the first n bytes of the new one.
KillInBitmap(n) ==
  /\ env.torn /\ kills < MaxKills /\ (At("chunks") \/ At("blocks"))
  /\ disk' = IF At("chunks") THEN [disk EXCEPT !.chunks = proc.chunks \cap 1 .. n]
             ELSE [disk EXCEPT !.blocks = proc.blocks \cap 1 .. n]
  /\ proc' = Dead /\ kills' = kills + 1
  /\ UNCHANGED env

Build == Resume \/ IngestUnit \/ WriteState \/ AppendTokens \/ WriteChunkBits
         \/ WriteBlockBits \/ WriteManifest \/ Seal
Start == \E c \in env.corpora, t \in env.targets, k \in Cadences : OpenForBuild(c, t, k)
Next == Build \/ Start \/ Kill \/ \E n \in 0 .. N - 1 : KillInBitmap(n)

Spec == Init /\ [][Next]_vars

\* A builder that is not killed runs on, and an unfinished build is started again.
FairSpec == Spec /\ WF_vars(Build) /\ WF_vars(Start)

----------------------------------------------------------------------------
(* Properties.                                                             *)

\* Every variable has its type.
TypeOK ==
  /\ disk.manifest.ladder \subseteq Units /\ disk.manifest.total \in 0 .. N
  /\ disk.chunks \subseteq Units /\ disk.blocks \subseteq Units
  /\ Len(disk.tokens) <= N
  /\ \A u \in Units : Len(disk.state[u]) <= N /\ Len(disk.payload[u]) <= N
  /\ proc.pc \in {"dead", "resume", "ingest", "tokens", "chunks", "blocks", "manifest", "seal"}
  /\ kills \in 0 .. MaxKills

\* Everything the archive holds for its first p tokens was made from exactly those tokens.
Intact(p) ==
  /\ p <= Len(disk.tokens)
  /\ disk.state[p] = Prefix(disk.tokens, p)
  /\ \A u \in 1 .. p : disk.payload[u] = Prefix(disk.tokens, u)

DiskResume == ResumePosition(disk.manifest.ladder, disk.chunks, disk.blocks)

\* After a kill anywhere, the point the next builder resumes from has its tokens, its
\* state and its payload on disk, and they belong together (resume_position's comment).
ResumeIntact == (At("dead") /\ ~disk.manifest.sealed /\ DiskResume > 0) => Intact(DiskResume)

\* A sealed archive holds one input, whichever builders made it, and can be attached at
\* any length: the ladder point it starts from has every unit marked valid, and tokens,
\* state and payload there belong together.
SealedIntact ==
  disk.manifest.sealed =>
    /\ disk.manifest.total <= Len(disk.tokens)
    /\ \E c \in env.corpora : IsPrefix(disk.tokens, c)
    /\ \A t \in 1 .. disk.manifest.total :
         LET p == LadderAtOrBelow(disk.manifest.ladder, t) IN
         p > 0 => Covered(disk.chunks, disk.blocks, p) /\ Intact(p)

\* A running builder's executor has processed exactly the input up to where it stands.
BuilderAligned ==
  ~(At("dead") \/ At("resume")) => proc.hist = Prefix(proc.corpus, proc.at)

\* Where a kill falls outside the bitmaps' rewrites, no step and no kill moves the resume
\* point back: a build that died can be resumed where it last committed
\* (checkpoint_metadata's comment).
ProgressKept == [][~env.torn => DiskResume' >= DiskResume]_vars

\* One input and one target: otherwise an archive that holds another prefix, or is longer
\* than the target, is refused for ever.  A torn bitmap can leave a ladder point that the
\* token file no longer reaches.
Steady == Cardinality(env.corpora) = 1 /\ Cardinality(env.targets) = 1 /\ ~env.torn

\* A build that is started again with the same arguments, and whose killings end, is sealed.
EventuallySealed == Steady ~> disk.manifest.sealed
=============================================================================
