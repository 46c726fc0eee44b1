------------------------ MODULE KvMemArchiveProofs --------------------------
(***************************************************************************)
(* Crash consistency of the context archive, for every number of units,    *)
(* every set of inputs, targets and cadences and any number of kills.      *)
(*                                                                         *)
(* The inductive invariant has two layers.  Books relates the builder's    *)
(* copies of manifest and bitmaps to the files and to the step it is at:   *)
(* it says nothing about contents and is enough for ProgressKept.          *)
(* Contents says whose tokens the files hold: while a builder runs, those  *)
(* of its input; after a kill, those of some input.                        *)
(***************************************************************************)
EXTENDS KvMemArchive, SequenceTheorems, FiniteSetTheorems, TLAPS

-----------------------------------------------------------------------------
(* The inductive invariant. *)

\* The tokens of all inputs.
Words == UNION {UNION {ToSet(c) : c \in e.corpora} : e \in Environments}

Manifests == [made : BOOLEAN, ladder : SUBSET Units, total : 0 .. N, sealed : BOOLEAN]
Archives == [manifest : Manifests, chunks : SUBSET Units, blocks : SUBSET Units,
             tokens : Seq(Words), state : [Units -> Seq(Words)], payload : [Units -> Seq(Words)]]
Stages == {"ingest", "tokens", "chunks", "blocks", "manifest", "seal"}
Builders == [pc : Stages \cup {"resume"}, corpus : Seq(Words), target : Units, cadence : Units,
             manifest : Manifests, chunks : SUBSET Units, blocks : SUBSET Units,
             pos : 0 .. N, at : 0 .. N, hist : Seq(Words)]

Types ==
  /\ env \in Environments
  /\ disk \in Archives
  /\ proc = Dead \/ (proc \in Builders /\ proc.corpus \in env.corpora)

\* A builder that has found its resume point.
Running == proc.pc \in Stages

\* A bitmap is set up to some unit.
Segment(bits) == \A u \in bits : 1 .. u \subseteq bits

\* A new archive has nothing; an archive that a builder has open is not sealed, and the
\* builder's copies are ahead of the files, which follow in the order of their writes.
Files ==
  /\ ~disk.manifest.made => /\ At("dead") /\ ~disk.manifest.sealed /\ disk.manifest.ladder = {}
                            /\ disk.chunks = {} /\ disk.blocks = {} /\ disk.tokens = <<>>
  /\ ~At("dead") => /\ ~disk.manifest.sealed /\ proc.manifest.made
                    /\ disk.manifest.ladder \subseteq proc.manifest.ladder
                    /\ disk.chunks \subseteq proc.chunks /\ disk.blocks \subseteq proc.blocks
                    /\ Segment(proc.chunks) /\ Segment(proc.blocks)
  /\ Segment(disk.chunks) /\ Segment(disk.blocks)
  /\ At("resume") => /\ proc.manifest.ladder = disk.manifest.ladder /\ ~proc.manifest.sealed
                     /\ proc.chunks = disk.chunks /\ proc.blocks = disk.blocks
  /\ At("blocks") \/ At("manifest") => disk.chunks = proc.chunks
  /\ At("manifest") => disk.blocks = proc.blocks

\* Where a running builder stands in its turn.
Turn ==
  /\ Running => /\ proc.pos <= proc.at /\ proc.at <= TurnEnd
                /\ \A q \in proc.manifest.ladder :
                     Covered(proc.chunks, proc.blocks, q) => q <= proc.at
  /\ Running /\ ~At("ingest") => /\ proc.at = TurnEnd
                                 /\ Covered(proc.chunks, proc.blocks, proc.at)
  /\ At("seal") => proc.pos = proc.target
  /\ Running /\ proc.manifest.sealed =>
       /\ proc.pc \in {"chunks", "blocks", "manifest"} /\ proc.at = proc.target
       /\ proc.manifest.total = proc.target
  /\ disk.manifest.sealed => Covered(disk.chunks, disk.blocks, disk.manifest.total)

\* Unless a bitmap was torn, every ladder point is covered by the bitmaps.
Whole ==
  ~env.torn =>
    /\ \A q \in disk.manifest.ladder : Covered(disk.chunks, disk.blocks, q)
    /\ ~At("dead") => \A q \in proc.manifest.ladder : Covered(proc.chunks, proc.blocks, q)

\* A ladder state was written after as many tokens as its position says.
Lengths ==
  /\ \A q \in disk.manifest.ladder : Len(disk.state[q]) = q
  /\ Running => /\ Len(proc.hist) = proc.at
                /\ \A q \in proc.manifest.ladder : Len(disk.state[q]) = q

Books == Files /\ Turn /\ Whole /\ Lengths

\* The files hold input c: the token stream, every ladder state, and the payload of every
\* unit below a ladder point that the bitmaps cover.
Holds(c) ==
  /\ Len(disk.tokens) <= N /\ disk.tokens = Prefix(c, Len(disk.tokens))
  /\ \A q \in disk.manifest.ladder :
       /\ disk.state[q] = Prefix(c, q)
       /\ Covered(disk.chunks, disk.blocks, q) =>
            q <= Len(disk.tokens) /\ \A u \in 1 .. q : disk.payload[u] = Prefix(c, u)

\* How far the token stream of a running builder reaches.
Written == IF proc.pc \in {"ingest", "tokens"} THEN proc.pos ELSE proc.at

Contents ==
  /\ disk.manifest.made => \E c \in env.corpora : Holds(c)
  /\ disk.manifest.sealed => disk.manifest.total <= Len(disk.tokens)
  /\ Running => /\ Holds(proc.corpus)
                /\ proc.hist = Prefix(proc.corpus, proc.at)
                /\ disk.tokens = Prefix(proc.corpus, Written)
                /\ \A u \in 1 .. proc.at : disk.payload[u] = Prefix(proc.corpus, u)
                /\ \A q \in proc.manifest.ladder : disk.state[q] = Prefix(proc.corpus, q)

\* A kill inside a bitmap's rewrite meets builders of one input only.
OneInputWhenTorn == \A e \in Environments : e.torn => \A c, d \in e.corpora : c = d
-----------------------------------------------------------------------------
(* Facts about prefixes, extrema and covered units. *)

\* A nonempty set of units has a greatest element: Max returns it.
LEMMA MaxIs ==
  ASSUME NEW S \in SUBSET (0 .. N), 0 \in S
  PROVE  Max(S) \in S /\ \A x \in S : x <= Max(S)
<1> N \in Nat BY ArchiveConfig
<1> DEFINE R == OpToRel(<, Nat)
           gap == {N - x : x \in S}
<1>1. gap \in SUBSET Nat /\ gap # {} OBVIOUS
<1>2. PICK m \in gap : \A n \in gap : m <= n
  <2>1. \A m, n \in Nat : n < m => <<n, m>> \in R BY DEF OpToRel
  <2>2. IsWellFoundedOn(R, Nat) BY NatLessThanWellFounded, Zenon
  <2> HIDE DEF R, gap
  <2>3. PICK m \in gap : \A n \in gap : <<n, m>> \notin R BY <1>1, <2>2, WFMin
  <2>4. \A n \in gap : ~(n < m) BY <1>1, <2>1, <2>3
  <2>5. \A n \in gap : m <= n BY <1>1, <2>4
  <2>6. QED BY <2>5
<1>3. PICK y \in S : m = N - y OBVIOUS
<1>4. \A x \in S : x <= y BY <1>2, <1>3
<1>5. QED BY <1>4 DEF Max

\* Min of two numbers.
LEMMA MinTwo ==
  ASSUME NEW a \in Int, NEW b \in Int PROVE Min({a, b}) = IF a <= b THEN a ELSE b
<1>1. CASE a <= b
  <2>1. \A x \in {a, b} : (\A y \in {a, b} : x <= y) => x = a BY <1>1
  <2>2. \A y \in {a, b} : a <= y BY <1>1
  <2>3. QED BY <1>1, <2>1, <2>2 DEF Min
<1>2. CASE ~(a <= b)
  <2>1. \A x \in {a, b} : (\A y \in {a, b} : x <= y) => x = b BY <1>2
  <2>2. \A y \in {a, b} : b <= y BY <1>2
  <2>3. QED BY <1>2, <2>1, <2>2 DEF Min
<1>3. QED BY <1>1, <1>2

\* The resume point is 0 or a covered ladder point, and no covered one lies beyond it.
LEMMA ResumeIs ==
  ASSUME NEW L \in SUBSET Units, NEW C, NEW B
  PROVE  LET p == ResumePosition(L, C, B) IN
         /\ p \in 0 .. N
         /\ p = 0 \/ (p \in L /\ Covered(C, B, p))
         /\ \A q \in L : Covered(C, B, q) => q <= p
<1> DEFINE S == {p \in L : Covered(C, B, p)} \cup {0}
<1> N \in Nat BY ArchiveConfig
<1>0. \A x \in L : x \in 0 .. N BY DEF Units
<1>1. S \in SUBSET (0 .. N) /\ 0 \in S BY <1>0
<1>2. Max(S) \in S /\ \A x \in S : x <= Max(S) BY <1>1, MaxIs
<1>3. ResumePosition(L, C, B) = Max(S) BY DEF ResumePosition
<1> HIDE DEF S
<1>4. Max(S) \in 0 .. N BY <1>1, <1>2
<1>5. QED BY <1>2, <1>3, <1>4 DEF S

\* The ladder point an attached archive starts from.
LEMMA LadderIs ==
  ASSUME NEW L \in SUBSET Units, NEW t \in 0 .. N
  PROVE  LET p == LadderAtOrBelow(L, t) IN p \in 0 .. t /\ (p = 0 \/ p \in L)
<1> DEFINE S == {q \in L : q <= t} \cup {0}
<1> N \in Nat BY ArchiveConfig
<1>0. \A x \in L : x \in 0 .. N BY DEF Units
<1>1. S \in SUBSET (0 .. N) /\ 0 \in S BY <1>0
<1>2. Max(S) \in S BY <1>1, MaxIs
<1>3. LadderAtOrBelow(L, t) = Max(S) BY DEF LadderAtOrBelow
<1>4. \A x \in S : x \in 0 .. t /\ (x = 0 \/ x \in L) BY ArchiveConfig DEF Units
<1> HIDE DEF S
<1>5. QED BY <1>2, <1>3, <1>4

\* A prefix: its length and its elements; prefixes of prefixes.
LEMMA PrefixIs ==
  ASSUME NEW S, NEW s \in Seq(S), NEW n \in 0 .. Len(s)
  PROVE  /\ Prefix(s, n) \in Seq(S) /\ Len(Prefix(s, n)) = n
         /\ \A i \in 1 .. n : Prefix(s, n)[i] = s[i]
         /\ \A m \in 0 .. n : Prefix(Prefix(s, n), m) = Prefix(s, m)
<1>1. /\ Prefix(s, n) \in Seq(S) /\ Len(Prefix(s, n)) = n
      /\ \A i \in 1 .. n : Prefix(s, n)[i] = s[i]
  BY DEF Prefix
<1>2. ASSUME NEW m \in 0 .. n PROVE Prefix(Prefix(s, n), m) = Prefix(s, m)
  <2>1. /\ Prefix(s, m) \in Seq(S) /\ Len(Prefix(s, m)) = m
        /\ \A i \in 1 .. m : Prefix(s, m)[i] = s[i]
    BY DEF Prefix
  <2> DEFINE p == Prefix(s, n)
  <2> HIDE DEF p
  <2>2. p \in Seq(S) /\ Len(p) = n /\ \A i \in 1 .. n : p[i] = s[i] BY <1>1 DEF p
  <2>3. /\ Prefix(p, m) \in Seq(S) /\ Len(Prefix(p, m)) = m
        /\ \A i \in 1 .. m : Prefix(p, m)[i] = s[i]
    BY <2>2 DEF Prefix
  <2>4. Prefix(p, m) = Prefix(s, m) BY <2>1, <2>3, SeqEqual
  <2>5. QED BY <2>4 DEF p
<1>3. QED BY <1>1, <1>2

\* The next element, or the next elements, extend a prefix.
LEMMA PrefixGrows ==
  ASSUME NEW S, NEW s \in Seq(S), NEW m \in 0 .. Len(s), NEW n \in m .. Len(s)
  PROVE  /\ m < Len(s) => Append(Prefix(s, m), s[m + 1]) = Prefix(s, m + 1)
         /\ Prefix(s, m) \o SubSeq(s, m + 1, n) = Prefix(s, n)
<1> DEFINE p == Prefix(s, m)
<1>1. p \in Seq(S) /\ Len(p) = m /\ \A i \in 1 .. m : p[i] = s[i] BY PrefixIs
<1> HIDE DEF p
<1>2. ASSUME m < Len(s) PROVE Append(p, s[m + 1]) = Prefix(s, m + 1)
  <2> DEFINE t == Append(p, s[m + 1])
             u == Prefix(s, m + 1)
  <2>1. u \in Seq(S) /\ Len(u) = m + 1 /\ \A i \in 1 .. m + 1 : u[i] = s[i]
    BY <1>2, PrefixIs
  <2>2. t \in Seq(S) /\ Len(t) = m + 1 /\ \A i \in 1 .. m + 1 : t[i] = s[i]
    BY <1>1, <1>2
  <2> HIDE DEF t, u
  <2>3. t = u BY <2>1, <2>2, SeqEqual
  <2>4. QED BY <2>3 DEF t, u
<1>3. p \o SubSeq(s, m + 1, n) = Prefix(s, n)
  <2> DEFINE r == SubSeq(s, m + 1, n)
             t == p \o r
             u == Prefix(s, n)
  <2>1. u \in Seq(S) /\ Len(u) = n /\ \A i \in 1 .. n : u[i] = s[i]
    BY PrefixIs
  <2>2. r \in Seq(S) /\ Len(r) = n - m /\ \A i \in 1 .. n - m : r[i] = s[m + i]
    OBVIOUS
  <2> HIDE DEF r, u
  <2>3. /\ t \in Seq(S) /\ Len(t) = Len(p) + Len(r)
        /\ \A i \in 1 .. Len(p) + Len(r) : t[i] = IF i <= Len(p) THEN p[i] ELSE r[i - Len(p)]
    BY <1>1, <2>2, ConcatProperties
  <2>4. Len(t) = n /\ \A i \in 1 .. n : t[i] = s[i] BY <1>1, <2>2, <2>3
  <2> HIDE DEF t
  <2>5. t = u BY <2>1, <2>3, <2>4, SeqEqual
  <2>6. QED BY <2>5 DEF t, u, r
<1>4. QED BY <1>2, <1>3 DEF p

\* An input is a sequence of words of length N.
LEMMA InputIs ==
  ASSUME env \in Environments, NEW c \in env.corpora
  PROVE  c \in Seq(Words) /\ Len(c) = N
<1>1. c \in Seq(ToSet(c)) /\ Len(c) = N BY ArchiveConfig
<1>2. ToSet(c) \subseteq Words BY DEF Words
<1>3. \A i \in 1 .. Len(c) : c[i] \in ToSet(c) BY <1>1
<1>4. QED BY <1>1, <1>2, <1>3
-----------------------------------------------------------------------------
(* What the actions do to the fields. *)

\* The end of a turn lies beyond its start unless the target is reached.
LEMMA TurnEndIs ==
  ASSUME proc \in Builders
  PROVE  /\ TurnEnd = IF proc.target <= proc.pos + proc.cadence
                      THEN proc.target ELSE proc.pos + proc.cadence
         /\ TurnEnd \in 1 .. proc.target /\ TurnEnd \in Units
<1> N \in Nat BY ArchiveConfig
<1>1. proc.target \in Int /\ proc.pos + proc.cadence \in Int BY DEF Builders, Units
<1>2. TurnEnd = IF proc.target <= proc.pos + proc.cadence
                THEN proc.target ELSE proc.pos + proc.cadence
  BY <1>1, MinTwo DEF TurnEnd
<1>3. QED BY <1>2 DEF Builders, Units

\* A live builder has all its fields.
LEMMA Alive ==
  ASSUME Types, ~At("dead") PROVE proc \in Builders /\ proc.corpus \in env.corpora
BY DEF Types, At, Dead

\* open_for_build
LEMMA OpenIs ==
  ASSUME Types, Files,
         NEW c \in env.corpora, NEW t \in env.targets, NEW k \in Cadences, OpenForBuild(c, t, k)
  PROVE  /\ proc' \in Builders /\ disk' \in Archives /\ UNCHANGED <<env, kills>>
         /\ proc'.pc = "resume" /\ proc'.corpus = c
         /\ proc'.manifest.made /\ ~proc'.manifest.sealed /\ ~disk.manifest.sealed
         /\ proc'.manifest.ladder = disk.manifest.ladder
         /\ proc'.chunks = disk.chunks /\ proc'.blocks = disk.blocks
         /\ disk'.manifest.made /\ ~disk'.manifest.sealed
         /\ disk'.manifest.ladder = disk.manifest.ladder
         /\ disk'.manifest.total = disk.manifest.total
         /\ disk'.chunks = disk.chunks /\ disk'.blocks = disk.blocks
         /\ disk'.tokens = disk.tokens /\ disk'.state = disk.state
         /\ disk'.payload = disk.payload
<1> N \in Nat BY ArchiveConfig
<1>1. c \in Seq(Words) BY InputIs DEF Types
<1>2. t \in Units /\ k \in Units BY ArchiveConfig DEF Types
<1>3. /\ disk \in Archives /\ ~disk.manifest.sealed
      /\ disk' = [disk EXCEPT !.manifest.made = TRUE]
      /\ UNCHANGED <<env, kills>>
  BY DEF Types, OpenForBuild, outside
<1>4. /\ disk' \in Archives
      /\ disk'.manifest.made /\ ~disk'.manifest.sealed
      /\ disk'.manifest.ladder = disk.manifest.ladder
      /\ disk'.manifest.total = disk.manifest.total
      /\ disk'.chunks = disk.chunks /\ disk'.blocks = disk.blocks
      /\ disk'.tokens = disk.tokens /\ disk'.state = disk.state
      /\ disk'.payload = disk.payload
  BY <1>3 DEF Archives, Manifests
<1>5. /\ proc' = [pc |-> "resume", corpus |-> c, target |-> t, cadence |-> k,
                  manifest |-> [disk.manifest EXCEPT !.made = TRUE],
                  chunks |-> disk.chunks, blocks |-> disk.blocks,
                  pos |-> 0, at |-> 0, hist |-> <<>>]
  <2>1. CASE disk.manifest.made BY <2>1 DEF OpenForBuild
  <2>2. CASE ~disk.manifest.made BY <2>2 DEF OpenForBuild, Files
  <2>3. QED BY <2>1, <2>2
<1>6. /\ [disk.manifest EXCEPT !.made = TRUE] \in Manifests
      /\ [disk.manifest EXCEPT !.made = TRUE].made
      /\ [disk.manifest EXCEPT !.made = TRUE].ladder = disk.manifest.ladder
      /\ ~[disk.manifest EXCEPT !.made = TRUE].sealed
  BY <1>3 DEF Archives, Manifests
<1>7. proc' \in Builders
  <2>1. <<>> \in Seq(Words) OBVIOUS
  <2>2. disk.chunks \in SUBSET Units /\ disk.blocks \in SUBSET Units BY <1>3 DEF Archives
  <2>3. QED BY <1>1, <1>2, <1>5, <1>6, <2>1, <2>2 DEF Builders
<1>8. QED BY <1>3, <1>4, <1>5, <1>6, <1>7

\* IngestUnit: one unit more in the executor, its payload on disk.
LEMMA IngestIs ==
  ASSUME Types, Books, IngestUnit
  PROVE  /\ proc' \in Builders /\ disk' \in Archives /\ UNCHANGED <<env, kills>>
         /\ proc' = [proc EXCEPT !.at = proc.at + 1,
                                 !.hist = Append(proc.hist, proc.corpus[proc.at + 1])]
         /\ disk' = [disk EXCEPT !.payload =
                       [disk.payload EXCEPT ![proc.at + 1] =
                          Append(proc.hist, proc.corpus[proc.at + 1])]]
         /\ proc.pc = "ingest" /\ proc.at < TurnEnd /\ proc.at + 1 \in Units
<1> N \in Nat BY ArchiveConfig
<1> DEFINE x == proc.corpus[proc.at + 1]
           h == Append(proc.hist, x)
<1>1. proc.pc = "ingest" /\ proc.at < TurnEnd BY DEF IngestUnit, At
<1>2. proc \in Builders /\ proc.corpus \in env.corpora BY <1>1, Alive DEF At
<1>3. /\ proc.corpus \in Seq(Words) /\ Len(proc.corpus) = N BY <1>2, InputIs DEF Types
<1>4. TurnEnd \in Units BY <1>2, TurnEndIs
<1>5. proc.at + 1 \in Units BY <1>1, <1>2, <1>4 DEF Units, Builders
<1>6. x \in Words BY <1>3, <1>5 DEF Units
<1>7. /\ proc.hist \in Seq(Words) /\ Len(proc.hist) = proc.at
  BY <1>1, <1>2 DEF Builders, Books, Lengths, Running, Stages
<1>8. h \in Seq(Words) /\ Len(h) = proc.at + 1 BY <1>6, <1>7
<1>9. /\ proc' = [proc EXCEPT !.at = proc.at + 1, !.hist = h]
      /\ disk' = [disk EXCEPT !.payload = [disk.payload EXCEPT ![proc.at + 1] = h]]
      /\ UNCHANGED <<env, kills>>
  BY <1>8 DEF IngestUnit, outside
<1> HIDE DEF x, h
<1>10. proc' \in Builders
  <2>1. proc.at + 1 \in 0 .. N BY <1>5 DEF Units
  <2>2. QED BY <2>1, <1>2, <1>8, <1>9 DEF Builders
<1>11. disk' \in Archives BY <1>5, <1>8, <1>9 DEF Archives, Types
<1>12. QED BY <1>1, <1>5, <1>9, <1>10, <1>11 DEF h, x

\* The end of a turn: the ladder state is in place and listed, the units marked.
LEMMA WriteStateIs ==
  ASSUME Types, Books, WriteState
  PROVE  /\ proc' \in Builders /\ disk' \in Archives /\ UNCHANGED <<env, kills>>
         /\ proc.pc = "ingest" /\ proc.at = TurnEnd /\ proc.at \in Units
         /\ proc'.pc = "tokens" /\ proc'.manifest.ladder = proc.manifest.ladder \cup {proc.at}
         /\ proc'.manifest.made = proc.manifest.made
         /\ proc'.manifest.sealed = proc.manifest.sealed
         /\ proc'.chunks = proc.chunks \cup 1 .. proc.at
         /\ proc'.blocks = proc.blocks \cup 1 .. proc.at
         /\ proc'.corpus = proc.corpus /\ proc'.target = proc.target
         /\ proc'.cadence = proc.cadence /\ proc'.pos = proc.pos /\ proc'.at = proc.at
         /\ proc'.hist = proc.hist
         /\ disk' = [disk EXCEPT !.state = [disk.state EXCEPT ![proc.at] = proc.hist]]
<1> N \in Nat BY ArchiveConfig
<1>1. proc.pc = "ingest" /\ proc.at = TurnEnd BY DEF WriteState, At
<1>2. proc \in Builders /\ proc.corpus \in env.corpora BY <1>1, Alive DEF At
<1>3. proc.at \in Units BY <1>1, <1>2, TurnEndIs
<1>4. /\ proc.hist \in Seq(Words) /\ Len(proc.hist) = proc.at
  BY <1>1, <1>2 DEF Builders, Books, Lengths, Running, Stages
<1> DEFINE m == [proc.manifest EXCEPT !.ladder = proc.manifest.ladder \cup {proc.at}]
<1>5. /\ proc' = [proc EXCEPT !.pc = "tokens", !.manifest = m,
                              !.chunks = proc.chunks \cup 1 .. proc.at,
                              !.blocks = proc.blocks \cup 1 .. proc.at]
      /\ disk' = [disk EXCEPT !.state = [disk.state EXCEPT ![proc.at] = proc.hist]]
      /\ UNCHANGED <<env, kills>>
  BY <1>4 DEF WriteState, outside
<1>6. /\ m \in Manifests /\ m.ladder = proc.manifest.ladder \cup {proc.at}
      /\ m.made = proc.manifest.made /\ m.sealed = proc.manifest.sealed
  BY <1>2, <1>3 DEF Builders, Manifests
<1> HIDE DEF m
<1>7. 1 .. proc.at \subseteq Units BY <1>3 DEF Units
<1>8. /\ proc.chunks \cup 1 .. proc.at \in SUBSET Units
      /\ proc.blocks \cup 1 .. proc.at \in SUBSET Units
  BY <1>2, <1>7 DEF Builders
<1>9. /\ proc' \in Builders
      /\ proc'.pc = "tokens" /\ proc'.manifest = m
      /\ proc'.chunks = proc.chunks \cup 1 .. proc.at
      /\ proc'.blocks = proc.blocks \cup 1 .. proc.at
      /\ proc'.corpus = proc.corpus /\ proc'.target = proc.target
      /\ proc'.cadence = proc.cadence /\ proc'.pos = proc.pos /\ proc'.at = proc.at
      /\ proc'.hist = proc.hist
  BY <1>2, <1>5, <1>6, <1>8 DEF Builders, Stages
<1>10. disk' \in Archives BY <1>3, <1>4, <1>5 DEF Archives, Types
<1>11. QED BY <1>1, <1>3, <1>5, <1>6, <1>9, <1>10

\* append_tokens and the totals of checkpoint_metadata.
LEMMA AppendTokensIs ==
  ASSUME Types, Books, AppendTokens
  PROVE  /\ proc' \in Builders /\ disk' \in Archives /\ UNCHANGED <<env, kills>>
         /\ proc.pc = "tokens" /\ proc.at = TurnEnd
         /\ proc'.pc = "chunks" /\ proc'.manifest.ladder = proc.manifest.ladder
         /\ proc'.manifest.made = proc.manifest.made
         /\ proc'.manifest.sealed = proc.manifest.sealed
         /\ proc'.chunks = proc.chunks /\ proc'.blocks = proc.blocks
         /\ proc'.corpus = proc.corpus /\ proc'.target = proc.target
         /\ proc'.cadence = proc.cadence /\ proc'.pos = proc.pos /\ proc'.at = proc.at
         /\ proc'.hist = proc.hist
         /\ disk' = [disk EXCEPT !.tokens =
                       disk.tokens \o SubSeq(proc.corpus, proc.pos + 1, proc.at)]
<1> N \in Nat BY ArchiveConfig
<1>1. proc.pc = "tokens" BY DEF AppendTokens, At
<1>2. proc \in Builders /\ proc.corpus \in env.corpora BY <1>1, Alive DEF At
<1>3. /\ proc.at = TurnEnd /\ Len(proc.hist) = proc.at
  BY <1>1 DEF Books, Turn, Lengths, Running, Stages, At
<1>4. proc.at \in Units BY <1>2, <1>3, TurnEndIs
<1> DEFINE m == [proc.manifest EXCEPT !.total = proc.at]
           w == disk.tokens \o SubSeq(proc.corpus, proc.pos + 1, proc.at)
<1>5. /\ proc' = [proc EXCEPT !.pc = "chunks", !.manifest = m]
      /\ disk' = [disk EXCEPT !.tokens = w]
      /\ UNCHANGED <<env, kills>>
  BY <1>3 DEF AppendTokens, outside
<1>6. /\ m \in Manifests /\ m.ladder = proc.manifest.ladder
      /\ m.made = proc.manifest.made /\ m.sealed = proc.manifest.sealed
  BY <1>2, <1>4 DEF Builders, Manifests, Units
<1>7. w \in Seq(Words)
  <2>1. proc.corpus \in Seq(Words) /\ Len(proc.corpus) = N BY <1>2, InputIs DEF Types
  <2>2. proc.pos + 1 \in 1 .. N + 1 /\ proc.at \in 0 .. N BY <1>2 DEF Builders
  <2>3. SubSeq(proc.corpus, proc.pos + 1, proc.at) \in Seq(Words) BY <2>1, <2>2
  <2>4. disk.tokens \in Seq(Words) BY DEF Types, Archives
  <2>5. QED BY <2>3, <2>4, ConcatProperties
<1> HIDE DEF m, w
<1>8. /\ proc' \in Builders
      /\ proc'.pc = "chunks" /\ proc'.manifest = m
      /\ proc'.chunks = proc.chunks /\ proc'.blocks = proc.blocks
      /\ proc'.corpus = proc.corpus /\ proc'.target = proc.target
      /\ proc'.cadence = proc.cadence /\ proc'.pos = proc.pos /\ proc'.at = proc.at
      /\ proc'.hist = proc.hist
  BY <1>2, <1>5, <1>6 DEF Builders, Stages
<1>9. disk' \in Archives BY <1>5, <1>7 DEF Archives, Types
<1>10. QED BY <1>1, <1>3, <1>5, <1>6, <1>8, <1>9 DEF w

\* write_bitmaps, one file after the other.
LEMMA WriteBitsIs ==
  ASSUME Types, WriteChunkBits \/ WriteBlockBits
  PROVE  /\ proc \in Builders /\ proc' \in Builders /\ disk' \in Archives
         /\ UNCHANGED <<env, kills>>
         /\ \/ /\ proc.pc = "chunks" /\ proc' = [proc EXCEPT !.pc = "blocks"]
               /\ disk' = [disk EXCEPT !.chunks = proc.chunks]
            \/ /\ proc.pc = "blocks" /\ proc' = [proc EXCEPT !.pc = "manifest"]
               /\ disk' = [disk EXCEPT !.blocks = proc.blocks]
<1>1. proc \in Builders BY Alive DEF At, WriteChunkBits, WriteBlockBits
<1>2. CASE WriteChunkBits
  BY <1>1, <1>2 DEF WriteChunkBits, At, outside, Types, Builders, Archives, Stages
<1>3. CASE WriteBlockBits
  BY <1>1, <1>3 DEF WriteBlockBits, At, outside, Types, Builders, Archives, Stages
<1>4. QED BY <1>2, <1>3

\* write_manifest, of a turn or of the seal.
LEMMA WriteManifestIs ==
  ASSUME Types, WriteManifest
  PROVE  /\ proc \in Builders /\ disk' \in Archives /\ UNCHANGED <<env, kills>>
         /\ proc.pc = "manifest"
         /\ disk' = [disk EXCEPT !.manifest = proc.manifest]
         /\ \/ proc.manifest.sealed /\ proc' = Dead
            \/ /\ ~proc.manifest.sealed /\ proc' \in Builders
               /\ proc' = [proc EXCEPT !.pos = TurnEnd,
                             !.pc = IF TurnEnd = proc.target THEN "seal" ELSE "ingest"]
<1> N \in Nat BY ArchiveConfig
<1>1. proc.pc = "manifest" BY DEF WriteManifest, At
<1>2. proc \in Builders BY <1>1, Alive DEF At
<1>3. disk' = [disk EXCEPT !.manifest = proc.manifest] /\ UNCHANGED <<env, kills>>
  BY DEF WriteManifest, outside
<1>4. disk' \in Archives BY <1>2, <1>3 DEF Types, Archives, Builders
<1>5. CASE proc.manifest.sealed BY <1>1, <1>2, <1>3, <1>4, <1>5 DEF WriteManifest
<1>6. CASE ~proc.manifest.sealed
  <2>1. proc' = [proc EXCEPT !.pos = TurnEnd,
                   !.pc = IF TurnEnd = proc.target THEN "seal" ELSE "ingest"]
    BY <1>6 DEF WriteManifest
  <2>2. TurnEnd \in 0 .. N BY <1>2, TurnEndIs DEF Units
  <2>3. proc' \in Builders BY <1>2, <2>1, <2>2 DEF Builders, Stages
  <2>4. QED BY <1>1, <1>2, <1>3, <1>4, <1>6, <2>1, <2>3
<1>7. QED BY <1>5, <1>6

\* seal: the checks, then the totals and the mark in memory.
LEMMA SealIs ==
  ASSUME Types, Seal
  PROVE  /\ proc \in Builders /\ disk' = disk /\ UNCHANGED <<env, kills>> /\ proc.pc = "seal"
         /\ \/ proc' = Dead
            \/ /\ proc' \in Builders
               /\ proc'.pc = "chunks" /\ proc'.manifest.ladder = proc.manifest.ladder
               /\ proc'.manifest.made = proc.manifest.made
               /\ proc'.manifest.total = proc.target /\ proc'.manifest.sealed
               /\ proc'.chunks = proc.chunks /\ proc'.blocks = proc.blocks
               /\ proc'.corpus = proc.corpus /\ proc'.target = proc.target
               /\ proc'.cadence = proc.cadence /\ proc'.pos = proc.pos /\ proc'.at = proc.at
               /\ proc'.hist = proc.hist
<1> N \in Nat BY ArchiveConfig
<1>1. proc.pc = "seal" BY DEF Seal, At
<1>2. proc \in Builders BY <1>1, Alive DEF At
<1> DEFINE m == [proc.manifest EXCEPT !.total = proc.target, !.sealed = TRUE]
<1>3. /\ disk' = disk /\ UNCHANGED <<env, kills>>
      /\ proc' = Dead \/ proc' = [proc EXCEPT !.pc = "chunks", !.manifest = m]
  BY DEF Seal, outside
<1>4. /\ m \in Manifests /\ m.ladder = proc.manifest.ladder /\ m.made = proc.manifest.made
      /\ m.total = proc.target /\ m.sealed
  <2>1. proc.manifest \in Manifests /\ proc.target \in 0 .. N BY <1>2 DEF Builders, Units
  <2>2. m \in Manifests BY <2>1 DEF Manifests
  <2>3. m.ladder = proc.manifest.ladder /\ m.total = proc.target BY <2>1 DEF Manifests
  <2>4. m.made = proc.manifest.made BY <2>1, Zenon DEF Manifests
  <2>5. m.sealed BY <2>1 DEF Manifests
  <2>6. QED BY <2>2, <2>3, <2>4, <2>5
<1> HIDE DEF m
<1>5. CASE proc' = [proc EXCEPT !.pc = "chunks", !.manifest = m]
  BY <1>1, <1>2, <1>3, <1>4, <1>5 DEF Builders, Stages
<1>6. QED BY <1>1, <1>2, <1>3, <1>5

\* The resume point of a builder that has just loaded the archive.
ResumePoint == ResumePosition(proc.manifest.ladder, proc.chunks, proc.blocks)

\* The builder refuses, fails after the truncation, or stands at its resume point.
LEMMA ResumeActionIs ==
  ASSUME Types, Books, Resume
  PROVE  /\ proc \in Builders /\ disk' \in Archives /\ UNCHANGED <<env, kills>>
         /\ proc.pc = "resume" /\ ResumePoint \in 0 .. N
         /\ \/ proc' = Dead /\ disk' = disk
            \/ /\ ResumePoint <= proc.target /\ ResumePoint <= Len(disk.tokens)
               /\ Prefix(disk.tokens, ResumePoint) = Prefix(proc.corpus, ResumePoint)
               /\ disk' = [disk EXCEPT !.tokens = Prefix(disk.tokens, ResumePoint)]
               /\ \/ proc' = Dead
                  \/ /\ proc' \in Builders
                     /\ proc' = [proc EXCEPT !.pc = IF ResumePoint = proc.target THEN "seal" ELSE "ingest",
                                   !.pos = ResumePoint, !.at = ResumePoint,
                                   !.hist = IF ResumePoint = 0 THEN <<>> ELSE disk.state[ResumePoint]]
<1> N \in Nat BY ArchiveConfig
<1>1. proc.pc = "resume" BY DEF Resume, At
<1>2. proc \in Builders BY <1>1, Alive DEF At
<1>3. UNCHANGED <<env, kills>> BY DEF Resume, outside
<1>4. ResumePoint \in 0 .. N
  <2>1. proc.manifest.ladder \in SUBSET Units BY <1>2 DEF Builders, Manifests
  <2>2. QED BY <2>1, ResumeIs DEF ResumePoint
<1>5. disk \in Archives BY DEF Types
<1>6. CASE ResumePoint > proc.target \/ ~SamePrefix(ResumePoint)
  BY <1>1, <1>2, <1>3, <1>4, <1>5, <1>6 DEF Resume, ResumePoint
<1>7. CASE ~(ResumePoint > proc.target \/ ~SamePrefix(ResumePoint))
  <2>1. /\ ResumePoint <= proc.target /\ ResumePoint <= Len(disk.tokens)
        /\ Prefix(disk.tokens, ResumePoint) = Prefix(proc.corpus, ResumePoint)
    BY <1>2, <1>4, <1>7 DEF SamePrefix, Builders, Units
  <2>2. disk' = [disk EXCEPT !.tokens = Prefix(disk.tokens, ResumePoint)]
    BY <1>7 DEF Resume, ResumePoint, Truncated
  <2>3. disk' \in Archives
    <3>1. disk.tokens \in Seq(Words) BY <1>5 DEF Archives
    <3>2. Prefix(disk.tokens, ResumePoint) \in Seq(Words) BY <1>4, <2>1, <3>1, PrefixIs
    <3>3. QED BY <1>5, <2>2, <3>2 DEF Archives
  <2> DEFINE h == IF ResumePoint = 0 THEN <<>> ELSE disk.state[ResumePoint]
             go == [proc EXCEPT !.pc = IF ResumePoint = proc.target THEN "seal" ELSE "ingest",
                                !.pos = ResumePoint, !.at = ResumePoint, !.hist = h]
  <2>4. proc' = Dead \/ proc' = go BY <1>7 DEF Resume, ResumePoint
  <2>5. h \in Seq(Words) BY <1>4, <1>5 DEF Archives, Units
  <2>6. go \in Builders
    <3> HIDE DEF h
    <3>1. QED BY <1>2, <1>4, <2>5 DEF Builders, Stages
  <2>7. QED BY <1>1, <1>2, <1>3, <1>4, <2>1, <2>2, <2>3, <2>4, <2>6
<1>8. QED BY <1>6, <1>7

-----------------------------------------------------------------------------
(* The files and the builder's books stay in step. *)

\* A builder that ends leaves the files as they are, or with a shorter token stream.
LEMMA EndBooks ==
  ASSUME Types, Books, proc' = Dead, env' = env, disk' \in Archives,
         disk'.manifest = disk.manifest, disk'.chunks = disk.chunks,
         disk'.blocks = disk.blocks, disk'.state = disk.state,
         disk.manifest.made \/ disk'.tokens = disk.tokens
  PROVE  Types' /\ Books'
<1>1. Types' BY DEF Types
<1>2. At("dead")' /\ ~Running' /\ ~At("resume")' /\ ~At("blocks")' /\ ~At("manifest")' /\ ~At("seal")'
  BY DEF At, Dead, Running, Stages
<1>3. Files' BY <1>2 DEF Books, Files, Segment
<1>4. Turn' BY <1>2 DEF Books, Turn
<1>5. Whole' BY <1>2 DEF Books, Whole
<1>6. Lengths' BY <1>2 DEF Books, Lengths
<1>7. QED BY <1>1, <1>3, <1>4, <1>5, <1>6 DEF Books

LEMMA OpenBooks ==
  ASSUME Types, Books,
         NEW c \in env.corpora, NEW t \in env.targets, NEW k \in Cadences, OpenForBuild(c, t, k)
  PROVE  Types' /\ Books'
<1>1. /\ proc' \in Builders /\ disk' \in Archives /\ UNCHANGED <<env, kills>>
      /\ proc'.pc = "resume" /\ proc'.corpus = c
      /\ proc'.manifest.made /\ ~proc'.manifest.sealed /\ ~disk.manifest.sealed
      /\ proc'.manifest.ladder = disk.manifest.ladder
      /\ proc'.chunks = disk.chunks /\ proc'.blocks = disk.blocks
      /\ disk'.manifest.made /\ ~disk'.manifest.sealed
      /\ disk'.manifest.ladder = disk.manifest.ladder
      /\ disk'.chunks = disk.chunks /\ disk'.blocks = disk.blocks
      /\ disk'.state = disk.state
  BY OpenIs DEF Books
<1>2. Types' BY <1>1 DEF Types
<1>3. At("resume")' /\ ~At("dead")' /\ ~Running' /\ ~At("blocks")' /\ ~At("manifest")' /\ ~At("seal")'
  BY <1>1 DEF At, Running, Stages
<1>4. Files' BY <1>1, <1>3 DEF Books, Files, Segment
<1>5. Turn' BY <1>1, <1>3 DEF Books, Turn
<1>6. Whole' BY <1>1, <1>3 DEF Books, Whole
<1>7. Lengths' BY <1>1, <1>3 DEF Books, Lengths
<1>8. QED BY <1>2, <1>4, <1>5, <1>6, <1>7 DEF Books

LEMMA ResumeBooks ==
  ASSUME Types, Books, Resume PROVE Types' /\ Books'
<1> N \in Nat BY ArchiveConfig
<1>1. /\ proc \in Builders /\ disk' \in Archives /\ UNCHANGED <<env, kills>>
      /\ proc.pc = "resume" /\ ResumePoint \in 0 .. N
  BY ResumeActionIs
<1>2. disk.manifest.made /\ ~disk.manifest.sealed BY <1>1 DEF Books, Files, At
<1>3. ASSUME proc' = Dead, disk' = disk PROVE Types' /\ Books'
  BY <1>1, <1>3, EndBooks
<1>4. ASSUME proc' = Dead, disk' = [disk EXCEPT !.tokens = Prefix(disk.tokens, ResumePoint)]
      PROVE  Types' /\ Books'
  <2>1. /\ disk'.manifest = disk.manifest /\ disk'.chunks = disk.chunks
        /\ disk'.blocks = disk.blocks /\ disk'.state = disk.state
    BY <1>4 DEF Types, Archives
  <2>2. QED BY <1>1, <1>2, <1>4, <2>1, EndBooks
<1>5. ASSUME /\ ResumePoint <= proc.target
             /\ disk' = [disk EXCEPT !.tokens = Prefix(disk.tokens, ResumePoint)]
             /\ proc' \in Builders
             /\ proc' = [proc EXCEPT !.pc = IF ResumePoint = proc.target THEN "seal" ELSE "ingest",
                                     !.pos = ResumePoint, !.at = ResumePoint,
                                     !.hist = IF ResumePoint = 0 THEN <<>> ELSE disk.state[ResumePoint]]
      PROVE  Types' /\ Books'
  <2>1. /\ disk'.manifest = disk.manifest /\ disk'.chunks = disk.chunks
        /\ disk'.blocks = disk.blocks /\ disk'.state = disk.state
    BY <1>5 DEF Types, Archives
  <2>2. /\ proc'.pc = IF ResumePoint = proc.target THEN "seal" ELSE "ingest"
        /\ proc'.pos = ResumePoint /\ proc'.at = ResumePoint
        /\ proc'.hist = (IF ResumePoint = 0 THEN <<>> ELSE disk.state[ResumePoint])
        /\ proc'.manifest = proc.manifest /\ proc'.chunks = proc.chunks
        /\ proc'.blocks = proc.blocks /\ proc'.target = proc.target
        /\ proc'.cadence = proc.cadence /\ proc'.corpus = proc.corpus
    BY <1>1, <1>5 DEF Builders
  <2>3. Types' BY <1>1, <1>5, <2>2, Alive DEF Types, At
  <2>4. /\ ~At("dead")' /\ ~At("resume")' /\ ~At("blocks")' /\ ~At("manifest")' /\ Running'
        /\ At("ingest")' \/ At("seal")'
        /\ At("seal")' => ResumePoint = proc.target
    BY <2>2 DEF At, Running, Stages
  <2>5. /\ proc.manifest.ladder = disk.manifest.ladder /\ ~proc.manifest.sealed
        /\ proc.manifest.made
        /\ proc.chunks = disk.chunks /\ proc.blocks = disk.blocks
    BY <1>1 DEF Books, Files, At
  <2>6. /\ ResumePoint = 0 \/ (ResumePoint \in proc.manifest.ladder
                          /\ Covered(proc.chunks, proc.blocks, ResumePoint))
        /\ \A q \in proc.manifest.ladder : Covered(proc.chunks, proc.blocks, q) => q <= ResumePoint
    <3>1. proc.manifest.ladder \in SUBSET Units BY <1>1 DEF Builders, Manifests
    <3>2. QED BY <3>1, ResumeIs DEF ResumePoint
  <2>7. Files' BY <1>2, <2>1, <2>2, <2>4, <2>5 DEF Books, Files, Segment
  <2>8. TurnEnd' = (IF proc.target <= ResumePoint + proc.cadence THEN proc.target
                    ELSE ResumePoint + proc.cadence)
    <3>1. proc.target \in Int /\ ResumePoint + proc.cadence \in Int BY <1>1 DEF Builders, Units
    <3>2. TurnEnd' = Min({proc.target, ResumePoint + proc.cadence}) BY <2>2 DEF TurnEnd
    <3>3. QED BY <3>1, <3>2, MinTwo
  <2>9. ResumePoint <= TurnEnd' /\ (ResumePoint = proc.target => TurnEnd' = ResumePoint)
    <3>1. proc.target \in Nat /\ proc.cadence \in Nat /\ ResumePoint \in Nat
      BY <1>1 DEF Builders, Units
    <3>2. QED BY <1>5, <2>8, <3>1
  <2>10. Turn'
    <3>1. proc'.pos <= proc'.at /\ proc'.at <= TurnEnd' BY <1>1, <2>2, <2>9
    <3>2. \A q \in proc'.manifest.ladder : Covered(proc'.chunks, proc'.blocks, q) => q <= proc'.at
      BY <2>2, <2>6
    <3>3. Running' /\ ~At("ingest")' => proc'.at = TurnEnd' BY <2>2, <2>4, <2>9
    <3>4. ~At("ingest")' => proc'.pos = proc'.target /\ Covered(proc'.chunks, proc'.blocks, proc'.at)
      <4>1. ResumePoint # 0 \/ ~At("seal")' BY <1>1, <2>4 DEF Builders, Units
      <4>2. QED BY <2>2, <2>4, <2>6, <4>1
    <3>5. ~proc'.manifest.sealed /\ ~disk'.manifest.sealed BY <1>2, <2>1, <2>2, <2>5
    <3>6. QED BY <2>4, <3>1, <3>2, <3>3, <3>4, <3>5 DEF Turn, At
  <2>11. Whole' BY <1>1, <2>1, <2>2, <2>5 DEF Books, Whole
  <2>12. Lengths'
    <3>1. \A q \in disk.manifest.ladder : Len(disk.state[q]) = q BY DEF Books, Lengths
    <3>2. Len(proc'.hist) = proc'.at BY <2>2, <2>5, <2>6, <3>1
    <3>3. QED BY <2>1, <2>2, <2>5, <3>1, <3>2 DEF Lengths
  <2>13. QED BY <2>3, <2>7, <2>10, <2>11, <2>12 DEF Books
<1>6. QED BY <1>3, <1>4, <1>5, ResumeActionIs

LEMMA IngestBooks ==
  ASSUME Types, Books, IngestUnit PROVE Types' /\ Books'
<1> N \in Nat BY ArchiveConfig
<1>1. /\ proc' \in Builders /\ disk' \in Archives /\ UNCHANGED <<env, kills>>
      /\ proc' = [proc EXCEPT !.at = proc.at + 1,
                              !.hist = Append(proc.hist, proc.corpus[proc.at + 1])]
      /\ disk' = [disk EXCEPT !.payload =
                    [disk.payload EXCEPT ![proc.at + 1] =
                       Append(proc.hist, proc.corpus[proc.at + 1])]]
      /\ proc.pc = "ingest" /\ proc.at < TurnEnd
  BY IngestIs
<1>2. proc \in Builders /\ proc.corpus \in env.corpora BY <1>1, Alive DEF At
<1>3. /\ disk'.manifest = disk.manifest /\ disk'.chunks = disk.chunks
      /\ disk'.blocks = disk.blocks /\ disk'.state = disk.state
      /\ disk'.tokens = disk.tokens
  BY <1>1 DEF Types, Archives
<1>4. /\ proc'.pc = "ingest" /\ proc'.at = proc.at + 1
      /\ proc'.manifest = proc.manifest /\ proc'.chunks = proc.chunks
      /\ proc'.blocks = proc.blocks /\ proc'.target = proc.target /\ proc'.pos = proc.pos
      /\ proc'.cadence = proc.cadence /\ proc'.corpus = proc.corpus
  BY <1>1, <1>2 DEF Builders
<1>5. Len(proc'.hist) = proc'.at
  <2>1. Len(proc.hist) = proc.at /\ proc.hist \in Seq(Words)
    BY <1>1, <1>2 DEF Books, Lengths, Running, Stages, Builders
  <2>2. proc'.hist = Append(proc.hist, proc.corpus[proc.at + 1]) BY <1>1, <1>2 DEF Builders
  <2>3. QED BY <1>4, <2>1, <2>2, AppendProperties
<1>6. TurnEnd' = TurnEnd /\ TurnEnd \in Int
  BY <1>2, <1>4, TurnEndIs DEF TurnEnd, Units
<1>7. Types' BY <1>1, <1>2, <1>4 DEF Types
<1>8. /\ Running /\ Running' /\ At("ingest") /\ At("ingest")' /\ ~At("dead") /\ ~At("dead")'
      /\ ~At("resume")' /\ ~At("blocks")' /\ ~At("manifest")' /\ ~At("seal")'
  BY <1>1, <1>4 DEF Running, Stages, At
<1>9. Files' BY <1>3, <1>4, <1>8 DEF Books, Files, Segment
<1>10. Turn'
  <2>1. proc.at \in Int /\ proc.pos \in Int /\ proc.manifest.ladder \in SUBSET Int
    BY <1>2 DEF Builders, Manifests, Units
  <2>2. proc'.pos <= proc'.at /\ proc'.at <= TurnEnd'
    BY <1>1, <1>4, <1>6, <1>8, <2>1 DEF Books, Turn
  <2>3. \A q \in proc'.manifest.ladder : Covered(proc'.chunks, proc'.blocks, q) => q <= proc'.at
    BY <1>4, <1>8, <2>1 DEF Books, Turn
  <2>4. ~proc'.manifest.sealed /\ ~disk'.manifest.sealed
    BY <1>1, <1>3, <1>4, <1>8 DEF Books, Turn, Files
  <2>5. QED BY <1>8, <2>2, <2>3, <2>4 DEF Turn
<1>11. Whole' BY <1>1, <1>3, <1>4, <1>8 DEF Books, Whole
<1>12. Lengths' BY <1>3, <1>4, <1>5, <1>8 DEF Books, Lengths
<1>13. QED BY <1>7, <1>9, <1>10, <1>11, <1>12 DEF Books

\* Marking the units up to p covers no ladder point beyond p that was not covered.
LEMMA Marking ==
  ASSUME NEW C, NEW B, Segment(C), Segment(B), NEW p \in Nat, NEW q \in Nat, q > p,
         Covered(C \cup 1 .. p, B \cup 1 .. p, q)
  PROVE  Covered(C, B, q)
<1>1. q \in 1 .. q BY DEF Covered
<1>2. q \in C /\ q \in B BY <1>1 DEF Covered
<1>3. QED BY <1>2 DEF Segment, Covered

\* The points a larger bitmap covers.
LEMMA MoreCovered ==
  ASSUME NEW C, NEW B, NEW D, NEW E, C \subseteq D, B \subseteq E, NEW q, Covered(C, B, q)
  PROVE  Covered(D, E, q)
BY DEF Covered

LEMMA WriteStateBooks ==
  ASSUME Types, Books, WriteState PROVE Types' /\ Books'
<1> N \in Nat BY ArchiveConfig
<1>1. /\ proc' \in Builders /\ disk' \in Archives /\ UNCHANGED <<env, kills>>
      /\ proc.pc = "ingest" /\ proc.at = TurnEnd /\ proc.at \in Units
      /\ proc'.pc = "tokens" /\ proc'.manifest.ladder = proc.manifest.ladder \cup {proc.at}
      /\ proc'.manifest.made = proc.manifest.made
      /\ proc'.manifest.sealed = proc.manifest.sealed
      /\ proc'.chunks = proc.chunks \cup 1 .. proc.at
      /\ proc'.blocks = proc.blocks \cup 1 .. proc.at
      /\ proc'.corpus = proc.corpus /\ proc'.target = proc.target
      /\ proc'.cadence = proc.cadence /\ proc'.pos = proc.pos /\ proc'.at = proc.at
      /\ proc'.hist = proc.hist
      /\ disk' = [disk EXCEPT !.state = [disk.state EXCEPT ![proc.at] = proc.hist]]
  BY WriteStateIs
<1>2. proc \in Builders /\ proc.corpus \in env.corpora BY <1>1, Alive DEF At
<1>3. /\ disk'.manifest = disk.manifest /\ disk'.chunks = disk.chunks
      /\ disk'.blocks = disk.blocks /\ disk'.tokens = disk.tokens
      /\ \A q \in Units : disk'.state[q] = IF q = proc.at THEN proc.hist ELSE disk.state[q]
  BY <1>1 DEF Types, Archives
<1>4. TurnEnd' = TurnEnd BY <1>1 DEF TurnEnd
<1>5. Types' BY <1>1, <1>2 DEF Types
<1>6. /\ Running /\ Running' /\ At("ingest") /\ ~At("dead") /\ ~At("dead")'
      /\ ~At("resume")' /\ ~At("blocks")' /\ ~At("manifest")' /\ ~At("seal")'
  BY <1>1 DEF Running, Stages, At
<1>7. Segment(proc.chunks) /\ Segment(proc.blocks) BY <1>6 DEF Books, Files
<1>8. Segment(proc'.chunks) /\ Segment(proc'.blocks)
  <2>1. Segment(1 .. proc.at) BY <1>1 DEF Segment, Units
  <2>2. QED BY <1>1, <1>7, <2>1 DEF Segment
<1>9. Files' BY <1>1, <1>3, <1>6, <1>8 DEF Books, Files, Segment
<1>10. Turn'
  <2>1. ASSUME NEW q \in proc'.manifest.ladder, Covered(proc'.chunks, proc'.blocks, q)
        PROVE  q <= proc.at
    <3>1. q \in Nat /\ proc.at \in Nat BY <1>1 DEF Builders, Manifests, Units
    <3>2. CASE q > proc.at
      <4>1. Covered(proc.chunks, proc.blocks, q) BY <1>1, <1>7, <2>1, <3>1, <3>2, Marking
      <4>2. q \in proc.manifest.ladder BY <1>1, <3>1, <3>2
      <4>3. QED BY <1>6, <4>1, <4>2 DEF Books, Turn
    <3>3. QED BY <3>1, <3>2
  <2>2. ~proc'.manifest.sealed /\ ~disk'.manifest.sealed
    BY <1>1, <1>3, <1>6 DEF Books, Turn, Files
  <2>3. proc'.pos <= proc'.at /\ proc'.at = TurnEnd' /\ proc'.at <= TurnEnd'
    BY <1>1, <1>4, <1>6 DEF Books, Turn, Units
  <2>4. Covered(proc'.chunks, proc'.blocks, proc'.at) BY <1>1 DEF Covered
  <2>5. QED BY <1>1, <1>6, <2>1, <2>2, <2>3, <2>4 DEF Turn
<1>11. Whole'
  <2>1. ASSUME ~env.torn, NEW q \in proc'.manifest.ladder
        PROVE  Covered(proc'.chunks, proc'.blocks, q)
    <3>1. CASE q = proc.at BY <1>1, <3>1 DEF Covered
    <3>2. CASE q \in proc.manifest.ladder
      <4>1. Covered(proc.chunks, proc.blocks, q) BY <1>6, <2>1, <3>2 DEF Books, Whole
      <4>2. QED BY <1>1, <4>1, MoreCovered
    <3>3. QED BY <1>1, <3>1, <3>2
  <2>2. QED BY <1>1, <1>3, <1>6, <2>1 DEF Books, Whole
<1>12. Lengths'
  <2>1. proc.manifest.ladder \subseteq Units /\ disk.manifest.ladder \subseteq Units
    BY <1>2 DEF Types, Builders, Archives, Manifests
  <2>2. QED BY <1>1, <1>3, <1>6, <2>1 DEF Books, Lengths
<1>13. QED BY <1>5, <1>9, <1>10, <1>11, <1>12 DEF Books

LEMMA AppendTokensBooks ==
  ASSUME Types, Books, AppendTokens PROVE Types' /\ Books'
<1>1. /\ proc' \in Builders /\ disk' \in Archives /\ UNCHANGED <<env, kills>>
      /\ proc.pc = "tokens" /\ proc.at = TurnEnd
      /\ proc'.pc = "chunks" /\ proc'.manifest.ladder = proc.manifest.ladder
      /\ proc'.manifest.made = proc.manifest.made
      /\ proc'.manifest.sealed = proc.manifest.sealed
      /\ proc'.chunks = proc.chunks /\ proc'.blocks = proc.blocks
      /\ proc'.corpus = proc.corpus /\ proc'.target = proc.target
      /\ proc'.cadence = proc.cadence /\ proc'.pos = proc.pos /\ proc'.at = proc.at
      /\ proc'.hist = proc.hist
      /\ disk' = [disk EXCEPT !.tokens =
                    disk.tokens \o SubSeq(proc.corpus, proc.pos + 1, proc.at)]
  BY AppendTokensIs
<1>2. proc \in Builders /\ proc.corpus \in env.corpora BY <1>1, Alive DEF At
<1>3. /\ disk'.manifest = disk.manifest /\ disk'.chunks = disk.chunks
      /\ disk'.blocks = disk.blocks /\ disk'.state = disk.state
  BY <1>1 DEF Types, Archives
<1>4. TurnEnd' = TurnEnd BY <1>1 DEF TurnEnd
<1>5. Types' BY <1>1, <1>2 DEF Types
<1>6. /\ Running /\ Running' /\ ~At("ingest") /\ ~At("ingest")' /\ ~At("dead") /\ ~At("dead")'
      /\ ~At("resume")' /\ ~At("blocks")' /\ ~At("manifest")' /\ ~At("seal")'
  BY <1>1 DEF Running, Stages, At
<1>7. Files' BY <1>1, <1>3, <1>6 DEF Books, Files, Segment
<1>8. Turn' BY <1>1, <1>3, <1>4, <1>6 DEF Books, Turn, Files
<1>9. Whole' BY <1>1, <1>3, <1>6 DEF Books, Whole
<1>10. Lengths' BY <1>1, <1>3, <1>6 DEF Books, Lengths
<1>11. QED BY <1>5, <1>7, <1>8, <1>9, <1>10 DEF Books

LEMMA WriteBitsBooks ==
  ASSUME Types, Books, WriteChunkBits \/ WriteBlockBits PROVE Types' /\ Books'
<1>1. /\ proc \in Builders /\ proc' \in Builders /\ disk' \in Archives
      /\ UNCHANGED <<env, kills>>
      /\ \/ /\ proc.pc = "chunks" /\ proc' = [proc EXCEPT !.pc = "blocks"]
            /\ disk' = [disk EXCEPT !.chunks = proc.chunks]
         \/ /\ proc.pc = "blocks" /\ proc' = [proc EXCEPT !.pc = "manifest"]
            /\ disk' = [disk EXCEPT !.blocks = proc.blocks]
  BY WriteBitsIs
<1>2. proc.corpus \in env.corpora BY <1>1, Alive DEF At
<1>3. /\ disk'.manifest = disk.manifest /\ disk'.tokens = disk.tokens /\ disk'.state = disk.state
      /\ \/ /\ proc.pc = "chunks" /\ proc'.pc = "blocks"
            /\ disk'.chunks = proc.chunks /\ disk'.blocks = disk.blocks
         \/ /\ proc.pc = "blocks" /\ proc'.pc = "manifest"
            /\ disk'.chunks = disk.chunks /\ disk'.blocks = proc.blocks
  BY <1>1 DEF Types, Archives, Builders
<1>4. /\ proc'.manifest = proc.manifest /\ proc'.chunks = proc.chunks
      /\ proc'.blocks = proc.blocks /\ proc'.target = proc.target /\ proc'.pos = proc.pos
      /\ proc'.cadence = proc.cadence /\ proc'.corpus = proc.corpus
      /\ proc'.at = proc.at /\ proc'.hist = proc.hist
  BY <1>1 DEF Builders
<1>5. TurnEnd' = TurnEnd BY <1>4 DEF TurnEnd
<1>6. Types' BY <1>1, <1>2, <1>4 DEF Types
<1>7. /\ Running /\ Running' /\ ~At("ingest") /\ ~At("ingest")' /\ ~At("dead") /\ ~At("dead")'
      /\ ~At("resume")' /\ ~At("seal")' /\ proc'.pc \in {"blocks", "manifest"}
  BY <1>3 DEF Running, Stages, At
<1>8. Files' BY <1>3, <1>4, <1>7 DEF Books, Files, Segment, At
<1>9. Turn'
  <2>1. ~disk'.manifest.sealed BY <1>3, <1>7 DEF Books, Files
  <2>2. QED BY <1>4, <1>5, <1>7, <2>1 DEF Books, Turn
<1>10. Whole'
  <2>1. disk.chunks \subseteq disk'.chunks /\ disk.blocks \subseteq disk'.blocks
    BY <1>3, <1>7 DEF Books, Files
  <2>2. QED BY <1>1, <1>3, <1>4, <1>7, <2>1, MoreCovered DEF Books, Whole
<1>11. Lengths' BY <1>3, <1>4, <1>7 DEF Books, Lengths
<1>12. QED BY <1>6, <1>8, <1>9, <1>10, <1>11 DEF Books

LEMMA WriteManifestBooks ==
  ASSUME Types, Books, WriteManifest PROVE Types' /\ Books'
<1> N \in Nat BY ArchiveConfig
<1>1. /\ proc \in Builders /\ disk' \in Archives /\ UNCHANGED <<env, kills>>
      /\ proc.pc = "manifest"
      /\ disk' = [disk EXCEPT !.manifest = proc.manifest]
      /\ \/ proc.manifest.sealed /\ proc' = Dead
         \/ /\ ~proc.manifest.sealed /\ proc' \in Builders
            /\ proc' = [proc EXCEPT !.pos = TurnEnd,
                          !.pc = IF TurnEnd = proc.target THEN "seal" ELSE "ingest"]
  BY WriteManifestIs
<1>2. proc.corpus \in env.corpora BY <1>1, Alive DEF At
<1>3. /\ disk'.manifest = proc.manifest /\ disk'.chunks = disk.chunks
      /\ disk'.blocks = disk.blocks /\ disk'.tokens = disk.tokens /\ disk'.state = disk.state
  BY <1>1 DEF Types, Archives
<1>4. /\ Running /\ ~At("dead") /\ ~At("ingest") /\ At("manifest")
  BY <1>1 DEF Running, Stages, At
<1>5. /\ disk.chunks = proc.chunks /\ disk.blocks = proc.blocks /\ proc.manifest.made
      /\ Segment(proc.chunks) /\ Segment(proc.blocks)
  BY <1>4 DEF Books, Files
<1>6. /\ proc.at = TurnEnd
      /\ \A q \in proc.manifest.ladder : Len(disk.state[q]) = q
      /\ \A q \in proc.manifest.ladder : Covered(proc.chunks, proc.blocks, q) => q <= proc.at
      /\ ~env.torn => \A q \in proc.manifest.ladder : Covered(proc.chunks, proc.blocks, q)
  BY <1>4 DEF Books, Turn, Lengths, Whole
<1>7. CASE proc.manifest.sealed /\ proc' = Dead
  <2>1. At("dead")' /\ ~Running' /\ ~At("resume")' /\ ~At("blocks")' /\ ~At("manifest")' /\ ~At("seal")'
    BY <1>7 DEF At, Dead, Running, Stages
  <2>2. Types' BY <1>1, <1>7 DEF Types
  <2>3. Files' BY <1>3, <1>5, <2>1 DEF Files
  <2>4. Turn'
    <3>1. Covered(disk'.chunks, disk'.blocks, disk'.manifest.total)
      BY <1>3, <1>4, <1>5, <1>7 DEF Books, Turn
    <3>2. QED BY <2>1, <3>1 DEF Turn
  <2>5. Whole' BY <1>1, <1>3, <1>5, <1>6, <2>1 DEF Whole
  <2>6. Lengths' BY <1>3, <1>6, <2>1 DEF Lengths
  <2>7. QED BY <2>2, <2>3, <2>4, <2>5, <2>6 DEF Books
<1>8. CASE /\ ~proc.manifest.sealed /\ proc' \in Builders
           /\ proc' = [proc EXCEPT !.pos = TurnEnd,
                         !.pc = IF TurnEnd = proc.target THEN "seal" ELSE "ingest"]
  <2>1. /\ proc'.pc = IF TurnEnd = proc.target THEN "seal" ELSE "ingest"
        /\ proc'.pos = TurnEnd /\ proc'.at = proc.at
        /\ proc'.manifest = proc.manifest /\ proc'.chunks = proc.chunks
        /\ proc'.blocks = proc.blocks /\ proc'.target = proc.target
        /\ proc'.cadence = proc.cadence /\ proc'.corpus = proc.corpus /\ proc'.hist = proc.hist
    BY <1>1, <1>8 DEF Builders
  <2>2. /\ ~At("dead")' /\ ~At("resume")' /\ ~At("blocks")' /\ ~At("manifest")' /\ Running'
        /\ At("ingest")' \/ At("seal")'
        /\ At("seal")' => TurnEnd = proc.target
    BY <2>1 DEF At, Running, Stages
  <2>3. Types' BY <1>1, <1>2, <1>8, <2>1 DEF Types
  <2>4. Files' BY <1>3, <1>5, <1>8, <2>1, <2>2 DEF Files
  <2>5. TurnEnd \in 1 .. proc.target BY <1>1, TurnEndIs
  <2>6. TurnEnd' = (IF proc.target <= TurnEnd + proc.cadence THEN proc.target
                    ELSE TurnEnd + proc.cadence)
    <3>1. proc.target \in Int /\ TurnEnd + proc.cadence \in Int
      BY <1>1, <2>5 DEF Builders, Units
    <3>2. TurnEnd' = Min({proc'.target, proc'.pos + proc'.cadence}) BY DEF TurnEnd
    <3>3. TurnEnd' = Min({proc.target, TurnEnd + proc.cadence}) BY <2>1, <3>2
    <3>4. QED BY <3>1, <3>3, MinTwo
  <2>7. proc.at <= TurnEnd' /\ (proc.at = proc.target => TurnEnd' = proc.at)
    BY <1>1, <1>6, <2>5, <2>6 DEF Builders, Units
  <2>8. Turn'
    <3>1. proc'.pos <= proc'.at BY <1>1, <1>6, <2>1 DEF Builders
    <3>2. At("seal")' => Covered(proc'.chunks, proc'.blocks, proc'.at)
      BY <1>4, <2>1 DEF Books, Turn
    <3>3. ~disk'.manifest.sealed /\ ~proc'.manifest.sealed BY <1>3, <1>8, <2>1
    <3>4. QED BY <1>6, <2>1, <2>2, <2>7, <3>1, <3>2, <3>3 DEF Turn
  <2>9. Whole' BY <1>1, <1>3, <1>5, <1>6, <2>1 DEF Whole
  <2>10. Lengths'
    <3>1. Len(proc.hist) = proc.at BY <1>4 DEF Books, Lengths
    <3>2. QED BY <1>3, <1>6, <2>1, <3>1 DEF Lengths
  <2>11. QED BY <2>3, <2>4, <2>8, <2>9, <2>10 DEF Books
<1>9. QED BY <1>1, <1>7, <1>8

LEMMA SealBooks ==
  ASSUME Types, Books, Seal PROVE Types' /\ Books'
<1>1. proc \in Builders /\ disk' = disk /\ UNCHANGED <<env, kills>> /\ proc.pc = "seal"
  BY SealIs
<1>2. proc.corpus \in env.corpora BY <1>1, Alive DEF At
<1>3. CASE proc' = Dead BY <1>1, <1>3, EndBooks DEF Types
<1>4. CASE /\ proc' \in Builders
           /\ proc'.pc = "chunks" /\ proc'.manifest.ladder = proc.manifest.ladder
           /\ proc'.manifest.made = proc.manifest.made
           /\ proc'.manifest.total = proc.target /\ proc'.manifest.sealed
           /\ proc'.chunks = proc.chunks /\ proc'.blocks = proc.blocks
           /\ proc'.corpus = proc.corpus /\ proc'.target = proc.target
           /\ proc'.cadence = proc.cadence /\ proc'.pos = proc.pos /\ proc'.at = proc.at
           /\ proc'.hist = proc.hist
  <2>1. /\ Running /\ Running' /\ ~At("ingest") /\ ~At("ingest")' /\ ~At("dead") /\ ~At("dead")'
        /\ ~At("resume")' /\ ~At("blocks")' /\ ~At("manifest")' /\ ~At("seal")' /\ At("seal")
    BY <1>1, <1>4 DEF Running, Stages, At
  <2>2. TurnEnd' = TurnEnd BY <1>4 DEF TurnEnd
  <2>3. Types' BY <1>1, <1>2, <1>4 DEF Types
  <2>4. Files' BY <1>1, <1>4, <2>1 DEF Books, Files
  <2>5. proc.at = proc.target
    <3>1. proc.at = TurnEnd /\ proc.pos = proc.target /\ proc.pos <= proc.at
      BY <2>1 DEF Books, Turn
    <3>2. TurnEnd \in 1 .. proc.target BY <1>1, TurnEndIs
    <3>3. QED BY <1>1, <3>1, <3>2 DEF Builders, Units
  <2>6. Turn'
    <3>1. ~disk'.manifest.sealed BY <1>1, <2>1 DEF Books, Files
    <3>2. Covered(proc.chunks, proc.blocks, proc.target) BY <2>1, <2>5 DEF Books, Turn
    <3>3. QED BY <1>4, <2>1, <2>2, <2>5, <3>1, <3>2 DEF Books, Turn
  <2>7. Whole' BY <1>1, <1>4, <2>1 DEF Books, Whole
  <2>8. Lengths' BY <1>1, <1>4, <2>1 DEF Books, Lengths
  <2>9. QED BY <2>3, <2>4, <2>6, <2>7, <2>8 DEF Books
<1>5. QED BY <1>3, <1>4, SealIs

LEMMA KillBooks ==
  ASSUME Types, Books, Kill PROVE Types' /\ Books'
BY EndBooks DEF Kill, Types

\* A torn bitmap is still set up to some unit, and promises less than before.
LEMMA KillInBitmapIs ==
  ASSUME Types, NEW n \in 0 .. N - 1, KillInBitmap(n)
  PROVE  /\ proc \in Builders /\ proc' = Dead /\ env' = env /\ env.torn /\ disk' \in Archives
         /\ disk'.manifest = disk.manifest /\ disk'.tokens = disk.tokens
         /\ disk'.state = disk.state /\ disk'.payload = disk.payload
         /\ \/ proc.pc = "chunks" /\ disk'.chunks = proc.chunks \cap 1 .. n /\ disk'.blocks = disk.blocks
            \/ proc.pc = "blocks" /\ disk'.blocks = proc.blocks \cap 1 .. n /\ disk'.chunks = disk.chunks
<1>1. proc \in Builders BY Alive DEF KillInBitmap, At
<1>2. CASE At("chunks") BY <1>1, <1>2 DEF KillInBitmap, At, Types, Archives, Builders
<1>3. CASE At("blocks") /\ ~At("chunks")
  BY <1>1, <1>3 DEF KillInBitmap, At, Types, Archives, Builders
<1>4. QED BY <1>2, <1>3 DEF KillInBitmap

LEMMA KillInBitmapBooks ==
  ASSUME Types, Books, NEW n \in 0 .. N - 1, KillInBitmap(n) PROVE Types' /\ Books'
<1> N \in Nat BY ArchiveConfig
<1>1. /\ proc \in Builders /\ proc' = Dead /\ env' = env /\ env.torn /\ disk' \in Archives
      /\ disk'.manifest = disk.manifest /\ disk'.tokens = disk.tokens
      /\ disk'.state = disk.state /\ disk'.payload = disk.payload
      /\ \/ proc.pc = "chunks" /\ disk'.chunks = proc.chunks \cap 1 .. n /\ disk'.blocks = disk.blocks
         \/ proc.pc = "blocks" /\ disk'.blocks = proc.blocks \cap 1 .. n /\ disk'.chunks = disk.chunks
  BY KillInBitmapIs
<1>2. Types' BY <1>1 DEF Types
<1>3. At("dead")' /\ ~Running' /\ ~At("resume")' /\ ~At("blocks")' /\ ~At("manifest")' /\ ~At("seal")'
  BY <1>1 DEF At, Dead, Running, Stages
<1>4. ~At("dead") BY <1>1 DEF At
<1>5. disk.manifest.made /\ ~disk.manifest.sealed BY <1>4 DEF Books, Files
<1>6. Segment(disk'.chunks) /\ Segment(disk'.blocks)
  <2>1. ASSUME NEW S \in SUBSET Units, Segment(S) PROVE Segment(S \cap 1 .. n)
    BY <2>1 DEF Segment, Units
  <2>2. proc.chunks \in SUBSET Units /\ proc.blocks \in SUBSET Units BY <1>1 DEF Builders
  <2>3. /\ Segment(proc.chunks) /\ Segment(proc.blocks)
        /\ Segment(disk.chunks) /\ Segment(disk.blocks)
    BY <1>4 DEF Books, Files
  <2>4. QED BY <1>1, <2>1, <2>2, <2>3
<1>7. Files' BY <1>1, <1>3, <1>5, <1>6 DEF Files
<1>8. Turn' BY <1>1, <1>3, <1>5 DEF Turn
<1>9. Whole' BY <1>1 DEF Whole
<1>10. Lengths' BY <1>1, <1>3 DEF Books, Lengths
<1>11. QED BY <1>2, <1>7, <1>8, <1>9, <1>10 DEF Books

LEMMA InitBooks ==
  ASSUME Init PROVE Types /\ Books
<1> N \in Nat BY ArchiveConfig
<1>1. /\ disk.manifest = NewManifest /\ disk.chunks = {} /\ disk.blocks = {}
      /\ disk.tokens = <<>> /\ proc = Dead /\ env \in Environments
  BY DEF Init
<1>2. Types
  <2>1. NewManifest \in Manifests BY DEF NewManifest, Manifests
  <2>2. disk \in Archives BY <2>1 DEF Init, Archives
  <2>3. QED BY <1>1, <2>2 DEF Types
<1>3. /\ ~disk.manifest.made /\ ~disk.manifest.sealed /\ disk.manifest.ladder = {}
  BY <1>1 DEF NewManifest
<1>4. At("dead") /\ ~Running /\ ~At("resume") /\ ~At("blocks") /\ ~At("manifest") /\ ~At("seal")
  BY <1>1 DEF At, Dead, Running, Stages
<1>5. Files BY <1>1, <1>3, <1>4 DEF Files, Segment
<1>6. Turn BY <1>3, <1>4 DEF Turn
<1>7. Whole BY <1>3, <1>4 DEF Whole
<1>8. Lengths BY <1>3, <1>4 DEF Lengths
<1>9. QED BY <1>2, <1>5, <1>6, <1>7, <1>8 DEF Books

\* Every step keeps types and books.
LEMMA NextBooks ==
  ASSUME Types, Books, [Next]_vars PROVE Types' /\ Books'
<1>1. CASE Resume BY <1>1, ResumeBooks
<1>2. CASE IngestUnit BY <1>2, IngestBooks
<1>3. CASE WriteState BY <1>3, WriteStateBooks
<1>4. CASE AppendTokens BY <1>4, AppendTokensBooks
<1>5. CASE WriteChunkBits \/ WriteBlockBits BY <1>5, WriteBitsBooks
<1>6. CASE WriteManifest BY <1>6, WriteManifestBooks
<1>7. CASE Seal BY <1>7, SealBooks
<1>8. CASE Start BY <1>8, OpenBooks DEF Start
<1>9. CASE Kill BY <1>9, KillBooks
<1>10. ASSUME NEW n \in 0 .. N - 1, KillInBitmap(n) PROVE Types' /\ Books'
  BY <1>10, KillInBitmapBooks
<1>11. CASE UNCHANGED vars
  BY <1>11 DEF vars, Types, Books, Files, Turn, Whole, Lengths, Running, At, TurnEnd
<1>12. QED
  BY <1>1, <1>2, <1>3, <1>4, <1>5, <1>6, <1>7, <1>8, <1>9, <1>10, <1>11 DEF Next, Build

\* Whatever the inputs and wherever the kills fall, the builder's copies of manifest and
\* bitmaps stay ahead of the files and a bitmap is set up to some unit
\* (checkpoint_metadata, write_bitmaps, write_manifest).
THEOREM ArchiveBooks == Spec => [](Types /\ Books)
<1>1. Init => Types /\ Books BY InitBooks
<1>2. Types /\ Books /\ [Next]_vars => (Types /\ Books)' BY NextBooks
<1>3. QED BY <1>1, <1>2, PTL DEF Spec

-----------------------------------------------------------------------------
(* The resume point never moves back. *)

\* Unless a bitmap may be torn, ladder and bitmaps on disk only grow.
LEMMA Growth ==
  ASSUME Types, Books, Next, ~env.torn
  PROVE  /\ disk.manifest.ladder \subseteq disk'.manifest.ladder
         /\ disk.chunks \subseteq disk'.chunks /\ disk.blocks \subseteq disk'.blocks
<1> USE DEF Types, Archives
<1>1. CASE Resume BY <1>1, ResumeActionIs
<1>2. CASE IngestUnit BY <1>2, IngestIs
<1>3. CASE WriteState BY <1>3, WriteStateIs
<1>4. CASE AppendTokens BY <1>4, AppendTokensIs
<1>5. CASE WriteChunkBits \/ WriteBlockBits
  BY <1>5, WriteBitsIs DEF Books, Files, At
<1>6. CASE WriteManifest
  BY <1>6, WriteManifestIs DEF Books, Files, At
<1>7. CASE Seal BY <1>7, SealIs
<1>8. CASE Start
  BY <1>8, OpenIs DEF Start, Books
<1>9. CASE Kill BY <1>9 DEF Kill
<1>10. ASSUME NEW n \in 0 .. N - 1 PROVE ~KillInBitmap(n) BY DEF KillInBitmap
<1>11. QED BY <1>1, <1>2, <1>3, <1>4, <1>5, <1>6, <1>7, <1>8, <1>9, <1>10 DEF Next, Build

\* A build that died can be resumed where it last committed: the action property
\* ProgressKept (checkpoint_metadata's comment), for any inputs and any kills outside
\* the rewrites of the bitmaps.
THEOREM ProgressKeptAlways == Spec => ProgressKept
<1>1. ASSUME Types, Books, Types', [Next]_vars, ~env.torn PROVE DiskResume' >= DiskResume
  <2>1. /\ disk.manifest.ladder \subseteq disk'.manifest.ladder
        /\ disk.chunks \subseteq disk'.chunks /\ disk.blocks \subseteq disk'.blocks
    <3>1. CASE Next BY <1>1, <3>1, Growth
    <3>2. CASE UNCHANGED vars BY <3>2 DEF vars
    <3>3. QED BY <1>1, <3>1, <3>2
  <2>2. disk.manifest.ladder \in SUBSET Units /\ disk'.manifest.ladder \in SUBSET Units
    BY <1>1 DEF Types, Archives, Manifests
  <2>3. /\ DiskResume \in 0 .. N
        /\ DiskResume = 0 \/ (DiskResume \in disk.manifest.ladder
                              /\ Covered(disk.chunks, disk.blocks, DiskResume))
    BY <2>2, ResumeIs DEF DiskResume
  <2>4. /\ DiskResume' \in 0 .. N
        /\ \A q \in disk'.manifest.ladder : Covered(disk'.chunks, disk'.blocks, q) => q <= DiskResume'
    BY <2>2, ResumeIs DEF DiskResume
  <2>5. CASE DiskResume = 0 BY <2>4, <2>5
  <2>6. CASE DiskResume \in disk.manifest.ladder /\ Covered(disk.chunks, disk.blocks, DiskResume)
    <3>1. Covered(disk'.chunks, disk'.blocks, DiskResume) BY <2>1, <2>6, MoreCovered
    <3>2. QED BY <2>1, <2>3, <2>4, <2>6, <3>1
  <2>7. QED BY <2>3, <2>5, <2>6
<1>2. Types /\ Books /\ Types' /\ [Next]_vars => [~env.torn => DiskResume' >= DiskResume]_vars
  BY <1>1
<1>3. QED BY <1>2, ArchiveBooks, PTL DEF Spec, ProgressKept

-----------------------------------------------------------------------------
(* The contents. *)

\* What is known of a running builder's input.
LEMMA OwnInput ==
  ASSUME Types, proc \in Builders, proc.corpus \in env.corpora
  PROVE  /\ proc.corpus \in Seq(Words) /\ Len(proc.corpus) = N
         /\ \A n \in 0 .. N : /\ Prefix(proc.corpus, n) \in Seq(Words)
                              /\ Len(Prefix(proc.corpus, n)) = n
<1>1. proc.corpus \in Seq(Words) /\ Len(proc.corpus) = N BY InputIs DEF Types
<1>2. QED BY <1>1, PrefixIs

\* A builder that ends leaves files that hold some input.
LEMMA EndContents ==
  ASSUME Contents, proc' = Dead, env' = env, disk' = disk PROVE Contents'
<1>1. ~Running' BY DEF Dead, Running, Stages
<1>2. QED BY <1>1 DEF Contents, Holds

LEMMA OpenContents ==
  ASSUME Types, Books, Contents,
         NEW c \in env.corpora, NEW t \in env.targets, NEW k \in Cadences, OpenForBuild(c, t, k)
  PROVE  Contents'
<1> N \in Nat BY ArchiveConfig
<1>1. /\ UNCHANGED <<env, kills>> /\ proc'.pc = "resume"
      /\ disk'.manifest.made /\ ~disk'.manifest.sealed
      /\ disk'.manifest.ladder = disk.manifest.ladder
      /\ disk'.chunks = disk.chunks /\ disk'.blocks = disk.blocks
      /\ disk'.tokens = disk.tokens /\ disk'.state = disk.state
      /\ disk'.payload = disk.payload
  BY OpenIs DEF Books
<1>2. ~Running' BY <1>1 DEF Running, Stages
<1>3. \E d \in env.corpora : Holds(d)'
  <2>1. CASE disk.manifest.made BY <1>1, <2>1 DEF Contents, Holds
  <2>2. CASE ~disk.manifest.made
    <3>1. disk.manifest.ladder = {} /\ disk.tokens = <<>> BY <2>2 DEF Books, Files
    <3>2. c \in Seq(Words) /\ Len(c) = N BY InputIs DEF Types
    <3>3. Prefix(c, 0) \in Seq(Words) /\ Len(Prefix(c, 0)) = 0 BY <3>2, PrefixIs
    <3>4. Prefix(c, 0) = <<>> BY <3>3, EmptySeq
    <3>5. Holds(c)' BY <1>1, <3>1, <3>4 DEF Holds
    <3>6. QED BY <3>5
  <2>3. QED BY <2>1, <2>2
<1>4. QED BY <1>1, <1>2, <1>3 DEF Contents

\* The resumed builder's input is the one the files hold, as far as it can rely on them.
LEMMA ResumeContents ==
  ASSUME Types, Books, Contents, OneInputWhenTorn, Resume PROVE Contents'
<1> N \in Nat BY ArchiveConfig
<1>1. /\ proc \in Builders /\ disk' \in Archives /\ UNCHANGED <<env, kills>>
      /\ proc.pc = "resume" /\ ResumePoint \in 0 .. N
  BY ResumeActionIs
<1>2. /\ disk.manifest.made /\ ~disk.manifest.sealed
      /\ proc.manifest.ladder = disk.manifest.ladder
      /\ proc.chunks = disk.chunks /\ proc.blocks = disk.blocks
  BY <1>1 DEF Books, Files, At
<1>3. proc.corpus \in env.corpora BY <1>1, Alive DEF At
<1>4. CASE proc' = Dead /\ disk' = disk BY <1>1, <1>4, EndContents
<1>5. ASSUME /\ ResumePoint <= proc.target /\ ResumePoint <= Len(disk.tokens)
             /\ Prefix(disk.tokens, ResumePoint) = Prefix(proc.corpus, ResumePoint)
             /\ disk' = [disk EXCEPT !.tokens = Prefix(disk.tokens, ResumePoint)]
             /\ \/ proc' = Dead
                \/ /\ proc' \in Builders
                   /\ proc' = [proc EXCEPT !.pc = IF ResumePoint = proc.target THEN "seal" ELSE "ingest",
                                 !.pos = ResumePoint, !.at = ResumePoint,
                                 !.hist = IF ResumePoint = 0 THEN <<>> ELSE disk.state[ResumePoint]]
      PROVE  Contents'
  <2>d. PICK d \in env.corpora : d = proc.corpus BY <1>3
  <2>s. PICK s \in 0 .. N : s = ResumePoint BY <1>1
  <2>1. d \in Seq(Words) /\ Len(d) = N
        /\ \A n \in 0 .. N : Prefix(d, n) \in Seq(Words) /\ Len(Prefix(d, n)) = n
    BY <1>1, <1>3, <2>d, OwnInput
  <2>2. PICK c \in env.corpora : Holds(c) BY <1>2 DEF Contents
  <2>3. c \in Seq(Words) /\ Len(c) = N BY InputIs DEF Types
  <2>4. Prefix(c, s) = Prefix(d, s)
    <3>1. Len(disk.tokens) \in 0 .. N /\ disk.tokens = Prefix(c, Len(disk.tokens))
      BY <2>2 DEF Holds, Types, Archives
    <3>2. Prefix(disk.tokens, s) = Prefix(c, s) BY <1>5, <2>s, <2>3, <3>1, PrefixIs
    <3>3. QED BY <1>5, <2>d, <2>s, <3>2
  <2>5. \A n \in 0 .. s : Prefix(c, n) = Prefix(d, n)
    <3>1. s \in 0 .. Len(c) /\ s \in 0 .. Len(d) BY <2>1, <2>3
    <3>2. \A n \in 0 .. s : Prefix(Prefix(c, s), n) = Prefix(c, n) BY <2>3, <3>1, PrefixIs
    <3>3. \A n \in 0 .. s : Prefix(Prefix(d, s), n) = Prefix(d, n) BY <2>1, <3>1, PrefixIs
    <3>4. QED BY <2>4, <3>2, <3>3
  <2>6. disk.manifest.ladder \in SUBSET Units BY DEF Types, Archives, Manifests
  <2>7. /\ s = 0 \/ (s \in disk.manifest.ladder /\ Covered(disk.chunks, disk.blocks, s))
        /\ \A q \in disk.manifest.ladder : Covered(disk.chunks, disk.blocks, q) => q <= s
    BY <1>2, <2>s, <2>6, ResumeIs DEF ResumePoint
  <2>8. \A q \in disk.manifest.ladder : Prefix(c, q) = Prefix(d, q)
    <3>1. CASE env.torn
      <4>1. c = d BY <3>1 DEF OneInputWhenTorn, Types
      <4>2. QED BY <4>1
    <3>2. CASE ~env.torn
      <4>1. \A q \in disk.manifest.ladder : Covered(disk.chunks, disk.blocks, q)
        BY <3>2 DEF Books, Whole
      <4>2. \A q \in disk.manifest.ladder : q \in 0 .. s BY <2>6, <2>7, <4>1 DEF Units
      <4>3. QED BY <2>5, <4>2
    <3>3. QED BY <3>1, <3>2
  <2>9. /\ disk'.manifest = disk.manifest /\ disk'.chunks = disk.chunks
        /\ disk'.blocks = disk.blocks /\ disk'.state = disk.state
        /\ disk'.payload = disk.payload /\ disk'.tokens = Prefix(d, s)
    BY <1>5, <2>d, <2>s DEF Types, Archives
  <2>10. Len(disk'.tokens) = s BY <2>1, <2>9
  <2>11. ASSUME NEW q \in disk.manifest.ladder, Covered(disk.chunks, disk.blocks, q),
                NEW u \in 1 .. q
         PROVE  disk.payload[u] = Prefix(d, u)
    <3>1. disk.payload[u] = Prefix(c, u) BY <2>2, <2>11 DEF Holds
    <3>2. q <= s /\ q \in Nat BY <2>6, <2>7, <2>11 DEF Units
    <3>3. u \in 0 .. s BY <3>2
    <3>4. QED BY <2>5, <3>1, <3>3
  <2>12. \A q \in disk.manifest.ladder : disk.state[q] = Prefix(d, q)
    BY <2>2, <2>8 DEF Holds
  <2>13. Holds(d)'
    <3>1. \A q \in disk'.manifest.ladder :
            /\ disk'.state[q] = Prefix(d, q)
            /\ Covered(disk'.chunks, disk'.blocks, q) =>
                 q <= Len(disk'.tokens) /\ \A u \in 1 .. q : disk'.payload[u] = Prefix(d, u)
      BY <2>7, <2>9, <2>10, <2>11, <2>12
    <3>2. Len(disk'.tokens) <= N /\ disk'.tokens = Prefix(d, Len(disk'.tokens))
      BY <1>1, <2>9, <2>10
    <3>3. QED BY <3>1, <3>2 DEF Holds
  <2>14. CASE proc' = Dead
    <3>1. ~Running' BY <2>14 DEF Dead, Running, Stages
    <3>2. QED BY <1>1, <1>2, <2>9, <2>13, <3>1 DEF Contents
  <2>15. CASE /\ proc' \in Builders
              /\ proc' = [proc EXCEPT !.pc = IF ResumePoint = proc.target THEN "seal" ELSE "ingest",
                            !.pos = ResumePoint, !.at = ResumePoint,
                            !.hist = IF ResumePoint = 0 THEN <<>> ELSE disk.state[ResumePoint]]
    <3>1. /\ proc'.pos = s /\ proc'.at = s /\ proc'.corpus = d
          /\ proc'.hist = (IF s = 0 THEN <<>> ELSE disk.state[s])
          /\ proc'.manifest = proc.manifest
      BY <1>1, <2>d, <2>s, <2>15 DEF Builders
    <3>2. proc'.hist = Prefix(d, s)
      <4>1. CASE s = 0
        <5>1. Prefix(d, 0) \in Seq(Words) /\ Len(Prefix(d, 0)) = 0 BY <2>1
        <5>2. QED BY <3>1, <4>1, <5>1, EmptySeq
      <4>2. CASE s # 0 BY <2>7, <2>12, <3>1, <4>2
      <4>3. QED BY <4>1, <4>2
    <3>3. Written' = s BY <3>1 DEF Written
    <3>4. \A u \in 1 .. s : disk.payload[u] = Prefix(d, u) BY <2>7, <2>11
    <3>5. \A q \in proc'.manifest.ladder : disk'.state[q] = Prefix(d, q)
      BY <1>2, <2>9, <2>12, <3>1
    <3>6. QED BY <1>1, <1>2, <2>9, <2>13, <3>1, <3>2, <3>3, <3>4, <3>5 DEF Contents
  <2>16. QED BY <1>5, <2>14, <2>15
<1>6. QED BY <1>4, <1>5, ResumeActionIs

LEMMA IngestContents ==
  ASSUME Types, Books, Contents, IngestUnit PROVE Contents'
<1> N \in Nat BY ArchiveConfig
<1>1. /\ proc' \in Builders /\ disk' \in Archives /\ UNCHANGED <<env, kills>>
      /\ proc' = [proc EXCEPT !.at = proc.at + 1,
                              !.hist = Append(proc.hist, proc.corpus[proc.at + 1])]
      /\ disk' = [disk EXCEPT !.payload =
                    [disk.payload EXCEPT ![proc.at + 1] =
                       Append(proc.hist, proc.corpus[proc.at + 1])]]
      /\ proc.pc = "ingest" /\ proc.at + 1 \in Units
  BY IngestIs
<1>2. proc \in Builders /\ proc.corpus \in env.corpora BY <1>1, Alive DEF At
<1>3. PICK d \in env.corpora : d = proc.corpus BY <1>2
<1>4. d \in Seq(Words) /\ Len(d) = N BY <1>2, <1>3, OwnInput
<1>5. Running /\ ~disk.manifest.sealed BY <1>1 DEF Running, Stages, Books, Files, At
<1>6. /\ Holds(d) /\ proc.hist = Prefix(d, proc.at)
      /\ disk.tokens = Prefix(d, proc.pos)
      /\ \A u \in 1 .. proc.at : disk.payload[u] = Prefix(d, u)
      /\ \A q \in proc.manifest.ladder : disk.state[q] = Prefix(d, q)
  BY <1>1, <1>3, <1>5 DEF Contents, Written
<1>7. Append(proc.hist, proc.corpus[proc.at + 1]) = Prefix(d, proc.at + 1)
  <2>1. proc.at \in Nat /\ proc.at + 1 <= N BY <1>1, <1>2 DEF Units, Builders
  <2>2. proc.at \in 0 .. Len(d) /\ proc.at < Len(d) BY <1>4, <2>1
  <2>3. QED BY <1>3, <1>4, <1>6, <2>2, PrefixGrows
<1>8. /\ disk'.manifest = disk.manifest /\ disk'.chunks = disk.chunks
      /\ disk'.blocks = disk.blocks /\ disk'.state = disk.state
      /\ disk'.tokens = disk.tokens
      /\ \A u \in Units : disk'.payload[u] = IF u = proc.at + 1 THEN Prefix(d, proc.at + 1)
                                             ELSE disk.payload[u]
  BY <1>1, <1>7 DEF Types, Archives
<1>9. /\ proc'.pc = "ingest" /\ proc'.at = proc.at + 1 /\ proc'.hist = Prefix(d, proc.at + 1)
      /\ proc'.manifest = proc.manifest /\ proc'.pos = proc.pos /\ proc'.corpus = d
  BY <1>1, <1>2, <1>3, <1>7 DEF Builders
<1>10. Written' = proc.pos BY <1>9 DEF Written
<1>11. Holds(d)'
  <2>1. disk.manifest.ladder \in SUBSET Units BY DEF Types, Archives, Manifests
  <2>2. \A q \in disk.manifest.ladder : \A u \in 1 .. q : u \in Units BY <2>1 DEF Units
  <2>3. QED BY <1>6, <1>8, <2>2 DEF Holds
<1>12. \A u \in 1 .. proc.at + 1 : disk'.payload[u] = Prefix(d, u)
  <2>1. proc.at \in Nat /\ proc.at + 1 <= N BY <1>1, <1>2 DEF Units, Builders
  <2>2. \A u \in 1 .. proc.at + 1 : u \in Units /\ (u = proc.at + 1 \/ u \in 1 .. proc.at)
    BY <2>1 DEF Units
  <2>3. QED BY <1>6, <1>8, <2>2
<1>13. QED BY <1>1, <1>5, <1>6, <1>8, <1>9, <1>10, <1>11, <1>12 DEF Contents

LEMMA WriteStateContents ==
  ASSUME Types, Books, Contents, WriteState PROVE Contents'
<1> N \in Nat BY ArchiveConfig
<1>1. /\ proc' \in Builders /\ disk' \in Archives /\ UNCHANGED <<env, kills>>
      /\ proc.pc = "ingest" /\ proc.at \in Units
      /\ proc'.pc = "tokens" /\ proc'.manifest.ladder = proc.manifest.ladder \cup {proc.at}
      /\ proc'.corpus = proc.corpus /\ proc'.pos = proc.pos /\ proc'.at = proc.at
      /\ proc'.hist = proc.hist
      /\ disk' = [disk EXCEPT !.state = [disk.state EXCEPT ![proc.at] = proc.hist]]
  BY WriteStateIs
<1>2. proc \in Builders /\ proc.corpus \in env.corpora BY <1>1, Alive DEF At
<1>3. PICK d \in env.corpora : d = proc.corpus BY <1>2
<1>4. Running /\ ~disk.manifest.sealed BY <1>1 DEF Running, Stages, Books, Files, At
<1>5. /\ Holds(d) /\ proc.hist = Prefix(d, proc.at)
      /\ disk.tokens = Prefix(d, proc.pos)
      /\ \A u \in 1 .. proc.at : disk.payload[u] = Prefix(d, u)
      /\ \A q \in proc.manifest.ladder : disk.state[q] = Prefix(d, q)
  BY <1>1, <1>3, <1>4 DEF Contents, Written
<1>6. /\ disk'.manifest = disk.manifest /\ disk'.chunks = disk.chunks
      /\ disk'.blocks = disk.blocks /\ disk'.payload = disk.payload
      /\ disk'.tokens = disk.tokens
      /\ \A q \in Units : disk'.state[q] = IF q = proc.at THEN Prefix(d, proc.at) ELSE disk.state[q]
  BY <1>1, <1>5 DEF Types, Archives
<1>7. Written' = proc.pos BY <1>1 DEF Written
<1>8. disk.manifest.ladder \subseteq Units /\ proc.manifest.ladder \subseteq Units
  BY <1>2 DEF Types, Archives, Builders, Manifests
<1>9. Holds(d)' BY <1>5, <1>6, <1>8 DEF Holds
<1>10. \A q \in proc'.manifest.ladder : disk'.state[q] = Prefix(d, q)
  BY <1>1, <1>5, <1>6, <1>8
<1>11. QED BY <1>1, <1>3, <1>4, <1>5, <1>6, <1>7, <1>9, <1>10 DEF Contents

LEMMA AppendTokensContents ==
  ASSUME Types, Books, Contents, AppendTokens PROVE Contents'
<1> N \in Nat BY ArchiveConfig
<1>1. /\ proc' \in Builders /\ disk' \in Archives /\ UNCHANGED <<env, kills>>
      /\ proc.pc = "tokens"
      /\ proc'.pc = "chunks" /\ proc'.manifest.ladder = proc.manifest.ladder
      /\ proc'.corpus = proc.corpus /\ proc'.pos = proc.pos /\ proc'.at = proc.at
      /\ proc'.hist = proc.hist
      /\ disk' = [disk EXCEPT !.tokens =
                    disk.tokens \o SubSeq(proc.corpus, proc.pos + 1, proc.at)]
  BY AppendTokensIs
<1>2. proc \in Builders /\ proc.corpus \in env.corpora BY <1>1, Alive DEF At
<1>3. PICK d \in env.corpora : d = proc.corpus BY <1>2
<1>4. d \in Seq(Words) /\ Len(d) = N
      /\ \A n \in 0 .. N : Len(Prefix(d, n)) = n
  BY <1>2, <1>3, OwnInput
<1>5. Running /\ ~disk.manifest.sealed BY <1>1 DEF Running, Stages, Books, Files, At
<1>6. /\ Holds(d) /\ proc.hist = Prefix(d, proc.at)
      /\ disk.tokens = Prefix(d, proc.pos)
      /\ \A u \in 1 .. proc.at : disk.payload[u] = Prefix(d, u)
      /\ \A q \in proc.manifest.ladder : disk.state[q] = Prefix(d, q)
  BY <1>1, <1>3, <1>5 DEF Contents, Written
<1>7. proc.pos \in 0 .. N /\ proc.at \in 0 .. N /\ proc.pos <= proc.at
  BY <1>2, <1>5 DEF Builders, Books, Turn
<1>8. disk.tokens \o SubSeq(proc.corpus, proc.pos + 1, proc.at) = Prefix(d, proc.at)
  <2>1. proc.pos \in 0 .. Len(d) /\ proc.at \in proc.pos .. Len(d) BY <1>4, <1>7
  <2>2. Prefix(d, proc.pos) \o SubSeq(d, proc.pos + 1, proc.at) = Prefix(d, proc.at)
    BY <1>4, <2>1, PrefixGrows
  <2>3. QED BY <1>3, <1>6, <2>2
<1>9. /\ disk'.manifest = disk.manifest /\ disk'.chunks = disk.chunks
      /\ disk'.blocks = disk.blocks /\ disk'.payload = disk.payload
      /\ disk'.state = disk.state /\ disk'.tokens = Prefix(d, proc.at)
  BY <1>1, <1>8 DEF Types, Archives
<1>10. Len(disk'.tokens) = proc.at /\ Len(disk.tokens) = proc.pos BY <1>4, <1>6, <1>7, <1>9
<1>11. Written' = proc.at BY <1>1 DEF Written
<1>12. Holds(d)'
  <2>1. Len(disk'.tokens) <= N /\ disk'.tokens = Prefix(d, Len(disk'.tokens)) BY <1>7, <1>9, <1>10
  <2>2. disk.manifest.ladder \in SUBSET Int BY DEF Types, Archives, Manifests, Units
  <2>3. ASSUME NEW q \in disk.manifest.ladder, Covered(disk.chunks, disk.blocks, q)
        PROVE  q <= proc.at
    <3>1. q <= proc.pos BY <1>6, <1>10, <2>3 DEF Holds
    <3>2. QED BY <1>7, <2>2, <3>1
  <2>4. QED BY <1>6, <1>9, <1>10, <2>1, <2>3 DEF Holds
<1>13. QED BY <1>1, <1>3, <1>5, <1>6, <1>9, <1>11, <1>12 DEF Contents

\* Files whose ladder and bitmaps the builder knows hold its input, once the token stream
\* reaches where it stands.
LEMMA KnownHolds ==
  ASSUME Types, Books, Contents, Running, ~(proc.pc \in {"ingest", "tokens"}),
         NEW d, d = proc.corpus,
         disk'.tokens = disk.tokens, disk'.state = disk.state, disk'.payload = disk.payload,
         disk'.manifest.ladder \subseteq proc.manifest.ladder,
         disk'.chunks \subseteq proc.chunks, disk'.blocks \subseteq proc.blocks
  PROVE  Holds(d)'
<1> N \in Nat BY ArchiveConfig
<1>1. proc \in Builders /\ proc.corpus \in env.corpora BY Alive DEF Running, Stages, At
<1>2. \A n \in 0 .. N : Len(Prefix(d, n)) = n BY <1>1, OwnInput
<1>3. /\ disk.tokens = Prefix(d, proc.at) /\ proc.at \in 0 .. N
      /\ \A u \in 1 .. proc.at : disk.payload[u] = Prefix(d, u)
      /\ \A q \in proc.manifest.ladder : disk.state[q] = Prefix(d, q)
  BY <1>1 DEF Contents, Written, Builders
<1>4. Len(disk.tokens) = proc.at BY <1>2, <1>3
<1>5. ASSUME NEW q \in disk'.manifest.ladder
      PROVE  /\ disk'.state[q] = Prefix(d, q)
             /\ Covered(disk'.chunks, disk'.blocks, q) =>
                  q <= proc.at /\ \A u \in 1 .. q : disk.payload[u] = Prefix(d, u)
  <2>1. q \in proc.manifest.ladder OBVIOUS
  <2>2. q \in Nat BY <1>1, <2>1 DEF Builders, Manifests, Units
  <2>3. ASSUME Covered(disk'.chunks, disk'.blocks, q)
        PROVE  q <= proc.at /\ \A u \in 1 .. q : disk.payload[u] = Prefix(d, u)
    <3>1. Covered(proc.chunks, proc.blocks, q) BY <2>3, MoreCovered
    <3>2. q <= proc.at BY <2>1, <3>1 DEF Books, Turn
    <3>3. \A u \in 1 .. q : u \in 1 .. proc.at BY <1>3, <2>2, <3>2
    <3>4. QED BY <1>3, <3>2, <3>3
  <2>4. QED BY <1>3, <2>1, <2>3
<1>6. QED BY <1>3, <1>4, <1>5 DEF Holds

LEMMA WriteBitsContents ==
  ASSUME Types, Books, Contents, WriteChunkBits \/ WriteBlockBits PROVE Contents'
<1>1. /\ proc \in Builders /\ UNCHANGED <<env, kills>>
      /\ \/ /\ proc.pc = "chunks" /\ proc' = [proc EXCEPT !.pc = "blocks"]
            /\ disk' = [disk EXCEPT !.chunks = proc.chunks]
         \/ /\ proc.pc = "blocks" /\ proc' = [proc EXCEPT !.pc = "manifest"]
            /\ disk' = [disk EXCEPT !.blocks = proc.blocks]
  BY WriteBitsIs
<1>2. proc.corpus \in env.corpora BY <1>1, Alive DEF At
<1>3. PICK d \in env.corpora : d = proc.corpus BY <1>2
<1>4. /\ Running /\ ~At("dead") /\ ~(proc.pc \in {"ingest", "tokens"})
      /\ ~disk.manifest.sealed /\ disk.manifest.ladder \subseteq proc.manifest.ladder
      /\ disk.chunks \subseteq proc.chunks /\ disk.blocks \subseteq proc.blocks
  BY <1>1 DEF Running, Stages, Books, Files, At
<1>5. /\ disk'.manifest = disk.manifest /\ disk'.tokens = disk.tokens
      /\ disk'.state = disk.state /\ disk'.payload = disk.payload
      /\ disk'.chunks \subseteq proc.chunks /\ disk'.blocks \subseteq proc.blocks
  BY <1>1, <1>4 DEF Types, Archives
<1>6. /\ proc'.pc \in {"blocks", "manifest"} /\ proc'.corpus = d /\ proc'.at = proc.at
      /\ proc'.hist = proc.hist /\ proc'.manifest = proc.manifest
  BY <1>1, <1>3 DEF Builders
<1>7. Holds(d)' BY <1>3, <1>4, <1>5, KnownHolds
<1>8. Written' = Written BY <1>1, <1>6 DEF Written
<1>9. QED BY <1>1, <1>3, <1>4, <1>5, <1>6, <1>7, <1>8 DEF Contents

LEMMA WriteManifestContents ==
  ASSUME Types, Books, Contents, WriteManifest PROVE Contents'
<1> N \in Nat BY ArchiveConfig
<1>1. /\ proc \in Builders /\ UNCHANGED <<env, kills>> /\ proc.pc = "manifest"
      /\ disk' = [disk EXCEPT !.manifest = proc.manifest]
      /\ \/ proc.manifest.sealed /\ proc' = Dead
         \/ /\ ~proc.manifest.sealed /\ proc' \in Builders
            /\ proc' = [proc EXCEPT !.pos = TurnEnd,
                          !.pc = IF TurnEnd = proc.target THEN "seal" ELSE "ingest"]
  BY WriteManifestIs
<1>2. proc.corpus \in env.corpora BY <1>1, Alive DEF At
<1>3. PICK d \in env.corpora : d = proc.corpus BY <1>2
<1>4. /\ disk'.manifest = proc.manifest /\ disk'.chunks = disk.chunks
      /\ disk'.blocks = disk.blocks /\ disk'.tokens = disk.tokens
      /\ disk'.state = disk.state /\ disk'.payload = disk.payload
  BY <1>1 DEF Types, Archives
<1>5. /\ Running /\ ~At("ingest") /\ ~(proc.pc \in {"ingest", "tokens"})
      /\ disk.chunks = proc.chunks /\ disk.blocks = proc.blocks
  BY <1>1 DEF Running, Stages, Books, Files, At
<1>6. Holds(d)' BY <1>3, <1>4, <1>5, KnownHolds
<1>7. /\ proc.at = TurnEnd /\ proc.hist = Prefix(d, proc.at) /\ disk.tokens = Prefix(d, proc.at)
      /\ \A u \in 1 .. proc.at : disk.payload[u] = Prefix(d, u)
      /\ \A q \in proc.manifest.ladder : disk.state[q] = Prefix(d, q)
  BY <1>3, <1>5 DEF Books, Turn, Contents, Written
<1>8. CASE proc.manifest.sealed /\ proc' = Dead
  <2>1. ~Running' BY <1>8 DEF Dead, Running, Stages
  <2>2. disk'.manifest.total = proc.at BY <1>4, <1>5, <1>8 DEF Books, Turn
  <2>3. proc.at \in 0 .. N BY <1>1 DEF Builders
  <2>4. Len(disk'.tokens) = proc.at BY <1>1, <1>2, <1>3, <1>4, <1>7, <2>3, OwnInput
  <2>5. disk'.manifest.total <= Len(disk'.tokens) BY <2>2, <2>3, <2>4
  <2>6. QED BY <1>1, <1>6, <2>1, <2>5 DEF Contents
<1>9. CASE /\ ~proc.manifest.sealed /\ proc' \in Builders
           /\ proc' = [proc EXCEPT !.pos = TurnEnd,
                         !.pc = IF TurnEnd = proc.target THEN "seal" ELSE "ingest"]
  <2>1. /\ proc'.pos = TurnEnd /\ proc'.at = proc.at /\ proc'.corpus = d
        /\ proc'.hist = proc.hist /\ proc'.manifest = proc.manifest
    BY <1>1, <1>3, <1>9 DEF Builders
  <2>2. Written' = proc.at BY <1>7, <2>1 DEF Written
  <2>3. QED BY <1>1, <1>4, <1>6, <1>7, <1>9, <2>1, <2>2 DEF Contents
<1>10. QED BY <1>1, <1>8, <1>9

LEMMA SealContents ==
  ASSUME Types, Books, Contents, Seal PROVE Contents'
<1>1. proc \in Builders /\ disk' = disk /\ UNCHANGED <<env, kills>> /\ proc.pc = "seal"
  BY SealIs
<1>2. CASE proc' = Dead BY <1>1, <1>2, EndContents
<1>3. CASE /\ proc'.pc = "chunks" /\ proc'.manifest.ladder = proc.manifest.ladder
           /\ proc'.corpus = proc.corpus /\ proc'.at = proc.at /\ proc'.hist = proc.hist
  <2>1. Running /\ Written' = Written BY <1>1, <1>3 DEF Written, Running, Stages
  <2>2. QED BY <1>1, <1>3, <2>1 DEF Contents, Holds
<1>4. QED BY <1>2, <1>3, SealIs

LEMMA KillInBitmapContents ==
  ASSUME Types, Books, Contents, NEW n \in 0 .. N - 1, KillInBitmap(n) PROVE Contents'
<1>1. /\ proc \in Builders /\ proc' = Dead /\ env' = env
      /\ disk'.manifest = disk.manifest /\ disk'.tokens = disk.tokens
      /\ disk'.state = disk.state /\ disk'.payload = disk.payload
      /\ \/ proc.pc = "chunks" /\ disk'.chunks = proc.chunks \cap 1 .. n /\ disk'.blocks = disk.blocks
         \/ proc.pc = "blocks" /\ disk'.blocks = proc.blocks \cap 1 .. n /\ disk'.chunks = disk.chunks
  BY KillInBitmapIs
<1>2. proc.corpus \in env.corpora BY <1>1, Alive DEF At
<1>3. PICK d \in env.corpora : d = proc.corpus BY <1>2
<1>4. /\ Running /\ ~(proc.pc \in {"ingest", "tokens"})
      /\ ~disk.manifest.sealed /\ disk.manifest.ladder \subseteq proc.manifest.ladder
      /\ disk.chunks \subseteq proc.chunks /\ disk.blocks \subseteq proc.blocks
  BY <1>1 DEF Running, Stages, Books, Files, At
<1>5. disk'.chunks \subseteq proc.chunks /\ disk'.blocks \subseteq proc.blocks BY <1>1, <1>4
<1>6. Holds(d)' BY <1>1, <1>3, <1>4, <1>5, KnownHolds
<1>7. ~Running' BY <1>1 DEF Dead, Running, Stages
<1>8. QED BY <1>1, <1>4, <1>6, <1>7 DEF Contents

\* Every step keeps the contents.
LEMMA NextContents ==
  ASSUME Types, Books, Contents, OneInputWhenTorn, [Next]_vars PROVE Contents'
<1>1. CASE Resume BY <1>1, ResumeContents
<1>2. CASE IngestUnit BY <1>2, IngestContents
<1>3. CASE WriteState BY <1>3, WriteStateContents
<1>4. CASE AppendTokens BY <1>4, AppendTokensContents
<1>5. CASE WriteChunkBits \/ WriteBlockBits BY <1>5, WriteBitsContents
<1>6. CASE WriteManifest BY <1>6, WriteManifestContents
<1>7. CASE Seal BY <1>7, SealContents
<1>8. CASE Start BY <1>8, OpenContents DEF Start
<1>9. CASE Kill BY <1>9, EndContents DEF Kill
<1>10. ASSUME NEW n \in 0 .. N - 1, KillInBitmap(n) PROVE Contents'
  BY <1>10, KillInBitmapContents
<1>11. CASE UNCHANGED vars
  BY <1>11 DEF vars, Contents, Holds, Running, Written
<1>12. QED
  BY <1>1, <1>2, <1>3, <1>4, <1>5, <1>6, <1>7, <1>8, <1>9, <1>10, <1>11 DEF Next, Build

\* While a builder runs the files hold its input, and after a kill they hold some input:
\* the invariant behind the two theorems below.
THEOREM ArchiveInvariant == OneInputWhenTorn => (Spec => [](Types /\ Books /\ Contents))
<1> SUFFICES ASSUME OneInputWhenTorn PROVE Spec => [](Types /\ Books /\ Contents)
  OBVIOUS
<1>1. Init => Types /\ Books /\ Contents
  <2>1. ASSUME Init PROVE Contents
    <3>1. ~disk.manifest.made /\ ~disk.manifest.sealed /\ proc = Dead
      BY <2>1 DEF Init, NewManifest
    <3>2. ~Running BY <3>1 DEF Dead, Running, Stages
    <3>3. QED BY <3>1, <3>2 DEF Contents
  <2>2. QED BY <2>1, InitBooks
<1>2. Types /\ Books /\ Contents /\ [Next]_vars => (Types /\ Books /\ Contents)'
  BY NextBooks, NextContents
<1>3. QED BY <1>1, <1>2, PTL DEF Spec

\* A point p up to which the bitmaps are set and a ladder state exists is intact.
LEMMA HeldIsIntact ==
  ASSUME Types, NEW c \in env.corpora, Holds(c), NEW p \in disk.manifest.ladder,
         Covered(disk.chunks, disk.blocks, p)
  PROVE  Intact(p)
<1> N \in Nat BY ArchiveConfig
<1>1. c \in Seq(Words) /\ Len(c) = N BY InputIs DEF Types
<1>2. p \in Nat /\ Len(disk.tokens) \in Nat BY DEF Types, Archives, Manifests, Units
<1>3. p <= Len(disk.tokens) /\ disk.tokens = Prefix(c, Len(disk.tokens)) /\ Len(disk.tokens) <= N
  BY DEF Holds
<1>4. \A u \in 0 .. Len(disk.tokens) : Prefix(disk.tokens, u) = Prefix(c, u)
  <2>1. Len(disk.tokens) \in 0 .. Len(c) BY <1>1, <1>2, <1>3
  <2>2. QED BY <1>1, <1>3, <2>1, PrefixIs
<1>5. \A u \in 1 .. p : u \in 0 .. Len(disk.tokens) BY <1>2, <1>3
<1>6. p \in 0 .. Len(disk.tokens) BY <1>2, <1>3
<1>7. QED BY <1>3, <1>4, <1>5, <1>6 DEF Holds, Intact

\* After a kill anywhere, the point the next builder resumes from is backed by tokens,
\* state and payload of one input (resume_position): the invariant ResumeIntact, for any
\* number of kills, also inside a bitmap's rewrite when all builders have one input.
THEOREM ResumeIntactAlways == OneInputWhenTorn => (Spec => []ResumeIntact)
<1> SUFFICES ASSUME OneInputWhenTorn PROVE Spec => []ResumeIntact
  OBVIOUS
<1>1. ASSUME Types, Books, Contents PROVE ResumeIntact
  <2> SUFFICES ASSUME DiskResume > 0 PROVE Intact(DiskResume) BY DEF ResumeIntact
  <2>1. disk.manifest.ladder \in SUBSET Units BY <1>1 DEF Types, Archives, Manifests
  <2>2. /\ DiskResume \in 0 .. N
        /\ DiskResume = 0 \/ (DiskResume \in disk.manifest.ladder
                              /\ Covered(disk.chunks, disk.blocks, DiskResume))
    BY <2>1, ResumeIs DEF DiskResume
  <2>3. DiskResume \in disk.manifest.ladder /\ Covered(disk.chunks, disk.blocks, DiskResume)
    BY <2>2
  <2>4. disk.manifest.made BY <1>1, <2>3 DEF Books, Files
  <2>5. PICK c \in env.corpora : Holds(c) BY <1>1, <2>4 DEF Contents
  <2>6. QED BY <1>1, <2>3, <2>5, HeldIsIntact
<1>2. Types /\ Books /\ Contents => ResumeIntact BY <1>1
<1>3. QED BY <1>2, ArchiveInvariant, PTL

\* A sealed archive holds one input, whichever builders made it, and can be attached at
\* any length (seal, ladder_at_or_below): the invariant SealedIntact.
THEOREM SealedIntactAlways == OneInputWhenTorn => (Spec => []SealedIntact)
<1> N \in Nat BY ArchiveConfig
<1> SUFFICES ASSUME OneInputWhenTorn PROVE Spec => []SealedIntact
  OBVIOUS
<1>1. ASSUME Types, Books, Contents PROVE SealedIntact
  <2> SUFFICES ASSUME disk.manifest.sealed
               PROVE  /\ disk.manifest.total <= Len(disk.tokens)
                      /\ \E c \in env.corpora : IsPrefix(disk.tokens, c)
                      /\ \A t \in 1 .. disk.manifest.total :
                           LET p == LadderAtOrBelow(disk.manifest.ladder, t) IN
                           p > 0 => Covered(disk.chunks, disk.blocks, p) /\ Intact(p)
    BY DEF SealedIntact
  <2>1. disk.manifest.made BY <1>1 DEF Books, Files
  <2>2. PICK c \in env.corpora : Holds(c) BY <1>1, <2>1 DEF Contents
  <2>3. c \in Seq(Words) /\ Len(c) = N BY <1>1, InputIs DEF Types
  <2>4. IsPrefix(disk.tokens, c)
    <3>1. Len(disk.tokens) \in Nat /\ Len(disk.tokens) <= Len(c) /\ disk.tokens = Prefix(c, Len(disk.tokens))
      BY <1>1, <2>2, <2>3 DEF Holds, Types, Archives
    <3>2. QED BY <3>1 DEF IsPrefix, Prefix
  <2>5. disk.manifest.ladder \in SUBSET Units /\ disk.manifest.total \in 0 .. N
    BY <1>1 DEF Types, Archives, Manifests
  <2>6. Covered(disk.chunks, disk.blocks, disk.manifest.total) BY <1>1 DEF Books, Turn
  <2>7. ASSUME NEW t \in 1 .. disk.manifest.total, NEW p, p = LadderAtOrBelow(disk.manifest.ladder, t),
               p > 0
        PROVE  Covered(disk.chunks, disk.blocks, p) /\ Intact(p)
    <3>1. t \in 0 .. N BY <2>5
    <3>2. p \in 0 .. t /\ (p = 0 \/ p \in disk.manifest.ladder) BY <2>5, <2>7, <3>1, LadderIs
    <3>3. p \in disk.manifest.ladder BY <2>7, <3>2
    <3>4. 1 .. p \subseteq 1 .. disk.manifest.total BY <2>5, <3>2
    <3>5. Covered(disk.chunks, disk.blocks, p) BY <2>6, <3>4 DEF Covered
    <3>6. QED BY <1>1, <2>2, <3>3, <3>5, HeldIsIntact
  <2>8. disk.manifest.total <= Len(disk.tokens) BY <1>1 DEF Contents
  <2>9. QED BY <2>2, <2>4, <2>7, <2>8
<1>2. Types /\ Books /\ Contents => SealedIntact BY <1>1
<1>3. QED BY <1>2, ArchiveInvariant, PTL

\* What a builder has ingested is the prefix of its input at its position: the offset at
\* which it labels chunks, blocks and ladder states (build_kvmem_archive's processed, the
\* invariant BuilderAligned).  An executor restored from a state of other tokens would
\* break it.
THEOREM BuilderAlignedAlways == OneInputWhenTorn => (Spec => []BuilderAligned)
<1> SUFFICES ASSUME OneInputWhenTorn PROVE Spec => []BuilderAligned
  OBVIOUS
<1>1. Types /\ Books /\ Contents => BuilderAligned
  <2> SUFFICES ASSUME Types, Contents, ~(At("dead") \/ At("resume"))
               PROVE  proc.hist = Prefix(proc.corpus, proc.at)
    BY DEF BuilderAligned
  <2>1. Running BY DEF Types, Dead, At, Builders, Running
  <2>2. QED BY <2>1 DEF Contents
<1>2. QED BY <1>1, ArchiveInvariant, PTL
=============================================================================
