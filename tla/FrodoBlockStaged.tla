-------------------------- MODULE FrodoBlockStaged --------------------------
(***************************************************************************)
(* The block-staged samplers of online/frodo/frodo_block_staged.c: one     *)
(* call first materializes a block of accepted candidates and their signs  *)
(* into a caller's workspace, then maps the whole block to samples, block  *)
(* after block.  kind = "sda" is frodo_sda_block_staged_sample_n, kind =   *)
(* "original" is frodo_original_block_staged_sample_n, which rejects       *)
(* nothing.  A clock callback brackets the two stages of every block.      *)
(***************************************************************************)
EXTENDS WordProfile

CONSTANTS
  DrawBits,    \* t->random_draw_bits, CandMod = 2^DrawBits
  InputWords,  \* source words enumerated
  Poison,      \* what output and workspace hold before the call
  MaxWords,    \* bound: longest source
  MaxN,        \* bound: most samples requested
  Blocks,      \* block sizes requested
  Capacities   \* workspace capacities provided

ASSUME StagedAssumption ==
  /\ DrawBits \in Nat
  /\ InputWords \subseteq Word
  /\ Poison \in Word
  /\ MaxWords \in Nat /\ MaxN \in Nat
  /\ Blocks \subseteq Nat /\ Capacities \subseteq Nat

VARIABLES
  kind,             \* which sampler
  known,            \* the table is one of the three the mapping dispatches on
  wantStats, timed, \* st # NULL, tm # NULL with a clock
  n, input,         \* request and source words
  block, capacity,  \* block size and workspace capacity
  candidates, signs,\* the workspace
  out,              \* the output buffer
  done, pos,        \* samples produced, words consumed by finished blocks
  scan, filled,     \* words read and slots filled by the current materialize
  st, tm,           \* *st and *tm
  clock, t0, t1,    \* the callback's clock and the marks of this block
  from,             \* history: source position of each materialized candidate
  pc, rc

call == <<kind, known, wantStats, timed, n, input, block, capacity>>
stage == <<candidates, signs, scan, filled, from>>
time == <<tm, clock, t0, t1>>
vars == <<call, stage, time, out, done, pos, st, pc, rc>>

ZeroStats == [attempts |-> 0, rejections |-> 0, random_bytes |-> 0, random_bits |-> 0]
StaleStats == [attempts |-> 99, rejections |-> 99, random_bytes |-> 99, random_bits |-> 99]
StaleTiming == [input |-> 99, mapping |-> 99]

\* Mutant: the last block is taken whole.
TakeFull == block

Take == IF n - done < block THEN n - done ELSE block

Init ==
  /\ kind \in {"sda", "original"}
  /\ known \in BOOLEAN
  /\ wantStats \in BOOLEAN /\ timed = wantStats
  /\ n \in 0 .. MaxN
  /\ input \in UNION {[1 .. k -> InputWords] : k \in 0 .. MaxWords}
  /\ block \in Blocks /\ capacity \in Capacities
  /\ candidates = [i \in 1 .. capacity |-> Poison]
  /\ signs = [i \in 1 .. capacity |-> 0]
  /\ out = [i \in 1 .. MaxN + 1 |-> Poison]
  /\ done = 0 /\ pos = 0 /\ scan = 0 /\ filled = 0
  /\ st = StaleStats /\ tm = StaleTiming
  /\ clock = 0 /\ t0 = 0 /\ t1 = 0
  /\ from = <<>>
  /\ pc = "check" /\ rc = 0

Stop(code) == pc' = "done" /\ rc' = code

WorkspaceOK == block > 0 /\ capacity >= block

\* Argument checks; they precede every write.
Check ==
  /\ pc = "check"
  /\ IF ~ WorkspaceOK \/ (kind = "original" /\ Len(input) < n)
     THEN Stop(-1) /\ UNCHANGED <<st, tm>>
     ELSE /\ pc' = "block" /\ rc' = rc
          /\ st' = IF wantStats THEN ZeroStats ELSE st
          /\ tm' = IF timed THEN [input |-> 0, mapping |-> 0] ELSE tm
  /\ UNCHANGED <<call, stage, out, done, pos, clock, t0, t1>>

BlockStart ==
  /\ pc = "block" /\ done < n
  /\ t0' = clock /\ scan' = 0 /\ filled' = 0
  /\ pc' = "materialize"
  /\ UNCHANGED <<call, candidates, signs, from, tm, clock, t1, out, done, pos, st, rc>>

\* Mutant: the slot index advances on rejected words too.
FillNoReject(c, s, accept) ==
  /\ candidates' = [candidates EXCEPT ![filled + 1] = c]
  /\ signs' = [signs EXCEPT ![filled + 1] = s]
  /\ filled' = filled + 1
  /\ from' = IF accept THEN Append(from, pos + scan + 1) ELSE from

\* Mutant: the candidate is stored only when accepted but its sign always goes
\* to the slot of the previous candidate.
FillSignBehind(c, s, accept) ==
  /\ candidates' = [candidates EXCEPT ![filled + 1] = c]
  /\ signs' = [signs EXCEPT ![IF filled = 0 THEN 1 ELSE filled] = s]
  /\ filled' = filled + (IF accept THEN 1 ELSE 0)
  /\ from' = IF accept THEN Append(from, pos + scan + 1) ELSE from

\* The branchless stores of one turn of the materialize loops.
Fill(c, s, accept) ==
  /\ candidates' = [candidates EXCEPT ![filled + 1] = c]
  /\ signs' = [signs EXCEPT ![filled + 1] = s]
  /\ filled' = filled + (IF accept THEN 1 ELSE 0)
  /\ from' = IF accept THEN Append(from, pos + scan + 1) ELSE from

Materializing ==
  /\ pc = "materialize"
  /\ filled < Take /\ pos + scan < Len(input)

\* Mutant: the source pointer stays put on a rejected word.
MaterializeSDAStuck ==
  /\ Materializing /\ kind = "sda" /\ known
  /\ LET z == input[pos + scan + 1] IN
       /\ Fill(Candidate(z), SignBit(z), Accepts(z))
       /\ scan' = scan + (IF Accepts(z) THEN 1 ELSE 0)
       /\ clock' = clock + (IF Accepts(z) THEN 1 ELSE 0)
  /\ UNCHANGED <<call, tm, t0, t1, out, done, pos, st, pc, rc>>

\* One word of materialize640/976/1344.
MaterializeSDA ==
  /\ Materializing /\ kind = "sda" /\ known
  /\ LET z == input[pos + scan + 1] IN Fill(Candidate(z), SignBit(z), Accepts(z))
  /\ scan' = scan + 1 /\ clock' = clock + 1
  /\ UNCHANGED <<call, tm, t0, t1, out, done, pos, st, pc, rc>>

\* One word of frodo_original_materialize_words, which knows no table.
MaterializeOriginal ==
  /\ Materializing /\ kind = "original"
  /\ LET z == input[pos + scan + 1] IN Fill(OrigValue(z), OrigSign(z), TRUE)
  /\ scan' = scan + 1 /\ clock' = clock + 1
  /\ UNCHANGED <<call, tm, t0, t1, out, done, pos, st, pc, rc>>

\* The block is complete: materialize reports the words it used.
Materialized ==
  /\ pc = "materialize" /\ filled = Take
  /\ t1' = clock /\ pc' = "map"
  /\ UNCHANGED <<call, stage, tm, clock, t0, out, done, pos, st, rc>>

\* materialize returned 0: the source ran out inside the block, or the SDA
\* dispatch met an unknown table.
MaterializeFailed ==
  /\ pc = "materialize" /\ filled < Take
  /\ pos + scan = Len(input) \/ (kind = "sda" /\ ~ known)
  /\ Stop(-2)
  /\ UNCHANGED <<call, stage, time, out, done, pos, st>>

MapSlot(i) ==
  IF kind = "sda" THEN MapParts(candidates[i], signs[i])
                  ELSE OrigMapParts(candidates[i], signs[i])

\* Mutant: the map always starts at the head of the output.
MapBlockAtHead ==
  /\ pc = "map" /\ known
  /\ out' = [i \in DOMAIN out |-> IF i <= Take THEN MapSlot(i) ELSE out[i]]
  /\ clock' = clock + Take
  /\ tm' = IF timed THEN [input   |-> tm.input + (t1 - t0),
                          mapping |-> tm.mapping + (clock' - t1)] ELSE tm
  /\ pos' = pos + scan /\ done' = done + Take /\ scan' = 0 /\ filled' = 0
  /\ pc' = "block"
  /\ UNCHANGED <<call, candidates, signs, from, t0, t1, st, rc>>

\* frodo_sda_map_materialized / frodo_original_map_materialized over the block,
\* and the bookkeeping after it.
MapBlock ==
  /\ pc = "map" /\ known
  /\ out' = [i \in DOMAIN out |->
               IF i \in done + 1 .. done + Take THEN MapSlot(i - done) ELSE out[i]]
  /\ clock' = clock + Take
  /\ tm' = IF timed THEN [input   |-> tm.input + (t1 - t0),
                          mapping |-> tm.mapping + (clock' - t1)] ELSE tm
  /\ pos' = pos + scan /\ done' = done + Take /\ scan' = 0 /\ filled' = 0
  /\ pc' = "block"
  /\ UNCHANGED <<call, candidates, signs, from, t0, t1, st, rc>>

\* The mapping dispatch rejects the table; reachable for "original" only, as
\* the SDA materialization has already failed on it.
MapFailed ==
  /\ pc = "map" /\ ~ known
  /\ Stop(-3)
  /\ UNCHANGED <<call, stage, time, out, done, pos, st>>

\* Mutant: attempts counts samples, not words.
FinalStatsSamples ==
  [attempts |-> n, rejections |-> pos - n, random_bytes |-> 2 * n,
   random_bits |-> DrawBits * pos + n]

\* The counters are reconstructed once, from pos and n.
FinalStats ==
  IF kind = "sda"
  THEN [attempts |-> pos, rejections |-> pos - n, random_bytes |-> 2 * pos,
        random_bits |-> DrawBits * pos + n]
  ELSE [attempts |-> n, rejections |-> 0, random_bytes |-> 2 * n, random_bits |-> 16 * n]

Finish ==
  /\ pc = "block" /\ done >= n
  /\ st' = IF wantStats THEN FinalStats ELSE st
  /\ Stop(0)
  /\ UNCHANGED <<call, stage, time, out, done, pos>>

Next ==
  \/ Check \/ BlockStart
  \/ MaterializeSDA \/ MaterializeOriginal \/ Materialized \/ MaterializeFailed
  \/ MapBlock \/ MapFailed
  \/ Finish

\* The sampler is straight-line sequential code: it keeps taking steps.
Spec == Init /\ [][Next]_vars /\ WF_vars(Next)

-----------------------------------------------------------------------------
Stats == [attempts : Nat, rejections : Nat, random_bytes : Nat, random_bits : Nat]

TypeOK ==
  /\ kind \in {"sda", "original"}
  /\ known \in BOOLEAN /\ wantStats \in BOOLEAN /\ timed \in BOOLEAN
  /\ n \in 0 .. MaxN
  /\ input \in Seq(Word)
  /\ block \in Blocks /\ capacity \in Capacities
  /\ candidates \in [1 .. capacity -> Word]
  /\ signs \in [1 .. capacity -> {0, 1}]
  /\ out \in [1 .. MaxN + 1 -> Word]
  /\ done \in 0 .. n
  /\ pos \in Nat /\ scan \in Nat /\ pos + scan <= Len(input)
  /\ filled \in 0 .. Take
  /\ st \in Stats
  /\ tm \in [input : Nat, mapping : Nat]
  /\ clock \in Nat /\ t0 \in 0 .. clock /\ t1 \in 0 .. clock
  /\ from \in Seq(1 .. Len(input))
  /\ pc \in {"check", "block", "materialize", "map", "done"}
  /\ rc \in {0, -1, -2, -3}

-----------------------------------------------------------------------------
(* Refinement and liveness *)

Finished(code) == pc = "done" /\ rc = code

Status ==
  IF Finished(0) THEN "ok"
  ELSE IF Finished(-2) /\ known THEN "exhausted" ELSE "sampling"

AcceptDraw(d) == d[1] = "original" \/ Accepts(d[2])
DrawImage(d) == IF d[1] = "sda" THEN Map(d[2]) ELSE OrigMap(d[2])

Sampling == INSTANCE RejectionSampling WITH
  Draw <- {"sda", "original"} \X Word, Accept <- AcceptDraw, Image <- DrawImage,
  draws <- [i \in 1 .. Len(input) |-> <<kind, input[i]>>],
  pos <- pos + scan, status <- Status,
  result <- IF Finished(0) THEN [i \in 1 .. n |-> out[i]] ELSE <<>>

\* Materializing a word is one abstract Consume; mapping a block stutters.
Implements == Sampling!Spec

\* A call returns whatever the source holds: the block loop always advances.
Terminates == <>(pc = "done")

-----------------------------------------------------------------------------
(* Safety *)

KeepsWord(z) == kind = "original" \/ Accepts(z)
ImageOf(z) == IF kind = "sda" THEN Map(z) ELSE OrigMap(z)

\* Words a fused loop has read when it has accepted m of them.
WordsFor(m) ==
  IF m = 0 THEN 0 ELSE CHOOSE k \in Sampling!Accepted : Sampling!Rank(k) = m

FusedStats ==
  LET used == WordsFor(n)
  IN  [attempts |-> used, rejections |-> used - n, random_bytes |-> 2 * used,
       random_bits |-> IF kind = "sda" THEN DrawBits * used + n ELSE 16 * n]

\* Staging is invisible in the result: whatever the block size, success leaves
\* the samples and the counters a fused call would have left, and attributes
\* every unit of work to one stage; -2 is a genuine shortage (or, for the SDA
\* kind, an unknown table).
StagedEqualsFused ==
  /\ Finished(0) =>
       /\ Sampling!HoldsFirst(out, n)
       /\ st = IF wantStats THEN FusedStats ELSE StaleStats
       /\ timed => tm.input = pos /\ tm.mapping = n
  /\ Finished(-2) =>
       \/ kind = "sda" /\ ~ known
       \/ Sampling!HoldsFewer(n) /\ pos + scan = Len(input)

\* At every moment the output holds whole finished blocks of correct samples
\* and nothing else; a failed call leaves no partial block behind, and leaves
\* the counters cleared, not partial.
WholeBlocksOnly ==
  /\ Sampling!HoldsFirst(out, done)
  /\ \A i \in done + 1 .. MaxN + 1 : out[i] = Poison
  /\ done % (IF block = 0 THEN 1 ELSE block) = 0 \/ done = n
  /\ pc # "check" /\ wantStats /\ ~ Finished(0) /\ ~ Finished(-1) => st = ZeroStats

\* What materialize leaves in a slot for a source word.
CandidateOf(z) == IF kind = "sda" THEN Candidate(z) ELSE OrigValue(z)
SignOf(z) == IF kind = "sda" THEN SignBit(z) ELSE OrigSign(z)

\* The workspace never goes stale and is never overrun: the block about to be
\* mapped holds exactly the parts of the accepted words of its own stretch of
\* the source, none left over from an earlier block, and no cell past the block
\* size is touched, however large the capacity.
WorkspaceDiscipline ==
  /\ \A i \in block + 1 .. capacity : candidates[i] = Poison /\ signs[i] = 0
  /\ pc = "map" =>
       \A i \in 1 .. Take :
         LET z == input[from[done + i]] IN
           /\ from[done + i] \in pos + 1 .. pos + scan
           /\ candidates[i] = CandidateOf(z)
           /\ signs[i] = SignOf(z)

\* The slots filled so far hold the parts of the words the history names, all
\* of this block's stretch.
SlotsFresh ==
  \A i \in 1 .. filled :
    /\ from[done + i] \in pos + 1 .. pos + scan
    /\ candidates[i] = CandidateOf(input[from[done + i]])
    /\ signs[i] = SignOf(input[from[done + i]])

\* Where the call is decides what the counters may be: finished blocks and the
\* slots of the current one account for the whole history, with no more samples
\* than words.
Control ==
  /\ pc \in {"block", "materialize", "map"} => WorkspaceOK
  /\ pc \in {"check", "block"} => scan = 0 /\ filled = 0
  /\ pc = "check" => done = 0
  /\ pc = "map" => filled = Take /\ t0 <= t1
  /\ Finished(0) => done = n
  /\ Finished(-2) /\ known => filled < Take /\ pos + scan = Len(input)
  /\ filled <= scan /\ done <= pos
  /\ Len(from) = done + filled

\* No cell of the workspace past the block size is ever written.
SlackUntouched ==
  \A i \in block + 1 .. capacity : candidates[i] = Poison /\ signs[i] = 0

\* Every finished sample is the image of the word the history names, and no
\* other cell of the output is written.
FinishedExact ==
  /\ \A i \in 1 .. done : out[i] = ImageOf(input[from[i]])
  /\ \A i \in done + 1 .. MaxN + 1 : out[i] = Poison

\* Blocks are whole, and the source is read no further than the last word a
\* block needed.
Boundaries ==
  /\ done = n \/ done % (IF block = 0 THEN 1 ELSE block) = 0
  /\ pc \in {"materialize", "map"} => done < n
  /\ pos = IF done = 0 THEN 0 ELSE from[done]
  /\ pc \in {"materialize", "map"} /\ filled = Take => from[done + filled] = pos + scan
  /\ kind = "original" => pos = done /\ scan = filled
  /\ Finished(-2) =>
       (kind = "sda" /\ ~ known) \/ (filled < Take /\ pos + scan = Len(input))

\* The counters stay cleared until the call succeeds, and each finished block
\* has been timed word by word.
Accounting ==
  /\ st = IF ~ wantStats \/ pc = "check" \/ Finished(-1) THEN StaleStats
          ELSE IF Finished(0) THEN FinalStats ELSE ZeroStats
  /\ timed /\ pc # "check" /\ ~ Finished(-1) => tm.input = pos /\ tm.mapping = done
  /\ pc \in {"materialize", "map"} => clock = t0 + scan
  /\ pc = "map" => t1 = clock

\* The inductive invariant: the workspace and the samples, then what the whole
\* call accounts for.
StageInv == TypeOK /\ Control /\ SlotsFresh /\ SlackUntouched /\ FinishedExact
CallInv == StageInv /\ Boundaries /\ Accounting
=============================================================================
