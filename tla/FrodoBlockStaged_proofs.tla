---------------------- MODULE FrodoBlockStaged_proofs ----------------------
(***************************************************************************)
(* Proofs about the block-staged samplers, for every word size, table,     *)
(* source, block size and workspace capacity: the inductive invariant, the *)
(* discipline of the reused workspace, and that staging implements bounded *)
(* rejection sampling.                                                     *)
(***************************************************************************)
EXTENDS FrodoBlockStaged, TLAPS

\* What holds of every implementation of bounded rejection sampling, under the
\* substitution of this one.
Promise == INSTANCE RejectionSampling_proofs WITH
  Draw <- {"sda", "original"} \X Word, Accept <- AcceptDraw, Image <- DrawImage,
  draws <- [i \in 1 .. Len(input) |-> <<kind, input[i]>>],
  pos <- pos + scan, status <- Status,
  result <- IF Finished(0) THEN [i \in 1 .. n |-> out[i]] ELSE <<>>

(***************************************************************************)
(* Types of the word profile's operators.                                  *)
(***************************************************************************)

\* The thresholds below a candidate number at most the thresholds.
LEMMA CountType ==
  /\ \A c : Ge(c) \in 0 .. Len(Thresholds)
  /\ \A c : Gt(c) \in 0 .. Len(OrigThresholds)
<1> SUFFICES ASSUME NEW c
             PROVE  Ge(c) \in 0 .. Len(Thresholds) /\ Gt(c) \in 0 .. Len(OrigThresholds)
  OBVIOUS
<1> DEFINE S == {i \in DOMAIN Thresholds : c >= Thresholds[i]}
           T == {i \in DOMAIN OrigThresholds : c > OrigThresholds[i]}
<1>1. /\ Len(Thresholds) \in Nat /\ S \subseteq 1 .. Len(Thresholds)
      /\ Len(OrigThresholds) \in Nat /\ T \subseteq 1 .. Len(OrigThresholds)
  BY ProfileAssumption
<1> HIDE DEF S, T
<1>2. /\ Cardinality(S) \in 0 .. Len(Thresholds)
      /\ Cardinality(T) \in 0 .. Len(OrigThresholds)
  BY <1>1, Promise!CountBound DEF Cardinality, Promise!Cardinality
<1> QED BY <1>2 DEF S, T, Ge, Gt

\* A mapped sample is again a word, for either table: the count stays below
\* WordMod and the sign conversion wraps modulo WordMod.
LEMMA MapPartsType ==
  \A c, s : MapParts(c, s) \in Word /\ OrigMapParts(c, s) \in Word
<1>1. /\ WordMod \in Nat \ {0}
      /\ Len(Thresholds) \in Nat /\ Len(Thresholds) < WordMod
      /\ Len(OrigThresholds) \in Nat /\ Len(OrigThresholds) < WordMod
  BY ProfileAssumption
<1>2. ASSUME NEW m \in Nat, m < WordMod, NEW s PROVE ApplySign(m, s) \in Word
  <2>1. ((WordMod - 1 - m) + 1) \in Nat
    BY <1>1, <1>2
  <2>2. ((WordMod - 1 - m) + 1) % WordMod \in 0 .. WordMod - 1
    BY <1>1, <2>1
  <2> QED BY <1>1, <1>2, <2>2 DEF ApplySign, Word
<1>3. \A c : /\ Ge(c) \in Nat /\ Ge(c) < WordMod
             /\ Gt(c) \in Nat /\ Gt(c) < WordMod
  BY <1>1, CountType
<1> QED BY <1>2, <1>3 DEF MapParts, OrigMapParts

\* The parts of a word: a candidate or value that is itself a word, and a bit.
LEMMA PartsType ==
  ASSUME NEW z \in Word
  PROVE  /\ Candidate(z) \in Word /\ SignBit(z) \in {0, 1}
         /\ OrigValue(z) \in Word /\ OrigSign(z) \in {0, 1}
<1>1. /\ WordMod \in Nat \ {0} /\ CandMod \in Nat \ {0} /\ CandMod <= WordMod
      /\ z \in Nat /\ z < WordMod
  BY ProfileAssumption DEF Word
<1>2. z % CandMod \in 0 .. CandMod - 1
  BY <1>1
<1>3. z \div CandMod \in Nat
  BY <1>1
<1>4. (z \div CandMod) % 2 \in 0 .. 1
  BY <1>3
<1>5. z \div 2 \in 0 .. z /\ z % 2 \in 0 .. 1
  BY <1>1
<1> QED BY <1>1, <1>2, <1>4, <1>5 DEF Candidate, SignBit, OrigValue, OrigSign, Word

(***************************************************************************)
(* The state.                                                              *)
(***************************************************************************)

MaterializeWord == MaterializeSDA \/ MaterializeOriginal

\* The numbers the invariant relates.
LEMMA Numbers ==
  ASSUME StageInv
  PROVE  /\ n \in Nat /\ done \in Nat /\ done <= n /\ n <= MaxN /\ MaxN \in Nat
         /\ block \in Nat /\ capacity \in Nat
         /\ filled \in Nat /\ filled <= Take /\ Take \in Nat
         /\ Take <= block /\ done + Take <= n
         /\ pos \in Nat /\ scan \in Nat /\ Len(input) \in Nat
         /\ pos + scan <= Len(input)
         /\ clock \in Nat /\ t0 \in Nat /\ t1 \in Nat /\ t0 <= clock /\ t1 <= clock
<1>1. MaxN \in Nat /\ Blocks \subseteq Nat /\ Capacities \subseteq Nat
  BY StagedAssumption
<1>2. /\ n \in 0 .. MaxN /\ done \in 0 .. n /\ block \in Nat /\ capacity \in Nat
  BY <1>1 DEF StageInv, TypeOK
<1>3. n \in Nat /\ done \in Nat /\ done <= n /\ n <= MaxN
  BY <1>1, <1>2
<1>4. Take \in Nat /\ Take <= block /\ done + Take <= n
  BY <1>2, <1>3 DEF Take
<1>5. filled \in 0 .. Take
  BY DEF StageInv, TypeOK
<1>6. filled \in Nat /\ filled <= Take
  BY <1>4, <1>5
<1>7. /\ pos \in Nat /\ scan \in Nat /\ Len(input) \in Nat /\ pos + scan <= Len(input)
      /\ clock \in Nat /\ t0 \in 0 .. clock /\ t1 \in 0 .. clock
  BY DEF StageInv, TypeOK
<1> QED BY <1>1, <1>2, <1>3, <1>4, <1>6, <1>7

\* What a word of either kind of source materializes into.
LEMMA SlotType ==
  ASSUME NEW z \in Word
  PROVE  CandidateOf(z) \in Word /\ SignOf(z) \in {0, 1}
BY PartsType DEF CandidateOf, SignOf

\* Mapping the parts of a word gives the image of the word.
LEMMA SlotImage ==
  ASSUME kind \in {"sda", "original"}, NEW i, NEW z,
         candidates[i] = CandidateOf(z), signs[i] = SignOf(z)
  PROVE  MapSlot(i) = ImageOf(z)
BY DEF MapSlot, ImageOf, CandidateOf, SignOf, Map, OrigMap

LEMMA MapSlotType == \A i : MapSlot(i) \in Word
BY MapPartsType DEF MapSlot

(***************************************************************************)
(* The inductive invariant.                                                *)
(***************************************************************************)

LEMMA InitInv == Init => StageInv
<1> SUFFICES ASSUME Init PROVE StageInv
  OBVIOUS
<1>1. /\ MaxWords \in Nat /\ MaxN \in Nat /\ InputWords \subseteq Word
      /\ Poison \in Word /\ Blocks \subseteq Nat /\ Capacities \subseteq Nat
  BY StagedAssumption
<1>2. PICK k \in 0 .. MaxWords : input \in [1 .. k -> InputWords]
  BY DEF Init
<1>3. k \in Nat /\ input \in [1 .. k -> Word]
  BY <1>1, <1>2
<1>4. input \in Seq(Word) /\ Len(input) = k
  BY <1>3
<1>5. /\ n \in 0 .. MaxN /\ n \in Nat /\ block \in Nat /\ capacity \in Nat
      /\ done = 0 /\ pos = 0 /\ scan = 0 /\ filled = 0 /\ clock = 0 /\ t0 = 0 /\ t1 = 0
      /\ from = <<>> /\ pc = "check" /\ rc = 0
  BY <1>1 DEF Init
<1>6. Take \in Nat
  BY <1>5 DEF Take
<1>7. /\ candidates \in [1 .. capacity -> Word] /\ signs \in [1 .. capacity -> {0, 1}]
      /\ out \in [1 .. MaxN + 1 -> Word]
      /\ st \in Stats /\ tm \in [input : Nat, mapping : Nat]
  BY <1>1 DEF Init, StaleStats, StaleTiming, Stats
<1>8. from \in Seq(1 .. Len(input)) /\ Len(from) = 0
  BY <1>5
<1>9. TypeOK
  <2>1. /\ kind \in {"sda", "original"} /\ known \in BOOLEAN
        /\ wantStats \in BOOLEAN /\ timed \in BOOLEAN
        /\ block \in Blocks /\ capacity \in Capacities
    BY DEF Init
  <2> QED BY <1>3, <1>4, <1>5, <1>6, <1>7, <1>8, <2>1 DEF TypeOK
<1>10. SlackUntouched
  BY <1>5 DEF Init, SlackUntouched
<1>11. SlotsFresh
  BY <1>5 DEF SlotsFresh
<1>12. FinishedExact
  BY <1>1, <1>5 DEF Init, FinishedExact
<1>13. Control
  BY <1>5, <1>8 DEF Control, Finished
<1> QED BY <1>9, <1>10, <1>11, <1>12, <1>13 DEF StageInv

\* A step that leaves the workspace, the history, the output and the finished
\* blocks alone, and either the slots or their count at zero, keeps what the
\* invariant says of the data.
LEMMA Frame ==
  ASSUME StageInv,
         UNCHANGED <<kind, input, block, capacity, candidates, signs, from, out, done, pos>>,
         UNCHANGED <<scan, filled>> \/ filled' = 0
  PROVE  SlotsFresh' /\ SlackUntouched' /\ FinishedExact'
<1>1. SlackUntouched'
  BY DEF StageInv, SlackUntouched
<1>2. FinishedExact'
  BY DEF StageInv, FinishedExact, ImageOf
<1>3. CASE UNCHANGED <<scan, filled>>
  BY <1>1, <1>2, <1>3 DEF StageInv, SlotsFresh, CandidateOf, SignOf
<1>4. CASE filled' = 0
  BY <1>1, <1>2, <1>4 DEF SlotsFresh
<1> QED BY <1>3, <1>4

\* A turn of either materialize loop: one word read, its parts stored in the
\* next slot, which is kept if the word is.
LEMMA WordCommon ==
  ASSUME StageInv, MaterializeWord
  PROVE  LET z == input[pos + scan + 1] IN
         /\ pc = "materialize" /\ filled < Take /\ pos + scan < Len(input)
         /\ candidates' = [candidates EXCEPT ![filled + 1] = CandidateOf(z)]
         /\ signs' = [signs EXCEPT ![filled + 1] = SignOf(z)]
         /\ \/ /\ KeepsWord(z)
               /\ filled' = filled + 1 /\ from' = Append(from, pos + scan + 1)
            \/ ~ KeepsWord(z) /\ filled' = filled /\ from' = from
         /\ scan' = scan + 1 /\ clock' = clock + 1
         /\ UNCHANGED <<kind, known, wantStats, timed, n, input, block, capacity>>
         /\ UNCHANGED <<tm, t0, t1, out, done, pos, st, pc, rc>>
<1> DEFINE z == input[pos + scan + 1]
<1>0. filled + 0 = filled
  BY Numbers
<1>1. CASE MaterializeSDA
  <2>1. kind = "sda" /\ Fill(CandidateOf(z), SignOf(z), Accepts(z))
    BY <1>1 DEF MaterializeSDA, CandidateOf, SignOf
  <2>2. Fill(CandidateOf(z), SignOf(z), KeepsWord(z))
    <3>1. KeepsWord(z) <=> Accepts(z)
      BY <2>1 DEF KeepsWord
    <3> QED BY <2>1, <3>1 DEF Fill
  <2> QED BY <1>0, <1>1, <2>2 DEF MaterializeSDA, Materializing, Fill, call
<1>2. CASE MaterializeOriginal
  <2>1. kind = "original" /\ Fill(CandidateOf(z), SignOf(z), TRUE)
    BY <1>2 DEF MaterializeOriginal, CandidateOf, SignOf
  <2>2. KeepsWord(z)
    BY <2>1 DEF KeepsWord
  <2> QED BY <1>2, <2>1, <2>2 DEF MaterializeOriginal, Materializing, Fill, call
<1> QED BY <1>1, <1>2 DEF MaterializeWord

LEMMA WordInv == StageInv /\ MaterializeWord => StageInv'
<1> SUFFICES ASSUME StageInv, MaterializeWord PROVE StageInv'
  OBVIOUS
<1> DEFINE k == pos + scan + 1
           z == input[k]
<1>1. /\ pc = "materialize" /\ filled < Take /\ pos + scan < Len(input)
      /\ candidates' = [candidates EXCEPT ![filled + 1] = CandidateOf(z)]
      /\ signs' = [signs EXCEPT ![filled + 1] = SignOf(z)]
      /\ \/ filled' = filled + 1 /\ from' = Append(from, k)
         \/ filled' = filled /\ from' = from
      /\ scan' = scan + 1 /\ clock' = clock + 1
      /\ UNCHANGED <<kind, known, wantStats, timed, n, input, block, capacity>>
      /\ UNCHANGED <<tm, t0, t1, out, done, pos, st, pc, rc>>
  BY WordCommon
<1>2. /\ n \in Nat /\ done \in Nat /\ block \in Nat /\ capacity \in Nat
      /\ filled \in Nat /\ Take \in Nat /\ Take <= block /\ done + Take <= n
      /\ pos \in Nat /\ scan \in Nat /\ Len(input) \in Nat
      /\ clock \in Nat /\ t0 \in Nat /\ t1 \in Nat /\ t0 <= clock /\ t1 <= clock
      /\ n <= MaxN /\ MaxN \in Nat
  BY Numbers
<1>3. block <= capacity /\ filled + 1 \in 1 .. capacity /\ filled + 1 <= block
  BY <1>1, <1>2 DEF StageInv, Control, WorkspaceOK
<1>4. /\ k \in 1 .. Len(input) /\ input \in Seq(Word)
      /\ from \in Seq(1 .. Len(input)) /\ Len(from) = done + filled
      /\ candidates \in [1 .. capacity -> Word]
      /\ signs \in [1 .. capacity -> {0, 1}]
  BY <1>1, <1>2 DEF StageInv, TypeOK, Control
<1>5. z \in Word
  BY <1>4
<1>6. Take' = Take
  BY <1>1 DEF Take
<1>7. CandidateOf(z) \in Word /\ SignOf(z) \in {0, 1}
  BY <1>5, SlotType
<1>8. /\ \A x : CandidateOf(x)' = CandidateOf(x)
      /\ \A x : SignOf(x)' = SignOf(x)
      /\ \A x : ImageOf(x)' = ImageOf(x)
  BY <1>1 DEF CandidateOf, SignOf, ImageOf
<1> HIDE DEF k, z
<1>9. /\ from' \in Seq(1 .. Len(input))
      /\ Len(from') = done + filled'
      /\ \A i \in 1 .. Len(from) : from'[i] = from[i]
      /\ filled' = filled + 1 => from'[done + filled + 1] = k
  <2> DEFINE S == 1 .. Len(input)
  <2>1. from \in Seq(S) /\ k \in S
    BY <1>4
  <2> HIDE DEF S
  <2>2. CASE filled' = filled /\ from' = from
    BY <1>2, <1>4, <2>1, <2>2 DEF S
  <2>3. CASE filled' = filled + 1 /\ from' = Append(from, k)
    <3>1. from' \in Seq(S) /\ Len(from') = Len(from) + 1
      BY <2>1, <2>3
    <3>2. \A i \in 1 .. Len(from) : from'[i] = from[i]
      BY <2>1, <2>3
    <3>3. from'[Len(from) + 1] = k
      BY <2>1, <2>3
    <3> QED BY <1>2, <1>4, <2>3, <3>1, <3>2, <3>3 DEF S
  <2> QED BY <1>1, <2>2, <2>3
<1>10. /\ candidates' \in [1 .. capacity -> Word] /\ signs' \in [1 .. capacity -> {0, 1}]
       /\ candidates'[filled + 1] = CandidateOf(z) /\ signs'[filled + 1] = SignOf(z)
       /\ \A i \in 1 .. capacity :
            i # filled + 1 => candidates'[i] = candidates[i] /\ signs'[i] = signs[i]
  BY <1>1, <1>3, <1>4, <1>7
<1>11. TypeOK'
  <2>1. filled' \in 0 .. Take' /\ scan' \in Nat /\ pos' + scan' <= Len(input)
    BY <1>1, <1>2, <1>6
  <2>2. clock' \in Nat /\ t0' \in 0 .. clock' /\ t1' \in 0 .. clock'
    BY <1>1, <1>2
  <2> QED BY <1>1, <1>9, <1>10, <2>1, <2>2 DEF TypeOK, StageInv, Stats
<1>12. Control'
  <2>1. filled' <= scan' /\ done' <= pos'
    BY <1>1, <1>2 DEF StageInv, Control
  <2>2. pc' = "materialize" /\ WorkspaceOK'
    BY <1>1 DEF StageInv, Control, WorkspaceOK
  <2> QED BY <1>1, <1>9, <2>1, <2>2 DEF Control, Finished
<1>13. SlotsFresh'
  <2> SUFFICES ASSUME NEW i \in 1 .. filled'
               PROVE  /\ from'[done + i] \in pos + 1 .. pos + scan'
                      /\ candidates'[i] = CandidateOf(input[from'[done + i]])
                      /\ signs'[i] = SignOf(input[from'[done + i]])
    BY <1>1, <1>8 DEF SlotsFresh
  <2>1. CASE i \in 1 .. filled
    <3>1. i \in 1 .. capacity /\ i # filled + 1 /\ done + i \in 1 .. Len(from)
      BY <1>2, <1>3, <1>4, <2>1
    <3>2. candidates'[i] = candidates[i] /\ signs'[i] = signs[i]
      BY <1>10, <3>1
    <3>3. from'[done + i] = from[done + i]
      BY <1>9, <3>1
    <3>4. /\ from[done + i] \in pos + 1 .. pos + scan
          /\ candidates[i] = CandidateOf(input[from[done + i]])
          /\ signs[i] = SignOf(input[from[done + i]])
      BY <2>1 DEF StageInv, SlotsFresh
    <3>5. from[done + i] \in pos + 1 .. pos + scan'
      BY <1>1, <1>2, <3>4
    <3> QED BY <3>2, <3>3, <3>4, <3>5
  <2>2. CASE i \notin 1 .. filled
    <3>1. i = filled + 1 /\ filled' = filled + 1
      BY <1>1, <1>2, <2>2
    <3>2. from'[done + i] = k
      BY <1>2, <1>9, <3>1
    <3>3. k \in pos + 1 .. pos + scan'
      BY <1>1, <1>2 DEF k
    <3> QED BY <1>10, <3>1, <3>2, <3>3 DEF z
  <2> QED BY <2>1, <2>2
<1>14. SlackUntouched'
  <2> SUFFICES ASSUME NEW i \in block + 1 .. capacity
               PROVE  candidates'[i] = Poison /\ signs'[i] = 0
    BY <1>1 DEF SlackUntouched
  <2>1. i \in 1 .. capacity /\ i # filled + 1
    BY <1>2, <1>3
  <2>2. candidates'[i] = candidates[i] /\ signs'[i] = signs[i]
    BY <1>10, <2>1
  <2> QED BY <2>2 DEF StageInv, SlackUntouched
<1>15. FinishedExact'
  <2>1. \A i \in 1 .. done : from'[i] = from[i]
    BY <1>2, <1>4, <1>9
  <2>2. \A i \in 1 .. done : out[i] = ImageOf(input[from'[i]])
    BY <2>1 DEF StageInv, FinishedExact
  <2> QED BY <1>1, <1>8, <2>2 DEF StageInv, FinishedExact
<1> QED BY <1>11, <1>12, <1>13, <1>14, <1>15 DEF StageInv

\* The argument checks, the start of a block, the return of materialize and
\* the three ways out move the control only.
LEMMA ControlSteps ==
  ASSUME StageInv,
         \/ Check \/ BlockStart \/ Materialized
         \/ MaterializeFailed \/ MapFailed \/ Finish \/ UNCHANGED vars
  PROVE  StageInv'
<1>1. /\ n \in Nat /\ done \in Nat /\ done <= n
      /\ filled \in Nat /\ filled <= Take /\ Take \in Nat
      /\ pos \in Nat /\ scan \in Nat /\ pos + scan <= Len(input)
      /\ clock \in Nat /\ t0 \in Nat /\ t1 \in Nat /\ t0 <= clock /\ t1 <= clock
  BY Numbers
<1>2. /\ UNCHANGED <<kind, known, wantStats, timed, n, input, block, capacity>>
      /\ UNCHANGED <<candidates, signs, from, out, done, pos, clock>>
      /\ UNCHANGED <<scan, filled>> \/ filled' = 0
  BY DEF Check, BlockStart, Materialized, MaterializeFailed, MapFailed, Finish,
         vars, call, stage, time
<1>3. SlotsFresh' /\ SlackUntouched' /\ FinishedExact'
  BY <1>2, Frame
<1>4. Take' = Take
  BY <1>2 DEF Take
<1>5. WorkspaceOK' = WorkspaceOK
  BY <1>2 DEF WorkspaceOK
<1> DEFINE Moved == /\ st' \in Stats /\ tm' \in [input : Nat, mapping : Nat]
                    /\ scan' \in Nat /\ pos' + scan' <= Len(input') /\ filled' \in 0 .. Take'
                    /\ t0' \in 0 .. clock' /\ t1' \in 0 .. clock'
                    /\ pc' \in {"check", "block", "materialize", "map", "done"}
                    /\ rc' \in {0, -1, -2, -3}
<1>6. Moved => TypeOK'
  BY <1>2 DEF StageInv, TypeOK
<1>7. CASE Check
  <2>1. Moved
    BY <1>1, <1>2, <1>4, <1>7 DEF Check, Stop, stage, ZeroStats, Stats, StageInv, TypeOK
  <2>2. Control'
    BY <1>2, <1>7 DEF Check, Stop, stage, StageInv, Control, WorkspaceOK, Finished
  <2> QED BY <1>3, <1>6, <2>1, <2>2 DEF StageInv
<1>8. CASE BlockStart
  <2>1. Moved
    BY <1>1, <1>2, <1>4, <1>8 DEF BlockStart, StageInv, TypeOK
  <2>2. Control'
    BY <1>1, <1>2, <1>5, <1>8 DEF BlockStart, StageInv, Control, Finished
  <2> QED BY <1>3, <1>6, <2>1, <2>2 DEF StageInv
<1>9. CASE Materialized
  <2>1. Moved
    BY <1>1, <1>2, <1>4, <1>9 DEF Materialized, stage, StageInv, TypeOK
  <2>2. Control'
    BY <1>1, <1>2, <1>4, <1>5, <1>9 DEF Materialized, stage, StageInv, Control, Finished
  <2> QED BY <1>3, <1>6, <2>1, <2>2 DEF StageInv
<1>10. CASE MaterializeFailed
  <2>1. Moved
    BY <1>1, <1>2, <1>4, <1>10 DEF MaterializeFailed, Stop, stage, time, StageInv, TypeOK
  <2>2. Control'
    BY <1>1, <1>2, <1>4, <1>10
       DEF MaterializeFailed, Stop, stage, time, StageInv, Control, Finished
  <2> QED BY <1>3, <1>6, <2>1, <2>2 DEF StageInv
<1>11. CASE MapFailed
  <2>1. Moved
    BY <1>1, <1>2, <1>4, <1>11 DEF MapFailed, Stop, stage, time, StageInv, TypeOK
  <2>2. Control'
    BY <1>1, <1>2, <1>11 DEF MapFailed, Stop, stage, time, StageInv, Control, Finished
  <2> QED BY <1>3, <1>6, <2>1, <2>2 DEF StageInv
<1>12. CASE Finish
  <2>1. pos - n \in Nat /\ 2 * pos \in Nat /\ 2 * n \in Nat /\ 16 * n \in Nat
    BY <1>1, <1>12 DEF Finish, StageInv, Control
  <2>2. DrawBits * pos + n \in Nat
    <3>1. DrawBits \in Nat
      BY StagedAssumption
    <3> QED BY <1>1, <3>1
  <2>3. FinalStats \in Stats
    BY <1>1, <2>1, <2>2 DEF FinalStats, Stats
  <2>4. Moved
    <3>1. st' \in Stats
      BY <1>12, <2>3 DEF Finish, StageInv, TypeOK
    <3> QED BY <1>1, <1>2, <1>4, <1>12, <3>1 DEF Finish, Stop, stage, time, StageInv, TypeOK
  <2>5. Control'
    BY <1>1, <1>2, <1>12 DEF Finish, Stop, stage, time, StageInv, Control, Finished
  <2> QED BY <1>3, <1>6, <2>4, <2>5 DEF StageInv
<1>13. CASE UNCHANGED vars
  <2>1. Moved
    BY <1>1, <1>2, <1>4, <1>13 DEF vars, stage, time, StageInv, TypeOK
  <2>2. Control'
    BY <1>4, <1>5, <1>13 DEF vars, stage, call, time, StageInv, Control, Finished
  <2> QED BY <1>3, <1>6, <2>1, <2>2 DEF StageInv
<1> QED BY <1>7, <1>8, <1>9, <1>10, <1>11, <1>12, <1>13

\* Mapping a block turns its fresh slots into finished samples.
LEMMA MapInv == StageInv /\ MapBlock => StageInv'
<1> SUFFICES ASSUME StageInv, MapBlock PROVE StageInv'
  OBVIOUS
<1>1. /\ n \in Nat /\ done \in Nat /\ done <= n /\ n <= MaxN /\ MaxN \in Nat
      /\ block \in Nat /\ capacity \in Nat
      /\ filled = Take /\ Take \in Nat /\ done + Take <= n
      /\ pos \in Nat /\ scan \in Nat /\ Len(input) \in Nat /\ pos + scan <= Len(input)
      /\ clock \in Nat /\ t0 \in Nat /\ t1 \in Nat /\ t0 <= t1 /\ t1 <= clock
      /\ filled <= scan /\ done <= pos /\ Len(from) = done + Take
      /\ WorkspaceOK
  BY Numbers DEF MapBlock, StageInv, Control
<1>2. /\ out' = [i \in DOMAIN out |->
                   IF i \in done + 1 .. done + Take THEN MapSlot(i - done) ELSE out[i]]
      /\ clock' = clock + Take /\ pos' = pos + scan /\ done' = done + Take
      /\ scan' = 0 /\ filled' = 0 /\ pc' = "block"
      /\ UNCHANGED <<kind, known, wantStats, timed, n, input, block, capacity>>
      /\ UNCHANGED <<candidates, signs, from, t0, t1, st, rc>>
  BY DEF MapBlock, call
<1>3. out \in [1 .. MaxN + 1 -> Word] /\ kind \in {"sda", "original"}
  BY DEF StageInv, TypeOK
<1>4. TypeOK'
  <2>1. out' \in [1 .. MaxN + 1 -> Word]
    BY <1>2, <1>3, MapSlotType
  <2>2. tm' \in [input : Nat, mapping : Nat]
    <3>1. tm.input \in Nat /\ tm.mapping \in Nat /\ tm \in [input : Nat, mapping : Nat]
      BY DEF StageInv, TypeOK
    <3>2. tm.input + (t1 - t0) \in Nat /\ tm.mapping + (clock' - t1) \in Nat
      BY <1>1, <1>2, <3>1
    <3> QED BY <3>1, <3>2 DEF MapBlock
  <2>3. done' \in 0 .. n' /\ Take' \in Nat
    BY <1>1, <1>2 DEF Take
  <2>4. pos' \in Nat /\ scan' \in Nat /\ pos' + scan' <= Len(input') /\ filled' \in 0 .. Take'
    BY <1>1, <1>2, <2>3
  <2>5. clock' \in Nat /\ t0' \in 0 .. clock' /\ t1' \in 0 .. clock'
    BY <1>1, <1>2
  <2> QED BY <1>2, <2>1, <2>2, <2>3, <2>4, <2>5 DEF StageInv, TypeOK
<1>5. Control'
  <2>1. WorkspaceOK'
    BY <1>1, <1>2 DEF WorkspaceOK
  <2> QED BY <1>1, <1>2, <2>1 DEF Control, Finished
<1>6. SlotsFresh' /\ SlackUntouched'
  BY <1>2 DEF StageInv, SlotsFresh, SlackUntouched
<1>7. FinishedExact'
  <2>1. \A x : ImageOf(x)' = ImageOf(x)
    BY <1>2 DEF ImageOf
  <2>2. \A i \in 1 .. done' : out'[i] = ImageOf(input[from[i]])
    <3> SUFFICES ASSUME NEW i \in 1 .. done' PROVE out'[i] = ImageOf(input[from[i]])
      OBVIOUS
    <3>1. i \in 1 .. MaxN + 1
      BY <1>1, <1>2
    <3>2. CASE i \in 1 .. done
      <4>1. out'[i] = out[i]
        BY <1>1, <1>2, <1>3, <3>1, <3>2
      <4> QED BY <3>2, <4>1 DEF StageInv, FinishedExact
    <3>3. CASE i \notin 1 .. done
      <4>1. i - done \in 1 .. filled /\ done + (i - done) = i
        BY <1>1, <1>2, <3>3
      <4>2. out'[i] = MapSlot(i - done)
        BY <1>1, <1>2, <1>3, <3>1, <3>3
      <4>3. /\ candidates[i - done] = CandidateOf(input[from[i]])
            /\ signs[i - done] = SignOf(input[from[i]])
        BY <4>1 DEF StageInv, SlotsFresh
      <4> QED BY <1>3, <4>2, <4>3, SlotImage
    <3> QED BY <3>2, <3>3
  <2>3. \A i \in done' + 1 .. MaxN + 1 : out'[i] = Poison
    <3> SUFFICES ASSUME NEW i \in done' + 1 .. MaxN + 1 PROVE out'[i] = Poison
      OBVIOUS
    <3>1. i \in 1 .. MaxN + 1 /\ i \in done + 1 .. MaxN + 1 /\ i \notin done + 1 .. done + Take
      BY <1>1, <1>2
    <3>2. out'[i] = out[i]
      BY <1>2, <1>3, <3>1
    <3> QED BY <3>1, <3>2 DEF StageInv, FinishedExact
  <2> QED BY <1>2, <2>1, <2>2, <2>3 DEF FinishedExact
<1> QED BY <1>4, <1>5, <1>6, <1>7 DEF StageInv

\* The invariant holds at every step of every call: each slot and each finished
\* sample belongs to the source word the history names, and nothing outside
\* them is written.
THEOREM StageInvariant == Spec => []StageInv
<1>1. StageInv /\ [Next]_vars => StageInv'
  <2> SUFFICES ASSUME StageInv, [Next]_vars PROVE StageInv'
    OBVIOUS
  <2>1. CASE MaterializeWord
    BY <2>1, WordInv
  <2>2. CASE MapBlock
    BY <2>2, MapInv
  <2>3. CASE \/ Check \/ BlockStart \/ Materialized
             \/ MaterializeFailed \/ MapFailed \/ Finish \/ UNCHANGED vars
    BY <2>3, ControlSteps
  <2> QED BY <2>1, <2>2, <2>3 DEF Next, MaterializeWord
<1> QED BY <1>1, InitInv, PTL DEF Spec

(***************************************************************************)
(* What the whole call accounts for.                                       *)
(***************************************************************************)

\* A block of the full size keeps the samples a multiple of the block size.
LEMMA NextMultiple ==
  ASSUME NEW b \in Nat \ {0}, NEW d \in Nat, d % b = 0
  PROVE  (d + b) % b = 0
<1> DEFINE k == d \div b
           q == (d + b) \div b
           r == (d + b) % b
<1>1. k \in Nat /\ d = b * k
  <2>1. k \in Nat /\ d = b * k + (d % b)
    BY SMT
  <2>2. b * k \in Nat
    BY <2>1
  <2> QED BY <2>1, <2>2
<1>2. d + b \in Nat
  OBVIOUS
<1>3. q \in Nat /\ r \in 0 .. b - 1 /\ d + b = b * q + r
  BY <1>2, SMT
<1>4. b * k \in Nat /\ b * q \in Nat /\ b * k + b = b * q + r
  BY <1>1, <1>3
<1> HIDE DEF k, q, r
<1>5. ~ (q < k + 1)
  <2>1. ASSUME q < k + 1 PROVE b * q <= b * k
    BY <1>1, <1>3, <2>1
  <2> QED BY <1>3, <1>4, <2>1
<1>6. ~ (k + 1 < q)
  <2>1. ASSUME k + 1 < q PROVE b * (k + 2) <= b * q /\ b * (k + 2) = b * k + b + b
    BY <1>1, <1>3, <2>1
  <2> QED BY <1>3, <1>4, <2>1
<1>7. q = k + 1
  BY <1>1, <1>3, <1>5, <1>6
<1>8. b * (k + 1) = b * k + b
  BY <1>1
<1>9. r = 0
  BY <1>3, <1>4, <1>7, <1>8
<1> QED BY <1>9 DEF r

\* The block size behind the next slot to fill is positive.
LEMMA TakePositive ==
  ASSUME StageInv, WorkspaceOK, done < n
  PROVE  Take > 0
BY Numbers DEF Take, WorkspaceOK

LEMMA BoundariesInit == Init => Boundaries
<1> SUFFICES ASSUME Init PROVE Boundaries
  OBVIOUS
<1> DEFINE b == IF block = 0 THEN 1 ELSE block
<1>1. done = 0 /\ pos = 0 /\ scan = 0 /\ filled = 0 /\ pc = "check"
  BY DEF Init
<1>2. b \in Nat \ {0}
  BY StagedAssumption DEF Init
<1> HIDE DEF b
<1>3. 0 % b = 0
  BY <1>2
<1> QED BY <1>1, <1>3 DEF Boundaries, Finished, b

LEMMA BoundariesStep == StageInv /\ Boundaries /\ [Next]_vars => Boundaries'
<1> SUFFICES ASSUME StageInv, Boundaries, [Next]_vars PROVE Boundaries'
  OBVIOUS
<1> DEFINE b == IF block = 0 THEN 1 ELSE block
<1>1. /\ n \in Nat /\ done \in Nat /\ done <= n /\ block \in Nat
      /\ filled \in Nat /\ filled <= Take /\ Take \in Nat
      /\ pos \in Nat /\ scan \in Nat
      /\ Len(from) = done + filled /\ from \in Seq(1 .. Len(input))
  BY Numbers DEF StageInv, Control, TypeOK
<1>2. CASE MaterializeWord
  <2>1. /\ pc = "materialize" /\ filled < Take
        /\ \/ /\ KeepsWord(input[pos + scan + 1])
              /\ filled' = filled + 1 /\ from' = Append(from, pos + scan + 1)
           \/ ~ KeepsWord(input[pos + scan + 1]) /\ filled' = filled /\ from' = from
        /\ scan' = scan + 1
        /\ UNCHANGED <<kind, n, block, done, pos, pc>>
    BY <1>2, WordCommon
  <2>2. Take' = Take
    BY <2>1 DEF Take
  <2>3. done # 0 => from'[done] = from[done]
    <3>1. done # 0 => done \in 1 .. Len(from)
      BY <1>1
    <3>2. \A x : Append(from, x)[done] = from[done] \/ done \notin 1 .. Len(from)
      BY <1>1
    <3> QED BY <2>1, <3>1, <3>2
  <2>4. filled' = Take' => from'[done' + filled'] = pos' + scan'
    BY <1>1, <2>1, <2>2
  <2>5. kind = "original" => pos' = done' /\ scan' = filled'
    BY <1>1, <2>1 DEF KeepsWord, Boundaries
  <2> QED BY <2>1, <2>3, <2>4, <2>5 DEF Boundaries, Finished
<1>3. CASE MapBlock
  <2>1. /\ pc = "map" /\ pc' = "block" /\ pos' = pos + scan /\ done' = done + Take
        /\ scan' = 0 /\ filled' = 0 /\ UNCHANGED <<kind, n, block, from>>
    BY <1>3 DEF MapBlock, call
  <2>2. filled = Take /\ Take > 0 /\ block > 0 /\ done < n
    BY <1>1, <2>1, TakePositive DEF StageInv, Control, Boundaries, WorkspaceOK
  <2>3. done' = n' \/ done' % b = 0
    <3>1. CASE n - done < block
      BY <1>1, <2>1, <3>1 DEF Take
    <3>2. CASE ~ (n - done < block)
      <4>1. done' = done + block
        BY <2>1, <3>2 DEF Take
      <4>2. done # n /\ b = block
        BY <1>1, <2>2
      <4>3. done % block = 0
        BY <4>2 DEF Boundaries
      <4>4. (done + block) % block = 0
        <5> DEFINE c == block
                   d == done
        <5>1. c \in Nat \ {0} /\ d \in Nat /\ d % c = 0
          BY <1>1, <2>2, <4>3
        <5> HIDE DEF c, d
        <5>2. (d + c) % c = 0
          BY <5>1, NextMultiple
        <5> QED BY <5>2 DEF c, d
      <4> QED BY <4>1, <4>2, <4>4
    <3> QED BY <3>1, <3>2
  <2>4. done' # 0 /\ pos' = from'[done']
    BY <1>1, <2>1, <2>2 DEF Boundaries
  <2>5. kind = "original" => pos' = done' /\ scan' = filled'
    BY <1>1, <2>1, <2>2 DEF Boundaries
  <2>6. b' = b
    BY <2>1
  <2> QED BY <2>1, <2>3, <2>4, <2>5, <2>6 DEF Boundaries, Finished
<1>4. CASE BlockStart
  <2>1. /\ pc = "block" /\ pc' = "materialize" /\ done < n /\ scan' = 0 /\ filled' = 0
        /\ UNCHANGED <<kind, n, block, from, done, pos>>
    BY <1>4 DEF BlockStart, call
  <2>2. Take' = Take /\ Take > 0
    BY <2>1, TakePositive DEF Take, StageInv, Control
  <2>3. scan = 0 /\ filled = 0
    BY <2>1 DEF StageInv, Control
  <2> QED BY <2>1, <2>2, <2>3 DEF Boundaries, Finished
<1>5. CASE Materialized
  <2>1. /\ pc = "materialize" /\ filled = Take /\ pc' = "map"
        /\ UNCHANGED <<kind, n, block, from, done, pos, scan, filled>>
    BY <1>5 DEF Materialized, call, stage
  <2>2. Take' = Take
    BY <2>1 DEF Take
  <2> QED BY <2>1, <2>2 DEF Boundaries, Finished
<1>6. CASE Check \/ MaterializeFailed \/ MapFailed \/ Finish
  <2>1. /\ pc' \in {"block", "done"}
        /\ UNCHANGED <<kind, known, input, n, block, from, done, pos, scan, filled>>
    BY <1>6 DEF Check, MaterializeFailed, MapFailed, Finish, Stop, call, stage
  <2>2. Take' = Take
    BY <2>1 DEF Take
  <2>3. Finished(-2)' => filled < Take /\ (pos + scan = Len(input) \/ (kind = "sda" /\ ~ known))
    BY <1>6 DEF Check, MaterializeFailed, MapFailed, Finish, Stop, Finished, StageInv, TypeOK
  <2> QED BY <2>1, <2>2, <2>3 DEF Boundaries
<1>7. CASE UNCHANGED vars
  BY <1>7 DEF vars, call, stage, Boundaries, Take, Finished
<1> QED BY <1>2, <1>3, <1>4, <1>5, <1>6, <1>7 DEF Next, MaterializeWord

LEMMA AccountingInit == Init => Accounting
BY DEF Init, Accounting, Finished

LEMMA AccountingStep ==
  StageInv /\ Boundaries /\ Accounting /\ [Next]_vars => Accounting'
<1> SUFFICES ASSUME StageInv, Boundaries, Accounting, [Next]_vars PROVE Accounting'
  OBVIOUS
<1>1. /\ done \in Nat /\ pos \in Nat /\ scan \in Nat /\ Take \in Nat
      /\ clock \in Nat /\ t0 \in Nat /\ t1 \in Nat
      /\ tm \in [input : Nat, mapping : Nat] /\ tm.input \in Nat /\ tm.mapping \in Nat
  BY Numbers DEF StageInv, TypeOK
<1>2. CASE MaterializeWord
  <2>1. /\ pc = "materialize" /\ scan' = scan + 1 /\ clock' = clock + 1
        /\ UNCHANGED <<kind, wantStats, timed, n, tm, t0, t1, done, pos, st, pc, rc>>
    BY <1>2, WordCommon
  <2>2. clock' = t0' + scan'
    BY <1>1, <2>1 DEF Accounting
  <2> QED BY <2>1, <2>2 DEF Accounting, Finished, FinalStats
<1>3. CASE MapBlock
  <2>1. /\ pc = "map" /\ pc' = "block" /\ pos' = pos + scan /\ done' = done + Take
        /\ clock' = clock + Take
        /\ tm' = IF timed THEN [input   |-> tm.input + (t1 - t0),
                                mapping |-> tm.mapping + (clock' - t1)] ELSE tm
        /\ UNCHANGED <<wantStats, timed, st>>
    BY <1>3 DEF MapBlock, call
  <2>2. t1 - t0 = scan /\ clock' - t1 = Take
    BY <1>1, <2>1 DEF Accounting
  <2>3. timed => tm'.input = tm.input + scan /\ tm'.mapping = tm.mapping + Take
    BY <2>1, <2>2
  <2>4. timed => tm'.input = pos' /\ tm'.mapping = done'
    BY <2>1, <2>3 DEF Accounting, Finished
  <2> QED BY <2>1, <2>4 DEF Accounting, Finished
<1>4. CASE Check
  <2>1. pc = "check" /\ UNCHANGED <<kind, wantStats, timed, n, done, pos>>
    BY <1>4 DEF Check, call
  <2>2. done = 0 /\ pos = 0
    BY <2>1 DEF StageInv, Control, Boundaries
  <2>3. \/ pc' = "done" /\ rc' = -1 /\ UNCHANGED <<st, tm>>
        \/ /\ pc' = "block"
           /\ st' = IF wantStats THEN ZeroStats ELSE st
           /\ tm' = IF timed THEN [input |-> 0, mapping |-> 0] ELSE tm
    BY <1>4 DEF Check, Stop
  <2> QED BY <2>1, <2>2, <2>3 DEF Accounting, Finished
<1>5. CASE BlockStart
  BY <1>1, <1>5 DEF BlockStart, call, Accounting, Finished
<1>6. CASE Materialized
  BY <1>6 DEF Materialized, call, stage, Accounting, Finished
<1>7. CASE MaterializeFailed \/ MapFailed
  BY <1>7 DEF MaterializeFailed, MapFailed, Stop, call, stage, time, Accounting, Finished
<1>8. CASE Finish
  <2>1. /\ pc = "block" /\ pc' = "done" /\ rc' = 0
        /\ st' = IF wantStats THEN FinalStats ELSE st
        /\ UNCHANGED <<kind, wantStats, timed, n, done, pos, tm>>
    BY <1>8 DEF Finish, Stop, call, time
  <2>2. FinalStats' = FinalStats
    BY <2>1 DEF FinalStats
  <2> QED BY <2>1, <2>2 DEF Accounting, Finished
<1>9. CASE UNCHANGED vars
  BY <1>9 DEF vars, call, stage, time, Accounting, Finished, FinalStats
<1> QED BY <1>2, <1>3, <1>4, <1>5, <1>6, <1>7, <1>8, <1>9 DEF Next, MaterializeWord

\* The whole invariant: besides the workspace and the samples, the blocks are
\* whole, the source is read no further than the last block needed, and the
\* counters and stage times account for exactly the work done.
THEOREM CallInvariant == Spec => []CallInv
<1>1. Init => Boundaries /\ Accounting
  BY BoundariesInit, AccountingInit
<1>2. StageInv /\ Boundaries /\ Accounting /\ [Next]_vars => Boundaries' /\ Accounting'
  BY BoundariesStep, AccountingStep
<1> QED BY <1>1, <1>2, StageInvariant, PTL DEF Spec, CallInv

(***************************************************************************)
(* The workspace.                                                          *)
(***************************************************************************)

\* Whatever the block size and the capacity, the block about to be mapped holds
\* the parts of its own accepted words, none of an earlier block's, and no cell
\* past the block size is touched (the reuse of candidates and signs in
\* frodo_sda_block_staged_sample_n).
THEOREM WorkspaceNeverStale == Spec => []WorkspaceDiscipline
<1>1. StageInv => WorkspaceDiscipline
  <2> SUFFICES ASSUME StageInv PROVE WorkspaceDiscipline
    OBVIOUS
  <2>1. pc = "map" => filled = Take
    BY DEF StageInv, Control
  <2> QED BY <2>1 DEF StageInv, SlackUntouched, SlotsFresh, WorkspaceDiscipline
<1> QED BY <1>1, StageInvariant, PTL

(***************************************************************************)
(* Refinement.                                                             *)
(***************************************************************************)

\* The draw the mapping gives the abstract source at each position.
LEMMA DrawAt ==
  ASSUME StageInv, NEW k \in 1 .. Len(input)
  PROVE  LET draw == <<kind, input[k]>> IN
         /\ AcceptDraw(draw) <=> KeepsWord(input[k])
         /\ DrawImage(draw) = ImageOf(input[k])
BY DEF AcceptDraw, DrawImage, KeepsWord, ImageOf

\* Staging implements bounded rejection sampling: each word materialized is one
\* abstract Consume, the last success is Finish, a shortage is Exhaust, and the
\* block boundaries, the mapping and the errors about arguments stutter.
THEOREM Refinement == Spec => Implements
<1> DEFINE Source == [i \in 1 .. Len(input) |-> <<kind, input[i]>>]
<1>1. StageInv => /\ Source \in Seq({"sda", "original"} \X Word)
                  /\ Len(Source) = Len(input)
  <2> SUFFICES ASSUME StageInv
               PROVE  /\ Source \in Seq({"sda", "original"} \X Word)
                      /\ Len(Source) = Len(input)
    OBVIOUS
  <2>1. input \in Seq(Word) /\ kind \in {"sda", "original"} /\ Len(input) \in Nat
    BY DEF StageInv, TypeOK
  <2>2. \A i \in 1 .. Len(input) : <<kind, input[i]>> \in {"sda", "original"} \X Word
    BY <2>1
  <2> QED BY <2>1, <2>2
<1>2. Init => Sampling!Init
  <2> SUFFICES ASSUME Init PROVE Sampling!Init
    OBVIOUS
  <2>1. StageInv
    BY InitInv
  <2>2. n \in Nat
    BY <2>1, Numbers
  <2>3. Source \in Seq({"sda", "original"} \X Word)
    BY <1>1, <2>1
  <2>4. pos + scan = 0 /\ from = <<>> /\ ~ Finished(0) /\ Status = "sampling"
    BY DEF Init, Finished, Status
  <2> QED BY <2>2, <2>3, <2>4 DEF Sampling!Init
<1>3. StageInv /\ [Next]_vars => [Sampling!Next]_Sampling!vars
  <2> SUFFICES ASSUME StageInv, [Next]_vars PROVE [Sampling!Next]_Sampling!vars
    OBVIOUS
  <2>1. /\ n \in Nat /\ done \in Nat /\ done <= n
        /\ filled \in Nat /\ filled <= Take /\ Take \in Nat /\ done + Take <= n
        /\ pos \in Nat /\ scan \in Nat /\ Len(input) \in Nat
        /\ pos + scan <= Len(input) /\ Len(from) = done + filled
        /\ Len(Source) = Len(input) /\ from \in Seq(1 .. Len(input))
    BY <1>1, Numbers DEF StageInv, Control, TypeOK
  <2>2. CASE MaterializeWord
    <3> DEFINE k == pos + scan + 1
    <3>1. /\ pc = "materialize" /\ filled < Take /\ pos + scan < Len(input)
          /\ \/ KeepsWord(input[k]) /\ from' = Append(from, k)
             \/ ~ KeepsWord(input[k]) /\ from' = from
          /\ scan' = scan + 1
          /\ UNCHANGED <<kind, known, n, input, out, pos, pc, rc>>
      BY <2>2, WordCommon
    <3>2. k \in 1 .. Len(input)
      BY <2>1, <3>1
    <3>3. Source[k] = <<kind, input[k]>>
      BY <3>2
    <3>4. AcceptDraw(Source[k]) <=> KeepsWord(input[k])
      BY <3>2, <3>3, DrawAt
    <3>5. /\ Status = "sampling" /\ Status' = "sampling"
          /\ ~ Finished(0) /\ ~ Finished(0)'
      BY <3>1 DEF Status, Finished
    <3>6. Source' = Source
      BY <3>1
    <3>7. pos' + scan' = (pos + scan) + 1 /\ Len(from) < n
      BY <2>1, <3>1
    <3>8. from' = IF AcceptDraw(Source[k]) THEN Append(from, (pos + scan) + 1) ELSE from
      BY <3>1, <3>4
    <3> HIDE DEF Source
    <3>9. Sampling!Consume
      BY <2>1, <3>1, <3>5, <3>6, <3>7, <3>8 DEF Sampling!Consume, Source
    <3> QED BY <3>9 DEF Sampling!Next
  <2>3. CASE Finish
    <3>1. /\ pc = "block" /\ done = n /\ filled = 0 /\ pc' = "done" /\ rc' = 0
          /\ UNCHANGED <<kind, known, n, input, out, pos, scan, from>>
      <4>1. /\ pc = "block" /\ done >= n /\ pc' = "done" /\ rc' = 0
            /\ UNCHANGED <<kind, known, n, input, out, pos, scan, from>>
        BY <2>3 DEF Finish, Stop, call, stage
      <4>2. filled = 0
        BY <4>1 DEF StageInv, Control
      <4> QED BY <2>1, <4>1, <4>2
    <3>2. /\ Status = "sampling" /\ Status' = "ok" /\ ~ Finished(0) /\ Finished(0)'
      BY <3>1 DEF Status, Finished
    <3>3. \A i \in 1 .. n : out[i] = DrawImage(Source[from[i]])
      <4> SUFFICES ASSUME NEW i \in 1 .. n PROVE out[i] = DrawImage(Source[from[i]])
        OBVIOUS
      <4>1. from[i] \in 1 .. Len(input)
        BY <2>1, <3>1
      <4>2. out[i] = ImageOf(input[from[i]])
        BY <3>1 DEF StageInv, FinishedExact
      <4>3. Source[from[i]] = <<kind, input[from[i]]>>
        BY <4>1
      <4> QED BY <4>1, <4>2, <4>3, DrawAt
    <3>4. Source' = Source /\ Len(from) = n
      BY <2>1, <3>1
    <3> HIDE DEF Source
    <3>5. [i \in 1 .. n' |-> out'[i]] = [i \in 1 .. n |-> DrawImage(Source[from[i]])]
      BY <3>1, <3>3
    <3>6. Sampling!Finish
      BY <3>1, <3>2, <3>4, <3>5 DEF Sampling!Finish, Source
    <3> QED BY <3>6 DEF Sampling!Next
  <2>4. CASE MaterializeFailed
    <3>1. /\ pc = "materialize" /\ filled < Take /\ pc' = "done" /\ rc' = -2
          /\ pos + scan = Len(input) \/ ~ known
          /\ UNCHANGED <<kind, known, n, input, out, pos, scan, from>>
      BY <2>4 DEF MaterializeFailed, Stop, call, stage
    <3>2. Status = "sampling" /\ ~ Finished(0) /\ ~ Finished(0)'
      BY <3>1 DEF Status, Finished
    <3>3. CASE known
      <4>1. Status' = "exhausted" /\ pos + scan = Len(input) /\ Len(from) < n
        <5>1. Status' = "exhausted"
          BY <3>1, <3>3 DEF Status, Finished
        <5>2. filled < Take
          BY <2>4 DEF MaterializeFailed
        <5>3. Len(from) < n
          BY <2>1, <5>2
        <5> QED BY <3>1, <3>3, <5>1, <5>3
      <4>2. Source' = Source
        BY <3>1
      <4> HIDE DEF Source
      <4>3. Sampling!Exhaust
        BY <2>1, <3>1, <3>2, <4>1, <4>2 DEF Sampling!Exhaust, Source
      <4> QED BY <4>3 DEF Sampling!Next
    <3>4. CASE ~ known
      BY <3>1, <3>2, <3>4 DEF Sampling!vars, Status, Finished
    <3> QED BY <3>3, <3>4
  <2>5. CASE MapBlock
    <3>1. /\ pc = "map" /\ pc' = "block" /\ pos' = pos + scan /\ scan' = 0
          /\ UNCHANGED <<kind, known, n, input, from>>
      BY <2>5 DEF MapBlock, call
    <3>2. pos' + scan' = pos + scan
      BY <2>1, <3>1
    <3>3. /\ Status = "sampling" /\ Status' = "sampling"
          /\ ~ Finished(0) /\ ~ Finished(0)'
      BY <3>1 DEF Status, Finished
    <3> QED BY <3>1, <3>2, <3>3 DEF Sampling!vars
  <2>6. CASE Check \/ BlockStart \/ Materialized \/ MapFailed
    <3>1. /\ pc # "done" /\ ~ Finished(0)' /\ ~ Finished(-2)'
          /\ UNCHANGED <<kind, known, n, input, from, pos>>
      BY <2>6 DEF Check, BlockStart, Materialized, MapFailed, Stop, Finished, call, stage
    <3>2. scan' = scan
      BY <2>6 DEF Check, BlockStart, Materialized, MapFailed, stage, StageInv, Control
    <3> QED BY <3>1, <3>2 DEF Sampling!vars, Status, Finished
  <2>7. CASE UNCHANGED vars
    BY <2>7 DEF vars, call, stage, Sampling!vars, Status, Finished
  <2> QED BY <2>2, <2>3, <2>4, <2>5, <2>6, <2>7 DEF Next, MaterializeWord
<1> QED BY <1>2, <1>3, StageInvariant, PTL DEF Spec, Implements, Sampling!Spec

(***************************************************************************)
(* Staging is invisible.                                                   *)
(***************************************************************************)

\* Sampling and Promise are the same substitution: what one says of the source
\* the other says, and what is proved of Promise holds of the implementation.
LEMMA SamePromise ==
  /\ Sampling!Spec => []Promise!SamplingCorrect
  /\ Sampling!Accepted = Promise!Accepted
  /\ \A k : Sampling!Rank(k) = Promise!Rank(k)
  /\ \A m : Sampling!HoldsFewer(m) <=> Cardinality(Promise!Accepted) < m
<1>1. Sampling!Init => Promise!Init
  BY DEF Sampling!Init, Promise!Init
<1>2. [Sampling!Next]_Sampling!vars => [Promise!Next]_Promise!vars
  BY DEF Sampling!Next, Sampling!Consume, Sampling!Finish, Sampling!Exhaust, Sampling!vars,
         Promise!Next, Promise!Consume, Promise!Finish, Promise!Exhaust, Promise!vars
<1>3. Sampling!Spec => []Promise!SamplingCorrect
  BY <1>1, <1>2, Promise!SamplingIsCorrect, PTL DEF Sampling!Spec, Promise!Spec
<1>4. /\ Sampling!Accepted = Promise!Accepted
      /\ \A S : /\ Sampling!Cardinality(S) = Promise!Cardinality(S)
                /\ Sampling!Cardinality(S) = Cardinality(S)
  BY DEF Sampling!Accepted, Promise!Accepted, Sampling!Cardinality, Promise!Cardinality,
         Cardinality
<1>5. \A k : Sampling!Rank(k) = Promise!Rank(k)
  BY <1>4 DEF Sampling!Rank, Promise!Rank
<1>6. \A m : Sampling!HoldsFewer(m) <=> Cardinality(Promise!Accepted) < m
  BY <1>4 DEF Sampling!HoldsFewer
<1> QED BY <1>3, <1>4, <1>5, <1>6

\* The finished samples are those of the first accepted words of the source,
\* and the history names the place of each.
LEMMA FinishedFirst ==
  ASSUME StageInv, Promise!SamplingCorrect
  PROVE  /\ Sampling!HoldsFirst(out, done)
         /\ \A i \in 1 .. Len(from) :
               from[i] \in Sampling!Accepted /\ Sampling!Rank(from[i]) = i
         /\ Sampling!Rank(pos + scan) = Len(from)
<1>1. /\ \A i \in 1 .. Len(from) :
            from[i] \in Sampling!Accepted /\ Sampling!Rank(from[i]) = i
      /\ Sampling!Rank(pos + scan) = Len(from)
  BY SamePromise DEF Promise!SamplingCorrect, Promise!FromRanked
<1>2. done \in Nat /\ filled \in Nat /\ Len(from) = done + filled
  BY Numbers DEF StageInv, Control
<1>3. ASSUME NEW i \in 1 .. done
      PROVE  /\ from[i] \in Sampling!Accepted /\ Sampling!Rank(from[i]) = i
             /\ out[i] = DrawImage([j \in 1 .. Len(input) |-> <<kind, input[j]>>][from[i]])
  <2>1. i \in 1 .. Len(from)
    BY <1>2
  <2>2. from[i] \in 1 .. Len(input)
    BY <2>1 DEF StageInv, TypeOK
  <2>3. out[i] = ImageOf(input[from[i]])
    BY DEF StageInv, FinishedExact
  <2>4. ImageOf(input[from[i]]) = DrawImage(<<kind, input[from[i]]>>)
    BY <2>2, DrawAt
  <2> QED BY <1>1, <2>1, <2>2, <2>3, <2>4
<1> QED BY <1>1, <1>3 DEF Sampling!HoldsFirst

\* At every moment the output holds whole blocks of the samples a fused call
\* would have stored, and nothing else; a failed call leaves no partial block
\* and cleared counters.
THEOREM BlocksAreWhole == Spec => []WholeBlocksOnly
<1>1. CallInv /\ Promise!SamplingCorrect => WholeBlocksOnly
  BY FinishedFirst DEF CallInv, StageInv, FinishedExact, Boundaries, Accounting, WholeBlocksOnly
<1> QED BY <1>1, CallInvariant, Refinement, SamePromise, PTL DEF Implements

\* A call that has accepted m words, the last of them at position k, has read
\* what a fused call reads for m samples.
LEMMA WordsForExact ==
  ASSUME StageInv, Promise!SamplingCorrect, done = n,
         pos = IF done = 0 THEN 0 ELSE from[done]
  PROVE  pos = WordsFor(n)
<1>1. CASE n = 0
  BY <1>1 DEF WordsFor
<1>2. CASE n # 0
  <2>1. done \in Nat /\ filled \in Nat /\ Len(from) = done + filled /\ Len(input) \in Nat
    BY Numbers DEF StageInv, Control
  <2>2. from[n] \in Sampling!Accepted /\ Sampling!Rank(from[n]) = n
    BY <1>2, <2>1, FinishedFirst
  <2>3. ASSUME NEW k \in Sampling!Accepted, Sampling!Rank(k) = n PROVE k = from[n]
    <3>1. Len([j \in 1 .. Len(input) |-> <<kind, input[j]>>]) \in Nat
      BY <2>1
    <3>2. /\ k \in Promise!Accepted /\ from[n] \in Promise!Accepted
          /\ Promise!Rank(k) = Promise!Rank(from[n])
      BY <2>2, <2>3, SamePromise
    <3> QED BY <3>1, <3>2, Promise!RankInjective
  <2> QED BY <1>2, <2>2, <2>3 DEF WordsFor
<1> QED BY <1>1, <1>2

\* Staging is invisible: whatever the block size, success leaves the samples
\* and the counters a fused call would have left and attributes every unit of
\* work to one stage, and -2 is a genuine shortage or an unknown table.
THEOREM StagingIsInvisible == Spec => []StagedEqualsFused
<1>1. CallInv /\ Promise!SamplingCorrect => StagedEqualsFused
  <2> SUFFICES ASSUME CallInv, Promise!SamplingCorrect PROVE StagedEqualsFused
    OBVIOUS
  <2>0. StageInv /\ Boundaries /\ Accounting
    BY DEF CallInv
  <2>1. CASE Finished(0)
    <3>1. done = n /\ pos = WordsFor(n)
      BY <2>0, <2>1, WordsForExact DEF StageInv, Control, Boundaries
    <3>2. Sampling!HoldsFirst(out, n)
      BY <2>0, <3>1, FinishedFirst
    <3>3. ~ Finished(-1) /\ ~ Finished(-2) /\ pc # "check"
      BY <2>1 DEF Finished
    <3>4. st = IF wantStats THEN FinalStats ELSE StaleStats
      BY <2>0, <2>1, <3>3 DEF Accounting
    <3>5. FinalStats = FusedStats
      <4>1. kind = "original" => pos = n
        BY <2>0, <3>1 DEF Boundaries
      <4>2. n - n = 0 /\ kind \in {"sda", "original"}
        BY <2>0, Numbers DEF StageInv, TypeOK
      <4> QED BY <3>1, <4>1, <4>2 DEF FinalStats, FusedStats
    <3>6. timed => tm.input = pos /\ tm.mapping = n
      BY <2>0, <3>1, <3>3 DEF Accounting
    <3> QED BY <3>2, <3>3, <3>4, <3>5, <3>6 DEF StagedEqualsFused
  <2>2. CASE Finished(-2)
    <3>1. ~ Finished(0)
      BY <2>2 DEF Finished
    <3>2. CASE kind = "sda" /\ ~ known
      BY <2>2, <3>1, <3>2 DEF StagedEqualsFused
    <3>3. CASE filled < Take /\ pos + scan = Len(input)
      <4>1. /\ n \in Nat /\ done \in Nat /\ filled \in Nat /\ Take \in Nat /\ done + Take <= n
            /\ Len(from) = done + filled /\ Len(input) \in Nat
        BY <2>0, Numbers DEF StageInv, Control
      <4> DEFINE Source == [j \in 1 .. Len(input) |-> <<kind, input[j]>>]
      <4>2. Len(Source) = Len(input)
        BY <4>1
      <4>3. Promise!Rank(Len(Source)) = Cardinality(Promise!Accepted)
        BY <4>1, <4>2, Promise!RankBound DEF Cardinality, Promise!Cardinality
      <4>4. Promise!Rank(Len(input)) = Len(from)
        BY <2>0, <3>3, FinishedFirst, SamePromise
      <4>5. Cardinality(Promise!Accepted) < n
        BY <3>3, <4>1, <4>2, <4>3, <4>4
      <4> QED BY <2>2, <3>1, <3>3, <4>5, SamePromise DEF StagedEqualsFused
    <3> QED BY <2>0, <2>2, <3>2, <3>3 DEF Boundaries
  <2> QED BY <2>1, <2>2 DEF StagedEqualsFused
<1> QED BY <1>1, CallInvariant, Refinement, SamePromise, PTL DEF Implements
=============================================================================
