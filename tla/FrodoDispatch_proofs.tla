------------------------ MODULE FrodoDispatch_proofs ------------------------
(***************************************************************************)
(* Proofs about frodo_sample_n_dispatch, for every parameter set, request, *)
(* source and capacity.  A dispatched call of a word-oriented or packed    *)
(* sampler is a call of that sampler alone, seen through a mapping: what   *)
(* is proved of the sampler then holds of the call.  The original samplers *)
(* and the hand-over of the statistics are the dispatcher's own.           *)
(***************************************************************************)
EXTENDS FrodoDispatch, FiniteSetTheorems, TLAPS

\* The sampler's place and statistics while the dispatcher has not entered it
\* yet or has already returned from it: the dispatcher clears the statistics
\* before the sampler does.
WordPc == IF pc = "call" THEN "dispatch" ELSE IF pc = "returned" THEN "done" ELSE pc
WordSt == IF pc \in {"call", "dispatch"} THEN StaleStats ELSE st
PackedPc == IF pc = "call" THEN "start" ELSE IF pc = "returned" THEN "done" ELSE pc
PackedSt == IF pc \in {"call", "start"} THEN StaleStats ELSE st

WordCall == INSTANCE FrodoWordSampler_proofs WITH
  api <- "sample_n", wantStats <- wantFs, known <- args = "good",
  input <- words, a <- done, p <- pos, pc <- WordPc, st <- WordSt

PackedCall == INSTANCE PackedSampler_proofs WITH
  frontend <- IF backend = "avx2" THEN "fast_batch" ELSE "fast_scalar",
  wantStats <- wantFs, MaxN <- OutCap - 1, pc <- PackedPc, st <- PackedSt

\* What the dispatcher does with a request.
RunsOriginal == Refusal = 0 /\ kind = "original"
RunsWord == Refusal = 0 /\ kind = "sda" /\ front = "word_oriented"
RunsPacked == Refusal = 0 /\ kind = "sda" /\ front = "packed_bit"

InitialOut == [i \in 1 .. OutCap |->
                 IF inPlace /\ i <= Len(words) THEN words[i] ELSE Poison]

\* The request is one a caller can make.
Request ==
  /\ n \in 0 .. MaxN /\ len \in 0 .. MaxBytes
  /\ \E k \in 0 .. MaxWords : words \in [1 .. k -> InputWords]
  /\ front = "packed_bit" => words = <<>>
  /\ stream \in 0 .. 2 ^ (ByteBits * len) - 1
  /\ wantFs \in BOOLEAN /\ inPlace \in BOOLEAN

\* Before a sampler has run nothing is touched.
Idle ==
  /\ out = InitialOut /\ done = 0 /\ pos = 0 /\ from = <<>>
  /\ reader = NewReader /\ lane = <<>> /\ cand = 0 /\ half = FALSE

\* Where a call can be, by what its request asks for.
Route ==
  /\ pc = "call" => Idle /\ rc = 0
  /\ pc # "call" /\ Refusal # 0 => pc \in {"done", "returned"} /\ rc = Refusal /\ Idle
  /\ pc # "call" /\ RunsOriginal =>
       pc \in {IF VectorPath THEN "vector" ELSE "scalar", "done", "returned"} /\ rc = 0
  /\ pc # "call" /\ RunsWord =>
       pc \in {"dispatch", "loop", "done", "returned"} /\ rc \in {0, -2}
  /\ pc # "call" /\ RunsPacked =>
       pc \in {"start", "draw", "sign", "map", "done", "returned"} /\ rc \in {0, -2}

Cleared == wantFs /\ Refusal \notin {-1, -9}

\* *fs until a sampler, or the hand-over of its reader, changes it.
FsInv ==
  /\ pc = "call" \/ ~ Cleared => st = StaleStats /\ fsReader = StaleReader
  /\ pc # "call" /\ Cleared =>
       /\ Refusal # 0 \/ RunsOriginal \/ pc \in {"dispatch", "start"} => st = ZeroStats
       /\ fsReader = IF pc = "returned" /\ RunsPacked THEN reader ELSE NewReader

DispatchInv == Request /\ Route /\ FsInv

\* The original samplers have mapped the words before the cursor, and nothing
\* behind it.
OriginalInv ==
  RunsOriginal =>
    /\ done \in 0 .. n /\ out \in [1 .. OutCap -> Word]
    /\ \A i \in 1 .. done : out[i] = OrigMap(words[i])
    /\ \A i \in done + 1 .. OutCap : out[i] = Before(i)
    /\ pc \in {"done", "returned"} => done = n

\* Single samples come last, when less than a vector is left.
TailLast ==
  /\ avx2 \in [api_calls : Nat, batches : Nat, vectorized : Nat, tail : Nat]
  /\ RunsOriginal => avx2.tail = 0 \/ n - done + avx2.tail < Lanes
  /\ RunsPacked => avx2.tail = 0 \/ done = n

-----------------------------------------------------------------------------
(* The samplers behind the dispatcher are the modules' own *)

\* Everything PackedCall says of a reader and a batch that does not mention
\* where the call stands is what PackedSampler says.
LEMMA SamePackedOperators ==
  /\ \A r, bits : PackedSampler!TakeFrom(r, bits) = PackedCall!TakeFrom(r, bits)
  /\ \A bits : PackedSampler!Take(bits) = PackedCall!Take(bits)
  /\ PackedSampler!Batch = PackedCall!Batch
  /\ PackedSampler!Fast = PackedCall!Fast
  /\ \A c : PackedSampler!AcceptCandidate(c) = PackedCall!AcceptCandidate(c)
  /\ \A c, s : PackedSampler!MapParts(c, s) = PackedCall!MapParts(c, s)
  /\ PackedSampler!call = PackedCall!call
  /\ PackedSampler!ZeroStats = PackedCall!ZeroStats
<1>1. \A s, f, k : PackedSampler!Slice(s, f, k) = PackedCall!Slice(s, f, k)
  BY DEF PackedSampler!Slice, PackedCall!Slice
<1>2. \A r, l, k : PackedSampler!BytesToLoad(r, l, k) = PackedCall!BytesToLoad(r, l, k)
  BY DEF PackedSampler!BytesToLoad, PackedCall!BytesToLoad
<1>3. \A r, s, k : PackedSampler!Pushed(r, s, k) = PackedCall!Pushed(r, s, k)
  BY <1>1 DEF PackedSampler!Pushed, PackedCall!Pushed, PackedSampler!ResMod, PackedCall!ResMod
<1>4. \A r, s, l, k : PackedSampler!SlowLoad(r, s, l, k) = PackedCall!SlowLoad(r, s, l, k)
  BY <1>2, <1>3 DEF PackedSampler!SlowLoad, PackedCall!SlowLoad
<1>5. \A r, s, l, k : PackedSampler!FastLoad(r, s, l, k) = PackedCall!FastLoad(r, s, l, k)
  <2> SUFFICES ASSUME NEW r, NEW s, NEW l, NEW k
               PROVE  PackedSampler!FastLoad(r, s, l, k) = PackedCall!FastLoad(r, s, l, k)
    OBVIOUS
  <2>1. /\ PackedSampler!BytesToLoad(r, l, k) = PackedCall!BytesToLoad(r, l, k)
        /\ PackedSampler!Slice(s, ByteBits * r.pos, ByteBits * RefillBytes)
             = PackedCall!Slice(s, ByteBits * r.pos, ByteBits * RefillBytes)
        /\ PackedSampler!Pushed(r, s, PackedSampler!BytesToLoad(r, l, k))
             = PackedCall!Pushed(r, s, PackedCall!BytesToLoad(r, l, k))
    BY <1>1, <1>2, <1>3
  <2> QED BY <2>1, Zenon DEF PackedSampler!FastLoad, PackedCall!FastLoad
<1>6. \A r, bits : PackedSampler!TakeFrom(r, bits) = PackedCall!TakeFrom(r, bits)
  BY DEF PackedSampler!TakeFrom, PackedCall!TakeFrom
<1>7. PackedSampler!Fast = PackedCall!Fast
  BY DEF PackedSampler!Fast, PackedCall!Fast
<1>8. \A bits : PackedSampler!Take(bits) = PackedCall!Take(bits)
  BY <1>4, <1>5, <1>6, <1>7 DEF PackedSampler!Take, PackedCall!Take, PackedSampler!FastTake,
     PackedCall!FastTake, PackedSampler!SlowTake, PackedCall!SlowTake
<1>9. PackedSampler!Batch = PackedCall!Batch
  BY DEF PackedSampler!Batch, PackedCall!Batch, PackedSampler!Batched, PackedCall!Batched
<1>10. \A c : PackedSampler!AcceptCandidate(c) = PackedCall!AcceptCandidate(c)
  BY DEF PackedSampler!AcceptCandidate, PackedCall!AcceptCandidate
<1>11. \A c, s : PackedSampler!MapParts(c, s) = PackedCall!MapParts(c, s)
  BY DEF PackedSampler!MapParts, PackedCall!MapParts, PackedSampler!Ge, PackedCall!Ge,
     PackedSampler!ApplySign, PackedCall!ApplySign, PackedSampler!Cardinality, PackedCall!Cardinality
<1>12. PackedSampler!call = PackedCall!call /\ PackedSampler!ZeroStats = PackedCall!ZeroStats
  BY DEF PackedSampler!call, PackedCall!call, PackedSampler!ZeroStats, PackedCall!ZeroStats
<1> QED BY <1>6, <1>7, <1>8, <1>9, <1>10, <1>11, <1>12

\* The call of a packed sampler starts where the sampler does.
LEMMA PackedInit == Init /\ RunsPacked => PackedCall!Init
<1> SUFFICES ASSUME Init, RunsPacked PROVE PackedCall!Init
  OBVIOUS
<1>1. /\ front = "packed_bit" /\ words = <<>> /\ pc = "call" /\ rc = 0
      /\ backend = "avx2" \/ backend # "avx2"
  BY DEF Init, RunsPacked
<1>2. PackedPc = "start" /\ PackedSt = StaleStats
  BY <1>1 DEF PackedPc, PackedSt
<1>3. /\ n \in 0 .. OutCap - 1 /\ (OutCap - 1) + 1 = OutCap
  BY DispatchAssumption DEF Init
<1>4. out = [i \in 1 .. OutCap |-> Poison]
  <2>1. \A i \in 1 .. OutCap : ~ (i <= Len(words))
    BY <1>1
  <2>2. out = [i \in 1 .. OutCap |-> IF inPlace /\ i <= Len(words) THEN words[i] ELSE Poison]
    BY DEF Init
  <2> QED BY <2>1, <2>2
<1>5. /\ wantFs \in BOOLEAN /\ len \in 0 .. MaxBytes /\ stream \in 0 .. 2 ^ (ByteBits * len) - 1
      /\ done = 0 /\ pos = 0 /\ from = <<>> /\ reader = NewReader /\ lane = <<>>
      /\ cand = 0 /\ half = FALSE
  <2>1. len \in 0 .. MaxBytes
    BY DispatchAssumption DEF Init
  <2> QED BY <2>1 DEF Init
<1>6. (IF backend = "avx2" THEN "fast_batch" ELSE "fast_scalar")
        \in {"fast_scalar", "fast_batch", "slow_scalar", "slow_batch"}
  OBVIOUS
<1> QED BY <1>1, <1>2, <1>3, <1>4, <1>5, <1>6 DEF PackedCall!Init, PackedCall!NewReader, NewReader,
           PackedCall!StaleStats, StaleStats

\* So does the call of a word sampler.
LEMMA WordInit == Init /\ RunsWord => WordCall!Init
<1> SUFFICES ASSUME Init, RunsWord PROVE WordCall!Init
  OBVIOUS
<1>1. pc = "call" /\ args = "good" /\ haveWords /\ front = "word_oriented"
  BY DEF Init, RunsWord, Refusal
<1>2. WordPc = "dispatch" /\ WordSt = StaleStats
  BY <1>1 DEF WordPc, WordSt
<1>3. words \in UNION {[1 .. k -> InputWords] : k \in 0 .. MaxWords}
  BY <1>1 DEF Init
<1>4. inPlace \in BOOLEAN
  BY DEF Init
<1> QED BY <1>1, <1>2, <1>3, <1>4 DEF Init, WordCall!Init, WordCall!StaleStats, StaleStats

-----------------------------------------------------------------------------
(* Requests and routes *)

\* What follows of a request is fixed with it.
LEMMA RequestFrame ==
  ASSUME UNCHANGED request
  PROVE  /\ Refusal' = Refusal /\ (RunsOriginal' <=> RunsOriginal)
         /\ (RunsWord' <=> RunsWord) /\ (RunsPacked' <=> RunsPacked)
         /\ VectorPath' = VectorPath /\ InitialOut' = InitialOut
         /\ (Cleared' <=> Cleared) /\ (Request => Request')
         /\ \A i : Before(i)' = Before(i)
<1>1. UNCHANGED <<kind, backend, front, cpu, args, wantFs, n, haveWords, words,
                  inPlace, havePacked, len, stream>>
  BY DEF request
<1>2. Available' = Available
  BY <1>1 DEF Available
<1>3. Refusal' = Refusal
  BY <1>1, <1>2 DEF Refusal
<1>4. VectorPath' = VectorPath /\ InitialOut' = InitialOut
  BY <1>1 DEF VectorPath, InitialOut
<1>5. Request => Request'
  BY <1>1 DEF Request
<1>6. \A i : Before(i)' = Before(i)
  BY <1>1 DEF Before
<1> QED BY <1>1, <1>3, <1>4, <1>5, <1>6 DEF RunsOriginal, RunsWord, RunsPacked, Cleared

\* The source of a request.
LEMMA RequestNumbers ==
  ASSUME Request
  PROVE  /\ n \in Nat /\ n <= MaxN /\ n < OutCap /\ OutCap \in Nat
         /\ words \in Seq(Word) /\ Len(words) \in Nat /\ Len(words) <= OutCap
         /\ DOMAIN words = 1 .. Len(words)
<1>1. PICK k \in 0 .. MaxWords : words \in [1 .. k -> InputWords]
  BY DEF Request
<1>2. words \in Seq(Word) /\ Len(words) = k
  BY <1>1, DispatchAssumption
<1> QED BY <1>1, <1>2, DispatchAssumption DEF Request

\* A request that is not refused reaches exactly one kind of sampler.
LEMMA OneRoute ==
  ASSUME Request
  PROVE  /\ Refusal = 0 => RunsOriginal \/ RunsWord \/ RunsPacked
         /\ RunsOriginal => Refusal = 0 /\ ~ RunsWord /\ ~ RunsPacked /\ Len(words) >= n
         /\ RunsWord => Refusal = 0 /\ ~ RunsPacked /\ args = "good"
         /\ RunsPacked => Refusal = 0
         /\ RunsOriginal => kind = "original" /\ front = "original_word"
<1>1. Refusal = 0 => RunsOriginal \/ RunsWord \/ RunsPacked
  BY DEF Refusal, RunsOriginal, RunsWord, RunsPacked
<1>2. RunsOriginal => ~ (Len(words) < n) /\ front = "original_word"
  BY DEF Refusal, RunsOriginal
<1>3. Len(words) < n <=> ~ (Len(words) >= n)
  BY RequestNumbers
<1> QED BY <1>1, <1>2, <1>3 DEF Refusal, RunsOriginal, RunsWord, RunsPacked

\* Where the call is tells which sampler runs.
LEMMA Places ==
  ASSUME Request, Route
  PROVE  /\ pc \in {"scalar", "vector"} => RunsOriginal
         /\ pc \in {"dispatch", "loop"} => RunsWord
         /\ pc \in {"start", "draw", "sign", "map"} => RunsPacked
         /\ pc = "scalar" => ~ VectorPath
         /\ pc = "vector" => VectorPath
<1>1. CASE pc = "call"
  BY <1>1
<1>2. CASE pc # "call" /\ Refusal # 0
  BY <1>2 DEF Route
<1>3. CASE pc # "call" /\ Refusal = 0
  BY <1>3, OneRoute DEF Route
<1> QED BY <1>1, <1>2, <1>3

-----------------------------------------------------------------------------
(* The word samplers *)

LEMMA SameWordOperators ==
  /\ \A z : WordSampler!Accepts(z) = WordCall!Accepts(z)
  /\ \A z : WordSampler!Map(z) = WordCall!Map(z)
  /\ WordSampler!ReadWord = WordCall!ReadWord
  /\ WordSampler!Loop = WordCall!Loop
  /\ WordSampler!call = WordCall!call
<1>1. \A z : WordSampler!Candidate(z) = WordCall!Candidate(z)
  BY DEF WordSampler!Candidate, WordCall!Candidate
<1>2. \A z : WordSampler!Accepts(z) = WordCall!Accepts(z)
  BY <1>1 DEF WordSampler!Accepts, WordCall!Accepts,
     WordSampler!AcceptCandidate, WordCall!AcceptCandidate
<1>3. \A c : WordSampler!Ge(c) = WordCall!Ge(c)
  BY DEF WordSampler!Ge, WordCall!Ge, WordSampler!Cardinality, WordCall!Cardinality
<1>4. \A z : WordSampler!Map(z) = WordCall!Map(z)
  BY <1>1, <1>3 DEF WordSampler!Map, WordCall!Map, WordSampler!SignBit, WordCall!SignBit,
     WordSampler!MapParts, WordCall!MapParts, WordSampler!ApplySign, WordCall!ApplySign
<1>5. WordSampler!ReadWord = WordCall!ReadWord /\ WordSampler!Loop = WordCall!Loop
      /\ WordSampler!call = WordCall!call
  BY DEF WordSampler!ReadWord, WordCall!ReadWord, WordSampler!Loop, WordCall!Loop,
         WordSampler!call, WordCall!call
<1> QED BY <1>2, <1>4, <1>5

\* A step of the word sampler, as the dispatcher sees it.
LEMMA WordStepFacts ==
  ASSUME WordStep, args = "good"
  PROVE  /\ pc \in {"dispatch", "loop"} /\ pc' \in {"loop", "done"}
         /\ rc' \in {rc, 0, -2}
         /\ UNCHANGED request /\ UNCHANGED locals /\ UNCHANGED fsReader /\ UNCHANGED avx2
         /\ pc = "dispatch" => pc' = "loop" /\ rc' = rc
         /\ ~ wantFs => st' = st
<1>1. CASE WordSampler!Dispatch
  BY <1>1 DEF WordStep, WordSampler!Dispatch, WordSampler!Loop
<1>2. CASE WordSampler!BranchlessStep \/ WordSampler!AcceptFirstStep
  BY <1>2 DEF WordStep, WordSampler!BranchlessStep, WordSampler!AcceptFirstStep,
     WordSampler!Looping
<1>3. CASE WordSampler!StatsStep
  BY <1>3 DEF WordStep, WordSampler!StatsStep, WordSampler!Looping, WordSampler!Loop
<1>4. CASE WordSampler!Return
  BY <1>4 DEF WordStep, WordSampler!Return
<1> QED BY <1>1, <1>2, <1>3, <1>4 DEF WordStep, WordSampler!Next

\* What WordCall sees of a step inside the sampler.
LEMMA WordView ==
  ASSUME pc \in {"dispatch", "loop"}, pc' \in {"loop", "done"}
  PROVE  /\ WordPc = pc /\ WordPc' = pc' /\ WordSt' = st'
         /\ pc = "dispatch" => WordSt = StaleStats
         /\ pc = "loop" => WordSt = st
  BY DEF WordPc, WordSt

\* Each step of the sampler inside the dispatcher is the same step of the
\* sampler alone.
LEMMA WordStepRefines ==
  ASSUME WordStep, args = "good", FsInv, ~ wantFs \/ Cleared
  PROVE  WordCall!Next
<1>1. /\ pc \in {"dispatch", "loop"} /\ pc' \in {"loop", "done"}
  BY WordStepFacts
<1>2. /\ WordPc = pc /\ WordPc' = pc' /\ WordSt' = st'
      /\ pc = "dispatch" => WordSt = StaleStats
      /\ pc = "loop" => WordSt = st
  BY <1>1, WordView
<1>3. \A l : WordSampler!Looping(l) => WordCall!Looping(l) /\ pc = "loop"
  BY <1>2, SameWordOperators DEF WordSampler!Looping, WordCall!Looping
<1>4. \A z : WordSampler!Accepted(z) => WordCall!Accepted(z)
  BY SameWordOperators DEF WordSampler!Accepted, WordCall!Accepted
<1>5. CASE WordSampler!Dispatch
  <2>1. pc = "dispatch" /\ UNCHANGED <<out, done, pos, from>> /\ pc' = "loop" /\ rc' = rc
        /\ UNCHANGED WordSampler!call
    BY <1>5 DEF WordSampler!Dispatch
  <2>2. st' = IF WordCall!Loop = "with_stats" THEN ZeroStats ELSE st
    BY <1>5, SameWordOperators DEF WordSampler!Dispatch, WordSampler!ZeroStats, ZeroStats
  <2>3. WordSt = StaleStats
    BY <1>2, <2>1
  <2>4. CASE wantFs
    <3>1. WordCall!Loop = "with_stats"
      BY <2>4 DEF WordCall!Loop
    <3> QED BY <1>2, <2>1, <2>2, <3>1, SameWordOperators DEF WordCall!Next, WordCall!Dispatch,
            WordCall!ZeroStats, ZeroStats, WordSampler!call, WordCall!call
  <2>5. CASE ~ wantFs
    <3>1. WordCall!Loop # "with_stats"
      BY <2>5 DEF WordCall!Loop
    <3>2. st = StaleStats
      BY <2>1, <2>5 DEF FsInv, Cleared
    <3> QED BY <1>2, <2>1, <2>2, <2>3, <3>1, <3>2, SameWordOperators
            DEF WordCall!Next, WordCall!Dispatch, WordSampler!call, WordCall!call
  <2> QED BY <2>4, <2>5
<1>6. CASE WordSampler!BranchlessStep
  <2>1. WordCall!BranchlessStep
    BY <1>2, <1>3, <1>4, <1>6, SameWordOperators
       DEF WordSampler!BranchlessStep, WordCall!BranchlessStep, WordSampler!call, WordCall!call
  <2> QED BY <2>1 DEF WordCall!Next
<1>7. CASE WordSampler!AcceptFirstStep
  <2>1. WordCall!AcceptFirstStep
    BY <1>2, <1>3, <1>4, <1>7, SameWordOperators
       DEF WordSampler!AcceptFirstStep, WordCall!AcceptFirstStep, WordSampler!call, WordCall!call
  <2> QED BY <2>1 DEF WordCall!Next
<1>8. CASE WordSampler!StatsStep
  <2>1. WordCall!StatsStep
    BY <1>2, <1>3, <1>4, <1>8, SameWordOperators
       DEF WordSampler!StatsStep, WordCall!StatsStep, WordSampler!call, WordCall!call,
           WordSampler!CountWord, WordCall!CountWord
  <2> QED BY <2>1 DEF WordCall!Next
<1>9. CASE WordSampler!Return
  <2>1. pc = "loop" /\ WordSt = st
    BY <1>2, <1>9 DEF WordSampler!Return
  <2>2. WordCall!Return
    BY <1>2, <1>9, <2>1 DEF WordSampler!Return, WordCall!Return, WordSampler!call, WordCall!call
  <2> QED BY <2>2 DEF WordCall!Next
<1> QED BY <1>5, <1>6, <1>7, <1>8, <1>9 DEF WordStep, WordSampler!Next

-----------------------------------------------------------------------------
(* The packed samplers *)

\* A step of the packed sampler, as the dispatcher sees it.
LEMMA PackedStepFacts ==
  ASSUME PackedStep
  PROVE  /\ pc \in {"start", "draw", "sign", "map"} /\ pc' \in {"draw", "sign", "map", "done"}
         /\ rc' \in {rc, 0, -2}
         /\ UNCHANGED request /\ UNCHANGED fsReader
         /\ ~ wantFs => st' = st
         /\ pc = "start" => pc' = "draw"
<1> USE DEF PackedSampler!Count
<1>1. CASE PackedSampler!Start
  BY <1>1 DEF PackedStep, PackedSampler!Start
<1>2. CASE PackedSampler!DrawCandidate
  BY <1>2 DEF PackedStep, PackedSampler!DrawCandidate, PackedSampler!Dry
<1>3. CASE PackedSampler!DrawSign
  BY <1>3 DEF PackedStep, PackedSampler!DrawSign, PackedSampler!Dry
<1>4. CASE PackedSampler!MapLanes
  BY <1>4 DEF PackedStep, PackedSampler!MapLanes
<1>5. CASE PackedSampler!Finish
  BY <1>5 DEF PackedStep, PackedSampler!Finish
<1> QED BY <1>1, <1>2, <1>3, <1>4, <1>5 DEF PackedStep, PackedSampler!Next

\* What PackedCall sees of a step inside the sampler.
LEMMA PackedView ==
  ASSUME pc \in {"start", "draw", "sign", "map"}, pc' \in {"draw", "sign", "map", "done"}
  PROVE  /\ PackedPc = pc /\ PackedPc' = pc' /\ PackedSt' = st'
         /\ pc = "start" => PackedSt = StaleStats
         /\ pc # "start" => PackedSt = st
  BY DEF PackedPc, PackedSt

\* Each step of the sampler inside the dispatcher is the same step of the
\* sampler alone.
LEMMA PackedStepRefines ==
  ASSUME PackedStep, FsInv, ~ wantFs \/ Cleared
  PROVE  PackedCall!Next
<1>1. /\ pc \in {"start", "draw", "sign", "map"} /\ pc' \in {"draw", "sign", "map", "done"}
  BY PackedStepFacts
<1>2. /\ PackedPc = pc /\ PackedPc' = pc' /\ PackedSt' = st'
      /\ pc = "start" => PackedSt = StaleStats
      /\ pc # "start" => PackedSt = st
  BY <1>1, PackedView
<1>3. \A u : pc # "start" => (PackedSampler!Count(u) => PackedCall!Count(u))
  BY <1>2 DEF PackedSampler!Count, PackedCall!Count
<1>4. \A r : pc # "start" => (PackedSampler!Dry(r) => PackedCall!Dry(r))
  <2>1. PackedSampler!Fast = PackedCall!Fast
    BY SamePackedOperators
  <2> QED BY <1>2, <1>3, <2>1 DEF PackedSampler!Dry, PackedCall!Dry
<1>5. CASE PackedSampler!Start
  <2>1. pc = "start" /\ pc' = "draw" /\ st' = IF wantFs THEN ZeroStats ELSE st
    BY <1>5 DEF PackedSampler!Start, PackedSampler!Count, PackedSampler!ZeroStats, ZeroStats
  <2>2. ~ wantFs => st = StaleStats
    BY DEF FsInv, Cleared
  <2>3. PackedCall!Count(PackedCall!ZeroStats)
    BY <1>2, <2>1, <2>2 DEF PackedCall!Count, PackedCall!ZeroStats, ZeroStats
  <2>4. PackedCall!Start
    BY <1>2, <1>5, <2>3 DEF PackedSampler!Start, PackedCall!Start,
       PackedSampler!call, PackedCall!call
  <2> QED BY <2>4 DEF PackedCall!Next
<1>6. CASE PackedSampler!DrawCandidate
  <2> DEFINE t == PackedCall!Take(DrawBits)
             keep == PackedCall!AcceptCandidate(t.value)
  <2>0. pc = "draw" /\ done < n /\ UNCHANGED <<out, done, lane, from>>
        /\ UNCHANGED PackedSampler!call
    BY <1>6 DEF PackedSampler!DrawCandidate
  <2>1. /\ PackedSampler!Take(DrawBits) = t
        /\ PackedSampler!AcceptCandidate(t.value) = keep
    BY SamePackedOperators
  <2> HIDE DEF t, keep
  <2>2. /\ reader' = t.reader
        /\ IF t.rc # 0
           THEN PackedSampler!Dry(t.reader) /\ UNCHANGED <<cand, half, pos>>
           ELSE /\ PackedSampler!Count([st EXCEPT !.attempts = @ + 1,
                                     !.random_bits = @ + DrawBits,
                                     !.rejections = @ + (IF keep THEN 0 ELSE 1)])
                /\ cand' = IF keep THEN t.value ELSE cand
                /\ half' = keep
                /\ pos' = IF keep THEN pos ELSE pos + 1
                /\ pc' = IF keep THEN "sign" ELSE "draw"
                /\ rc' = rc
    BY <1>6, <2>1, Zenon DEF PackedSampler!DrawCandidate
  <2>3. PackedSt = st /\ PackedPc = "draw" /\ pc # "start"
    BY <1>2, <2>0
  <2>4. /\ reader' = t.reader
        /\ IF t.rc # 0
           THEN PackedCall!Dry(t.reader) /\ UNCHANGED <<cand, half, pos>>
           ELSE /\ PackedCall!Count([PackedSt EXCEPT !.attempts = @ + 1,
                                     !.random_bits = @ + DrawBits,
                                     !.rejections = @ + (IF keep THEN 0 ELSE 1)])
                /\ cand' = IF keep THEN t.value ELSE cand
                /\ half' = keep
                /\ pos' = IF keep THEN pos ELSE pos + 1
                /\ PackedPc' = IF keep THEN "sign" ELSE "draw"
                /\ rc' = rc
    BY <1>2, <1>3, <1>4, <2>2, <2>3, Zenon
  <2>5. UNCHANGED PackedCall!call
    BY <2>0 DEF PackedSampler!call, PackedCall!call
  <2>6. PackedCall!DrawCandidate
    BY <2>0, <2>3, <2>4, <2>5, Zenon DEF PackedCall!DrawCandidate, t, keep
  <2> QED BY <2>6 DEF PackedCall!Next
<1>7. CASE PackedSampler!DrawSign
  <2> DEFINE t == PackedCall!Take(1)
             b == PackedCall!Batch
  <2>0. pc = "sign" /\ UNCHANGED <<out, done, cand>> /\ UNCHANGED PackedSampler!call
    BY <1>7 DEF PackedSampler!DrawSign
  <2>1. PackedSampler!Take(1) = t /\ PackedSampler!Batch = b
    BY SamePackedOperators
  <2> HIDE DEF t, b
  <2>2. /\ reader' = t.reader
        /\ IF t.rc # 0
           THEN PackedSampler!Dry(t.reader) /\ UNCHANGED <<lane, half, pos, from>>
           ELSE /\ lane' = Append(lane, <<cand, t.value>>)
                /\ half' = FALSE
                /\ pos' = pos + 1 /\ from' = Append(from, pos + 1)
                /\ pc' = (IF Len(lane) + 1 = b THEN "map" ELSE "draw") /\ rc' = rc
                /\ PackedSampler!Count([st EXCEPT !.random_bits = @ + 1])
    BY <1>7, <2>1, Zenon DEF PackedSampler!DrawSign
  <2>3. PackedSt = st /\ PackedPc = "sign" /\ pc # "start"
    BY <1>2, <2>0
  <2>4. /\ reader' = t.reader
        /\ IF t.rc # 0
           THEN PackedCall!Dry(t.reader) /\ UNCHANGED <<lane, half, pos, from>>
           ELSE /\ lane' = Append(lane, <<cand, t.value>>)
                /\ half' = FALSE
                /\ pos' = pos + 1 /\ from' = Append(from, pos + 1)
                /\ PackedPc' = (IF Len(lane) + 1 = b THEN "map" ELSE "draw") /\ rc' = rc
                /\ PackedCall!Count([PackedSt EXCEPT !.random_bits = @ + 1])
    BY <1>2, <1>3, <1>4, <2>2, <2>3, Zenon
  <2>5. UNCHANGED PackedCall!call
    BY <2>0 DEF PackedSampler!call, PackedCall!call
  <2>6. PackedCall!DrawSign
    BY <2>0, <2>3, <2>4, <2>5, Zenon DEF PackedCall!DrawSign, t, b
  <2> QED BY <2>6 DEF PackedCall!Next
<1>8. CASE PackedSampler!MapLanes
  <2>0. pc = "map" /\ pc # "start" /\ PackedSt = st
    BY <1>2, <1>8 DEF PackedSampler!MapLanes
  <2>1. PackedSampler!Fast = PackedCall!Fast
    BY SamePackedOperators
  <2>2. PackedCall!Count(IF PackedCall!Fast THEN PackedSt
                         ELSE [PackedSt EXCEPT !.random_bytes = reader.pos])
    BY <1>3, <1>8, <2>0, <2>1 DEF PackedSampler!MapLanes
  <2>3. out' = [i \in DOMAIN out |->
                  IF i \in done + 1 .. done + Len(lane)
                  THEN PackedCall!MapParts(lane[i - done][1], lane[i - done][2]) ELSE out[i]]
    BY <1>8, SamePackedOperators DEF PackedSampler!MapLanes
  <2>4. PackedCall!MapLanes
    BY <1>2, <1>8, <2>2, <2>3 DEF PackedSampler!MapLanes, PackedCall!MapLanes,
       PackedSampler!call, PackedCall!call
  <2> QED BY <2>4 DEF PackedCall!Next
<1>9. CASE PackedSampler!Finish
  <2>0. pc = "draw" /\ pc # "start" /\ PackedSt = st
    BY <1>2, <1>9 DEF PackedSampler!Finish
  <2>1. PackedSampler!Fast = PackedCall!Fast
    BY SamePackedOperators
  <2>2. PackedCall!Count(IF PackedCall!Fast
                         THEN [PackedSt EXCEPT !.random_bytes = reader.loaded] ELSE PackedSt)
    BY <1>3, <1>9, <2>0, <2>1 DEF PackedSampler!Finish
  <2>3. PackedCall!Finish
    BY <1>2, <1>9, <2>2 DEF PackedSampler!Finish, PackedCall!Finish,
       PackedSampler!call, PackedCall!call
  <2> QED BY <2>3 DEF PackedCall!Next
<1> QED BY <1>5, <1>6, <1>7, <1>8, <1>9 DEF PackedStep, PackedSampler!Next

-----------------------------------------------------------------------------
(* The dispatcher's own invariant *)

LEMMA InitDispatch == Init => DispatchInv
<1> SUFFICES ASSUME Init PROVE DispatchInv
  OBVIOUS
<1>1. pc = "call" /\ rc = 0 /\ st = StaleStats /\ fsReader = StaleReader
  BY DEF Init
<1>2. Idle
  BY DEF Init, Idle, InitialOut
<1>3. \E k \in 0 .. MaxWords : words \in [1 .. k -> InputWords]
  <2>1. CASE haveWords /\ front # "packed_bit"
    BY <2>1 DEF Init
  <2>2. CASE ~ (haveWords /\ front # "packed_bit")
    <3>1. words = <<>>
      BY <2>2 DEF Init
    <3>2. 0 \in 0 .. MaxWords /\ <<>> \in [1 .. 0 -> InputWords]
      BY DispatchAssumption
    <3> QED BY <3>1, <3>2
  <2> QED BY <2>1, <2>2
<1>4. /\ n \in 0 .. MaxN /\ len \in 0 .. MaxBytes
      /\ front = "packed_bit" => words = <<>>
      /\ stream \in 0 .. 2 ^ (ByteBits * len) - 1
      /\ wantFs \in BOOLEAN /\ inPlace \in BOOLEAN
  <2>1. len \in 0 .. MaxBytes
    BY DispatchAssumption DEF Init
  <2> QED BY <2>1 DEF Init
<1> QED BY <1>1, <1>2, <1>3, <1>4 DEF DispatchInv, Request, Route, FsInv

\* A step leaves the request alone.
LEMMA StepFrame ==
  ASSUME DispatchInv, [Next]_vars
  PROVE  UNCHANGED request
<1>1. CASE WordStep
  BY <1>1 DEF WordStep
<1>2. CASE PackedStep
  BY <1>2 DEF PackedStep
<1>3. CASE Call \/ ScalarStep \/ VectorStep \/ OriginalReturn \/ HandBack \/ UNCHANGED vars
  BY <1>3 DEF Call, ScalarStep, VectorStep, OriginalReturn, HandBack, vars
<1> QED BY <1>1, <1>2, <1>3 DEF Next

\* A step of an original sampler belongs to a call of one.
LEMMA OriginalPlace ==
  ASSUME DispatchInv, ScalarStep \/ VectorStep \/ OriginalReturn
  PROVE  /\ RunsOriginal /\ Refusal = 0 /\ ~ RunsWord /\ ~ RunsPacked
         /\ pc \in {"scalar", "vector"} /\ pc' \in {pc, "done"} /\ rc' = rc
         /\ UNCHANGED <<st, fsReader>>
<1>1. pc \in {"scalar", "vector"} /\ pc' \in {pc, "done"} /\ rc' = rc
      /\ UNCHANGED <<st, fsReader>>
  BY DEF ScalarStep, VectorStep, OriginalReturn
<1>2. RunsOriginal
  BY <1>1, Places DEF DispatchInv
<1> QED BY <1>1, <1>2, OneRoute DEF DispatchInv

LEMMA DispatchStep ==
  ASSUME DispatchInv, [Next]_vars
  PROVE  DispatchInv'
<1>0. UNCHANGED request /\ Request /\ Route /\ FsInv
  BY StepFrame DEF DispatchInv
<1>1. /\ Refusal' = Refusal /\ (RunsOriginal' <=> RunsOriginal)
      /\ (RunsWord' <=> RunsWord) /\ (RunsPacked' <=> RunsPacked)
      /\ VectorPath' = VectorPath /\ InitialOut' = InitialOut
      /\ (Cleared' <=> Cleared) /\ Request'
  BY <1>0, RequestFrame
<1>2. /\ Refusal = 0 => RunsOriginal \/ RunsWord \/ RunsPacked
      /\ RunsOriginal => Refusal = 0 /\ ~ RunsWord /\ ~ RunsPacked
      /\ RunsWord => Refusal = 0 /\ ~ RunsPacked /\ args = "good"
      /\ RunsPacked => Refusal = 0
  BY <1>0, OneRoute
<1>3. CASE Call
  <2>1. /\ pc = "call" /\ rc' = Refusal
        /\ UNCHANGED <<out, done, pos, from, reader, lane, cand, half, avx2>>
        /\ pc' = IF Refusal # 0 THEN "done"
                 ELSE IF kind = "original" THEN IF VectorPath THEN "vector" ELSE "scalar"
                 ELSE IF front = "packed_bit" THEN "start" ELSE "dispatch"
        /\ pc' # "call" /\ pc' # "returned"
    BY <1>3 DEF Call, locals
  <2>2. Idle' /\ rc = 0
    BY <1>0, <1>1, <2>1 DEF Route, Idle
  <2>3. Route'
    <3>1. CASE Refusal # 0
      BY <1>1, <1>2, <2>1, <2>2, <3>1 DEF Route
    <3>2. CASE Refusal = 0
      <4>1. RunsOriginal => pc' = IF VectorPath THEN "vector" ELSE "scalar"
        BY <2>1, <3>2 DEF RunsOriginal
      <4>2. RunsWord => pc' = "dispatch"
        BY <2>1, <3>2 DEF RunsWord
      <4>3. RunsPacked => pc' = "start"
        BY <2>1, <3>2 DEF RunsPacked
      <4> QED BY <1>1, <2>1, <3>2, <4>1, <4>2, <4>3 DEF Route
    <3> QED BY <3>1, <3>2
  <2>4. st = StaleStats /\ fsReader = StaleReader
    BY <1>0, <2>1 DEF FsInv
  <2>5. IF Cleared THEN st' = ZeroStats /\ fsReader' = NewReader
        ELSE st' = st /\ fsReader' = fsReader
    BY <1>3 DEF Call, Cleared
  <2>6. ZeroStats' = ZeroStats /\ StaleStats' = StaleStats
    BY DEF ZeroStats, StaleStats
  <2> QED BY <1>1, <2>1, <2>3, <2>4, <2>5, <2>6 DEF DispatchInv, FsInv, StaleReader
<1>4. CASE ScalarStep \/ VectorStep \/ OriginalReturn
  <2>1. /\ RunsOriginal /\ Refusal = 0 /\ ~ RunsWord /\ ~ RunsPacked
        /\ pc \in {"scalar", "vector"} /\ pc' \in {pc, "done"} /\ rc' = rc
        /\ UNCHANGED <<st, fsReader>>
    BY <1>4, OriginalPlace
  <2>2. Route'
    BY <1>0, <1>1, <2>1 DEF Route
  <2>3. FsInv'
    BY <1>0, <1>1, <2>1 DEF FsInv, StaleReader, StaleStats, ZeroStats
  <2> QED BY <1>1, <2>2, <2>3 DEF DispatchInv
<1>5. CASE WordStep
  <2>1. RunsWord /\ pc \in {"dispatch", "loop"} /\ args = "good"
    BY <1>0, <1>2, <1>5, Places DEF WordStep
  <2>2. /\ pc' \in {"loop", "done"} /\ rc' \in {rc, 0, -2}
        /\ UNCHANGED fsReader /\ (~ wantFs => st' = st)
    BY <1>5, <2>1, WordStepFacts
  <2>3. Route'
    BY <1>0, <1>1, <1>2, <2>1, <2>2 DEF Route
  <2>4. Refusal \notin {-1, -9} /\ ~ RunsOriginal /\ ~ RunsPacked
    BY <1>2, <2>1
  <2>5. ~ Cleared => st' = st
    BY <2>2, <2>4 DEF Cleared
  <2>6. FsInv'
    BY <1>0, <1>1, <1>2, <2>1, <2>2, <2>4, <2>5 DEF FsInv, StaleReader, StaleStats
  <2> QED BY <1>1, <2>3, <2>6 DEF DispatchInv
<1>6. CASE PackedStep
  <2>1. RunsPacked /\ pc \in {"start", "draw", "sign", "map"}
    BY <1>0, <1>6, Places DEF PackedStep
  <2>2. /\ pc' \in {"draw", "sign", "map", "done"} /\ rc' \in {rc, 0, -2}
        /\ UNCHANGED fsReader /\ (~ wantFs => st' = st)
    BY <1>6, PackedStepFacts
  <2>3. Route'
    BY <1>0, <1>1, <1>2, <2>1, <2>2 DEF Route
  <2>4. Refusal = 0 /\ Refusal \notin {-1, -9} /\ ~ RunsOriginal
    BY <1>2, <2>1
  <2>5. ~ Cleared => st' = st
    BY <2>2, <2>4 DEF Cleared
  <2>6. FsInv'
    BY <1>0, <1>1, <1>2, <2>1, <2>2, <2>4, <2>5 DEF FsInv, StaleReader, StaleStats
  <2> QED BY <1>1, <2>3, <2>6 DEF DispatchInv
<1>7. CASE HandBack
  <2>1. /\ pc = "done" /\ pc' = "returned" /\ rc' = rc
        /\ UNCHANGED <<out, done, pos, from, reader, lane, cand, half, st>>
        /\ fsReader' = IF wantFs /\ Sampled THEN reader ELSE fsReader
    BY <1>7 DEF HandBack, locals
  <2>2. Route'
    BY <1>0, <1>1, <2>1 DEF Route, Idle
  <2>3. Sampled <=> RunsPacked
    <3>1. CASE Refusal # 0
      <4>1. rc = Refusal /\ ~ RunsPacked
        BY <1>0, <1>2, <2>1, <3>1 DEF Route
      <4>2. kind = "sda" => Refusal # -2
        BY DEF Refusal
      <4> QED BY <3>1, <4>1, <4>2 DEF Sampled
    <3>2. CASE Refusal = 0
      BY <1>0, <2>1, <3>2 DEF Route, Sampled, RunsPacked
    <3> QED BY <3>1, <3>2
  <2>4. wantFs /\ RunsPacked => Cleared
    BY <1>2 DEF Cleared
  <2>5. Cleared => wantFs
    BY DEF Cleared
  <2>6. FsInv'
    <3>1. reader' = reader /\ st' = st
      BY <2>1
    <3>2. CASE Cleared
      <4>1. fsReader' = IF RunsPacked THEN reader' ELSE NewReader
        BY <1>0, <2>1, <2>3, <2>5, <3>1, <3>2 DEF FsInv
      <4>2. Refusal # 0 \/ RunsOriginal => st' = ZeroStats
        BY <1>0, <2>1, <3>1, <3>2 DEF FsInv
      <4> QED BY <1>1, <2>1, <3>2, <4>1, <4>2 DEF FsInv, ZeroStats
    <3>3. CASE ~ Cleared
      <4>1. fsReader' = fsReader
        BY <2>1, <2>3, <2>4, <3>3
      <4> QED BY <1>0, <1>1, <2>1, <3>1, <3>3, <4>1 DEF FsInv, StaleStats, StaleReader
    <3> QED BY <3>2, <3>3
  <2> QED BY <1>1, <2>2, <2>6 DEF DispatchInv
<1>8. CASE UNCHANGED vars
  <2>1. UNCHANGED <<out, done, pos, from, reader, lane, cand, half, st, fsReader, pc, rc>>
    BY <1>8 DEF vars, locals
  <2>2. Route' /\ FsInv'
    BY <1>0, <1>1, <2>1 DEF Route, Idle, FsInv, StaleReader, StaleStats, ZeroStats
  <2> QED BY <1>1, <2>2 DEF DispatchInv
<1> QED BY <1>3, <1>4, <1>5, <1>6, <1>7, <1>8 DEF Next

LEMMA DispatchInvariant == Spec => []DispatchInv
<1>1. DispatchInv /\ [Next]_vars => DispatchInv'
  BY DispatchStep
<1> QED BY <1>1, InitDispatch, PTL DEF Spec

-----------------------------------------------------------------------------
(* Refinement *)

\* A dispatched call of a word sampler takes the steps of the sampler alone;
\* the dispatcher's own are no step of it.
LEMMA WordSimulation ==
  ASSUME DispatchInv, [Next]_vars, RunsWord
  PROVE  [WordCall!Next]_(WordCall!vars)
<1>0. UNCHANGED request /\ Request /\ Route /\ FsInv
  BY StepFrame DEF DispatchInv
<1>1. Refusal = 0 /\ ~ RunsPacked /\ ~ RunsOriginal /\ args = "good"
  BY <1>0, OneRoute
<1>2. /\ pc \notin {"scalar", "vector", "start", "draw", "sign", "map"}
      /\ kind = "sda" /\ front = "word_oriented"
  BY <1>0, <1>1, Places DEF RunsWord
<1>3. UNCHANGED <<wantFs, args, inPlace, n, words>>
  BY <1>0 DEF request
<1>4. CASE Call
  <2>1. /\ pc = "call" /\ pc' = "dispatch" /\ rc' = rc
        /\ UNCHANGED <<out, done, pos, from>>
    BY <1>0, <1>1, <1>2, <1>4 DEF Call, Route
  <2>2. WordPc' = WordPc /\ WordSt' = WordSt
    BY <2>1 DEF WordPc, WordSt, StaleStats
  <2> QED BY <1>3, <2>1, <2>2 DEF WordCall!vars
<1>5. CASE WordStep
  <2>1. ~ wantFs \/ Cleared
    BY <1>1 DEF Cleared
  <2> QED BY <1>0, <1>1, <1>5, <2>1, WordStepRefines
<1>6. CASE HandBack
  <2>1. /\ pc = "done" /\ pc' = "returned" /\ rc' = rc /\ st' = st
        /\ UNCHANGED <<out, done, pos, from>>
    BY <1>6 DEF HandBack
  <2>2. WordPc' = WordPc /\ WordSt' = WordSt
    BY <2>1 DEF WordPc, WordSt
  <2> QED BY <1>3, <2>1, <2>2 DEF WordCall!vars
<1>7. CASE UNCHANGED vars
  <2>1. UNCHANGED <<out, done, pos, from, st, pc, rc>>
    BY <1>7 DEF vars
  <2>2. WordPc' = WordPc /\ WordSt' = WordSt
    BY <2>1 DEF WordPc, WordSt, StaleStats
  <2> QED BY <1>3, <2>1, <2>2 DEF WordCall!vars
<1>8. ~ ScalarStep /\ ~ VectorStep /\ ~ OriginalReturn /\ ~ PackedStep
  BY <1>2 DEF ScalarStep, VectorStep, OriginalReturn, PackedStep
<1> QED BY <1>4, <1>5, <1>6, <1>7, <1>8 DEF Next

\* The same of a call of a packed sampler.
LEMMA PackedSimulation ==
  ASSUME DispatchInv, [Next]_vars, RunsPacked
  PROVE  [PackedCall!Next]_(PackedCall!vars)
<1>0. UNCHANGED request /\ Request /\ Route /\ FsInv
  BY StepFrame DEF DispatchInv
<1>1. Refusal = 0 /\ ~ RunsWord /\ ~ RunsOriginal
  BY <1>0, OneRoute
<1>2. /\ pc \notin {"scalar", "vector", "dispatch", "loop"}
      /\ kind = "sda" /\ front = "packed_bit"
  BY <1>0, <1>1, Places DEF RunsPacked
<1>3. UNCHANGED <<backend, wantFs, n, len, stream>>
  BY <1>0 DEF request
<1>4. CASE Call
  <2>1. /\ pc = "call" /\ pc' = "start" /\ rc' = rc
        /\ UNCHANGED <<out, done, pos, from, reader, lane, cand, half>>
    BY <1>0, <1>1, <1>2, <1>4 DEF Call, Route, locals
  <2>2. PackedPc' = PackedPc /\ PackedSt' = PackedSt
    BY <2>1 DEF PackedPc, PackedSt, StaleStats
  <2> QED BY <1>3, <2>1, <2>2 DEF PackedCall!vars, PackedCall!call
<1>5. CASE PackedStep
  <2>1. ~ wantFs \/ Cleared
    BY <1>1 DEF Cleared
  <2> QED BY <1>0, <1>5, <2>1, PackedStepRefines
<1>6. CASE HandBack
  <2>1. /\ pc = "done" /\ pc' = "returned" /\ rc' = rc /\ st' = st
        /\ UNCHANGED <<out, done, pos, from, reader, lane, cand, half>>
    BY <1>6 DEF HandBack, locals
  <2>2. PackedPc' = PackedPc /\ PackedSt' = PackedSt
    BY <2>1 DEF PackedPc, PackedSt
  <2> QED BY <1>3, <2>1, <2>2 DEF PackedCall!vars, PackedCall!call
<1>7. CASE UNCHANGED vars
  <2>1. UNCHANGED <<out, done, pos, from, reader, lane, cand, half, st, pc, rc>>
    BY <1>7 DEF vars, locals
  <2>2. PackedPc' = PackedPc /\ PackedSt' = PackedSt
    BY <2>1 DEF PackedPc, PackedSt, StaleStats
  <2> QED BY <1>3, <2>1, <2>2 DEF PackedCall!vars, PackedCall!call
<1>8. ~ ScalarStep /\ ~ VectorStep /\ ~ OriginalReturn /\ ~ WordStep
  BY <1>2 DEF ScalarStep, VectorStep, OriginalReturn, WordStep
<1> QED BY <1>4, <1>5, <1>6, <1>7, <1>8 DEF Next

\* Which sampler a call runs does not change.
LEMMA RouteStays ==
  ASSUME DispatchInv, [Next]_vars
  PROVE  (RunsWord' <=> RunsWord) /\ (RunsPacked' <=> RunsPacked)
BY StepFrame, RequestFrame

\* A dispatched call of a word-oriented sampler is a call of
\* frodo_sda_word_sample_n and nothing else: whatever is proved of that
\* sampler holds behind the dispatcher.
THEOREM WordCallIsTheSampler == Spec => (RunsWord => WordCall!Spec)
<1>1. DispatchInv /\ [Next]_vars /\ RunsWord
        => [WordCall!Next]_(WordCall!vars) /\ RunsWord'
  BY WordSimulation, RouteStays
<1> QED BY <1>1, WordInit, DispatchInvariant, PTL DEF Spec, WordCall!Spec

\* A dispatched call of a packed-bit sampler is a call of the fast scalar or
\* the fast batch sampler and nothing else.
THEOREM PackedCallIsTheSampler == Spec => (RunsPacked => PackedCall!Spec)
<1>1. DispatchInv /\ [Next]_vars /\ RunsPacked
        => [PackedCall!Next]_(PackedCall!vars) /\ RunsPacked'
  BY PackedSimulation, RouteStays
<1> QED BY <1>1, PackedInit, DispatchInvariant, PTL DEF Spec, PackedCall!Spec

\* The constants are as the samplers' proofs assume them.
LEMMA WordConstants ==
  /\ WordCall!SamplerAssumption /\ WordCall!ProfileAssumption
BY ProfileAssumption, DispatchAssumption
   DEF WordCall!SamplerAssumption, WordCall!ProfileAssumption, WordCall!Word, Word

LEMMA PackedConstants ==
  /\ PackedCall!PackedAssumption /\ PackedCall!ProfileAssumption /\ PackedCall!ReaderAssumption
<1>1. OutCap - 1 \in Nat
  BY DispatchAssumption
<1> QED
BY <1>1, ProfileAssumption, DispatchAssumption, ReaderAssumption
   DEF PackedCall!PackedAssumption, PackedCall!ProfileAssumption, PackedCall!ReaderAssumption,
       PackedCall!Word, Word

\* What the word samplers promise of every call, of a dispatched one.
LEMMA WordPromise ==
  Spec => [](RunsWord => /\ WordCall!TypeOK /\ WordCall!ResultCorrect /\ WordCall!LoopInv
                         /\ WordCall!StatsConserved)
<1>1. WordCall!Spec => []WordCall!TypeOK
  BY WordConstants, WordCall!TypeCorrect
<1>2. WordCall!Spec => []WordCall!ResultCorrect
  BY WordConstants, WordCall!ResultIsCorrect
<1>3. WordCall!Spec => []WordCall!LoopInv
  BY WordConstants, WordCall!LoopInvariant
<1>4. WordCall!Spec => []WordCall!StatsConserved
  BY WordConstants, WordCall!StatsAreConserved
<1>5. DispatchInv /\ [Next]_vars => (RunsWord' <=> RunsWord)
  BY RouteStays
<1> QED BY <1>1, <1>2, <1>3, <1>4, <1>5, WordCallIsTheSampler, DispatchInvariant, PTL DEF Spec

\* The same of the packed samplers.
LEMMA PackedPromise ==
  Spec => [](RunsPacked => /\ PackedCall!StoryInv /\ PackedCall!BitAccounting
                           /\ PackedCall!ReaderInSync /\ PackedCall!OutputPrefix
                           /\ (PackedCall!Finished(-2) => PackedCall!Sampling!HoldsFewer(n)))
<1>1. PackedCall!Spec => []PackedCall!StoryInv
  BY PackedConstants, PackedCall!StoryInvariant
<1>2. PackedCall!Spec => []PackedCall!BitAccounting
  BY PackedConstants, PackedCall!BitsAreAccounted
<1>3. PackedCall!Spec => []PackedCall!ReaderInSync
  BY PackedConstants, PackedCall!ReaderStaysInSync
<1>4. PackedCall!Spec => []PackedCall!OutputPrefix
  BY PackedConstants, PackedCall!StoredInOrder
<1>5. PackedCall!Spec => [](PackedCall!Finished(-2) => PackedCall!Sampling!HoldsFewer(n))
  BY PackedConstants, PackedCall!ShortageIsReal
<1>6. DispatchInv /\ [Next]_vars => (RunsPacked' <=> RunsPacked)
  BY RouteStays
<1> QED BY <1>1, <1>2, <1>3, <1>4, <1>5, <1>6, PackedCallIsTheSampler, DispatchInvariant, PTL
        DEF Spec

-----------------------------------------------------------------------------
(* The original samplers *)

\* No more thresholds can be passed than there are.
LEMMA CountInRange ==
  ASSUME NEW L \in Nat, NEW S, S \subseteq 1 .. L
  PROVE  IsFiniteSet(S) /\ Cardinality(S) \in 0 .. L
<1>1. IsFiniteSet(1 .. L) /\ Cardinality(1 .. L) = L
  BY FS_Interval
<1>2. IsFiniteSet(S) /\ Cardinality(S) <= Cardinality(1 .. L)
  BY <1>1, FS_Subset
<1>3. Cardinality(S) \in Nat
  BY <1>2, FS_CardinalityType
<1> QED BY <1>1, <1>2, <1>3

\* An original sample is again a word.
LEMMA OrigMapType == \A z : OrigMap(z) \in Word
<1> SUFFICES ASSUME NEW z PROVE OrigMap(z) \in Word
  OBVIOUS
<1>1. /\ WordMod \in Nat \ {0}
      /\ Len(OrigThresholds) \in Nat /\ Len(OrigThresholds) < WordMod
      /\ DOMAIN OrigThresholds = 1 .. Len(OrigThresholds)
  BY ProfileAssumption
<1> DEFINE g == Gt(OrigValue(z))
<1>2. g \in 0 .. Len(OrigThresholds)
  <2> DEFINE S == {i \in DOMAIN OrigThresholds : OrigValue(z) > OrigThresholds[i]}
  <2>1. S \subseteq 1 .. Len(OrigThresholds)
    BY <1>1
  <2> HIDE DEF S
  <2>2. Cardinality(S) \in 0 .. Len(OrigThresholds)
    BY <1>1, <2>1, CountInRange
  <2> QED BY <2>2 DEF S, Gt
<1> HIDE DEF g
<1>3. ((WordMod - 1 - g) + 1) \in Nat /\ g \in Word
  BY <1>1, <1>2 DEF Word
<1>4. ((WordMod - 1 - g) + 1) % WordMod \in 0 .. WordMod - 1
  BY <1>1, <1>3
<1>5. OrigMap(z) = ApplySign(g, OrigSign(z))
  BY DEF OrigMap, OrigMapParts, g
<1> QED BY <1>3, <1>4, <1>5 DEF ApplySign, Word

\* The vector sampler may stop before the terminal threshold: no word's value
\* is above it.
LEMMA VectorMapIsOrigMap == \A z \in Word : VectorMap(z) = OrigMap(z)
<1> SUFFICES ASSUME NEW z \in Word PROVE VectorMap(z) = OrigMap(z)
  OBVIOUS
<1> DEFINE c == OrigValue(z)
           L == Len(OrigThresholds)
<1>1. /\ L \in Nat \ {0} /\ DOMAIN OrigThresholds = 1 .. L
      /\ WordMod \in Nat \ {0} /\ WordMod % 2 = 0
      /\ OrigThresholds[L] = WordMod \div 2 - 1
  BY ProfileAssumption, DispatchAssumption
<1>2. c \in Nat /\ c <= WordMod \div 2 - 1
  BY <1>1 DEF OrigValue, Word
<1> HIDE DEF c
<1>3. ~ (c > OrigThresholds[L])
  BY <1>1, <1>2
<1> HIDE DEF L
<1>4. {i \in 1 .. L - 1 : c > OrigThresholds[i]}
        = {i \in DOMAIN OrigThresholds : c > OrigThresholds[i]}
  BY <1>1, <1>3
<1>5. VectorGt(c) = Gt(c)
  BY <1>4 DEF VectorGt, Gt, L
<1> QED BY <1>5 DEF VectorMap, OrigMap, OrigMapParts, c

\* A vector is whole or a single sample, and never passes the request.
LEMMA VectorTakeBound ==
  ASSUME Request, done \in 0 .. n, done < n
  PROVE  /\ VectorTake \in Nat \ {0} /\ done + VectorTake <= n
         /\ VectorTake # Lanes => VectorTake = 1 /\ n - done < Lanes
         /\ Lanes \in Nat \ {0} /\ n \in Nat
BY DispatchAssumption, RequestNumbers DEF VectorTake

LEMMA OriginalStep ==
  ASSUME DispatchInv, OriginalInv, [Next]_vars
  PROVE  OriginalInv'
<1>0. UNCHANGED request /\ Request /\ Route
  BY StepFrame DEF DispatchInv
<1>1. /\ Refusal' = Refusal /\ (RunsOriginal' <=> RunsOriginal)
      /\ \A i : Before(i)' = Before(i)
  BY <1>0, RequestFrame
<1> SUFFICES ASSUME RunsOriginal
             PROVE  /\ done' \in 0 .. n' /\ out' \in [1 .. OutCap -> Word]
                    /\ \A i \in 1 .. done' : out'[i] = OrigMap(words'[i])
                    /\ \A i \in done' + 1 .. OutCap : out'[i] = Before(i)'
                    /\ pc' \in {"done", "returned"} => done' = n'
  BY <1>1 DEF OriginalInv
<1>2. n' = n /\ words' = words
  BY <1>0 DEF request
<1>3. /\ n \in Nat /\ n < OutCap /\ OutCap \in Nat
      /\ words \in Seq(Word) /\ Len(words) \in Nat
      /\ Refusal = 0 /\ ~ RunsWord /\ ~ RunsPacked /\ n <= Len(words)
  BY <1>0, RequestNumbers, OneRoute
<1>4. /\ done \in 0 .. n /\ out \in [1 .. OutCap -> Word]
      /\ \A i \in 1 .. done : out[i] = OrigMap(words[i])
      /\ \A i \in done + 1 .. OutCap : out[i] = Before(i)
      /\ pc \in {"done", "returned"} => done = n
  BY DEF OriginalInv
<1>5. pc \notin {"dispatch", "loop", "start", "draw", "sign", "map"}
  BY <1>0, <1>3, Places
<1>6. inPlace => \A i \in 1 .. Len(words) : Before(i) = words[i]
  BY DEF Before
<1>7. CASE Call
  BY <1>1, <1>2, <1>3, <1>4, <1>7 DEF Call, RunsOriginal
<1>8. CASE ScalarStep
  <2>1. /\ done < n /\ done' = done + 1 /\ pc' = pc /\ pc = "scalar"
        /\ out' = [out EXCEPT ![done + 1] =
               OrigMap(IF inPlace THEN out[done + 1] ELSE words[done + 1])]
    BY <1>8 DEF ScalarStep
  <2>2. (IF inPlace THEN out[done + 1] ELSE words[done + 1]) = words[done + 1]
    <3>1. done + 1 \in done + 1 .. OutCap /\ done + 1 \in 1 .. Len(words)
      BY <1>3, <1>4, <2>1
    <3> QED BY <1>4, <1>6, <3>1
  <2> DEFINE v == OrigMap(words[done + 1])
  <2>3. v \in Word /\ out' = [out EXCEPT ![done + 1] = v]
    BY <2>1, <2>2, OrigMapType
  <2>4. \A i \in 1 .. done + 1 : out'[i] = OrigMap(words[i])
    <3> SUFFICES ASSUME NEW i \in 1 .. done + 1 PROVE out'[i] = OrigMap(words[i])
      OBVIOUS
    <3>1. CASE i = done + 1
      BY <1>3, <1>4, <2>1, <2>3, <3>1
    <3>2. CASE i # done + 1
      <4> HIDE DEF v
      <4>1. i \in 1 .. done /\ i \in 1 .. OutCap
        BY <1>3, <1>4, <3>2
      <4>2. out'[i] = out[i]
        BY <1>4, <2>3, <3>2, <4>1
      <4> QED BY <1>4, <4>1, <4>2
    <3> QED BY <3>1, <3>2
  <2> HIDE DEF v
  <2> QED BY <1>1, <1>2, <1>3, <1>4, <2>1, <2>3, <2>4
<1>9. CASE VectorStep
  <2> DEFINE t == VectorTake
  <2>1. /\ done < n /\ done' = done + t /\ pc' = pc /\ pc = "vector"
        /\ out' = [i \in DOMAIN out |->
                     IF i \in done + 1 .. done + t THEN VectorMap(out[i]) ELSE out[i]]
    BY <1>9 DEF VectorStep
  <2>2. t \in Nat \ {0} /\ done + t <= n
    BY <1>0, <1>4, <2>1, VectorTakeBound
  <2> HIDE DEF t
  <2>3. inPlace
    BY <1>0, <2>1, Places DEF VectorPath
  <2>4. \A i \in done + 1 .. done + t : out'[i] = OrigMap(words[i])
    <3> SUFFICES ASSUME NEW i \in done + 1 .. done + t PROVE out'[i] = OrigMap(words[i])
      OBVIOUS
    <3>1. i \in 1 .. OutCap /\ i \in done + 1 .. OutCap /\ i \in 1 .. Len(words)
      BY <1>3, <1>4, <2>2
    <3>2. out[i] = words[i]
      BY <1>4, <1>6, <2>3, <3>1
    <3>3. out'[i] = VectorMap(out[i]) /\ out[i] \in Word
      BY <1>4, <2>1, <3>1
    <3> QED BY <3>2, <3>3, VectorMapIsOrigMap
  <2>5. \A i \in 1 .. OutCap : i \notin done + 1 .. done + t => out'[i] = out[i]
    BY <1>4, <2>1
  <2>6. DOMAIN out' = 1 .. OutCap /\ out' = [i \in 1 .. OutCap |-> out'[i]]
    BY <1>4, <2>1
  <2>7. \A i \in 1 .. OutCap : out'[i] \in Word
    BY <1>4, <2>4, <2>5, OrigMapType
  <2>8. out' \in [1 .. OutCap -> Word]
    BY <2>6, <2>7
  <2>9. \A i \in 1 .. done + t : out'[i] = OrigMap(words[i])
    <3> SUFFICES ASSUME NEW i \in 1 .. done + t PROVE out'[i] = OrigMap(words[i])
      OBVIOUS
    <3>1. CASE i \in 1 .. done
      <4>1. i \in 1 .. OutCap /\ i \notin done + 1 .. done + t
        BY <1>3, <1>4, <3>1
      <4> QED BY <1>4, <2>5, <3>1, <4>1
    <3>2. CASE i \notin 1 .. done
      <4>1. i \in done + 1 .. done + t
        BY <1>4, <2>2, <3>2
      <4> QED BY <2>4, <4>1
    <3> QED BY <3>1, <3>2
  <2>10. \A i \in done + t + 1 .. OutCap : out'[i] = Before(i)
    <3> SUFFICES ASSUME NEW i \in done + t + 1 .. OutCap PROVE out'[i] = Before(i)
      OBVIOUS
    <3>1. i \in 1 .. OutCap /\ i \notin done + 1 .. done + t /\ i \in done + 1 .. OutCap
      BY <1>4, <2>2
    <3> QED BY <1>4, <2>5, <3>1
  <2>11. done' \in 0 .. n
    BY <1>3, <1>4, <2>1, <2>2
  <2> QED BY <1>1, <1>2, <2>1, <2>8, <2>9, <2>10, <2>11
<1>10. CASE OriginalReturn
  BY <1>1, <1>2, <1>4, <1>10 DEF OriginalReturn
<1>11. CASE HandBack
  BY <1>1, <1>2, <1>4, <1>11 DEF HandBack
<1>12. CASE UNCHANGED vars
  BY <1>1, <1>2, <1>4, <1>12 DEF vars
<1>13. ~ WordStep /\ ~ PackedStep
  BY <1>5 DEF WordStep, PackedStep
<1> QED BY <1>7, <1>8, <1>9, <1>10, <1>11, <1>12, <1>13 DEF Next

LEMMA OriginalInvariant == Spec => []OriginalInv
<1>1. Init => OriginalInv
  <2> SUFFICES ASSUME Init, RunsOriginal PROVE OriginalInv
    BY DEF OriginalInv
  <2>1. Request /\ Idle /\ pc = "call"
    BY InitDispatch DEF DispatchInv, Route, Init
  <2>2. /\ n \in Nat /\ n < OutCap /\ OutCap \in Nat
        /\ words \in Seq(Word) /\ Len(words) \in Nat
    BY <2>1, RequestNumbers
  <2>3. done = 0 /\ out = [i \in 1 .. OutCap |-> Before(i)]
    BY <2>1 DEF Idle, InitialOut, Before
  <2>4. \A i \in 1 .. OutCap : Before(i) \in Word
    BY <2>2, DispatchAssumption DEF Before
  <2>5. out \in [1 .. OutCap -> Word] /\ \A i \in 1 .. OutCap : out[i] = Before(i)
    BY <2>3, <2>4
  <2> QED BY <2>1, <2>2, <2>3, <2>5 DEF OriginalInv
<1>2. DispatchInv /\ OriginalInv /\ [Next]_vars => OriginalInv'
  BY OriginalStep
<1> QED BY <1>1, <1>2, DispatchInvariant, PTL DEF Spec

-----------------------------------------------------------------------------
(* What a source holds, seen from the dispatcher and from the sampler *)

LEMMA SameWordPromise ==
  /\ \A s, m : WordCall!Sampling!HoldsFirst(s, m) => WordSampler!Sampling!HoldsFirst(s, m)
  /\ \A m : WordCall!Sampling!HoldsFewer(m) => WordSampler!Sampling!HoldsFewer(m)
<1>1. /\ WordSampler!Sampling!Accepted = WordCall!Sampling!Accepted
      /\ \A S : WordSampler!Sampling!Cardinality(S) = WordCall!Sampling!Cardinality(S)
  BY SameWordOperators DEF WordSampler!Sampling!Accepted, WordCall!Sampling!Accepted,
     WordSampler!Sampling!Cardinality, WordCall!Sampling!Cardinality
<1>2. \A k : WordSampler!Sampling!Rank(k) = WordCall!Sampling!Rank(k)
  BY <1>1 DEF WordSampler!Sampling!Rank, WordCall!Sampling!Rank
<1>3. \A s, m : WordCall!Sampling!HoldsFirst(s, m) => WordSampler!Sampling!HoldsFirst(s, m)
  BY <1>1, <1>2, SameWordOperators
     DEF WordSampler!Sampling!HoldsFirst, WordCall!Sampling!HoldsFirst
<1>4. \A m : WordCall!Sampling!HoldsFewer(m) => WordSampler!Sampling!HoldsFewer(m)
  BY <1>1 DEF WordSampler!Sampling!HoldsFewer, WordCall!Sampling!HoldsFewer
<1> QED BY <1>3, <1>4

LEMMA SamePackedPromise ==
  /\ \A s, m : PackedCall!Sampling!HoldsFirst(s, m) => PackedSampler!Sampling!HoldsFirst(s, m)
  /\ \A m : PackedCall!Sampling!HoldsFewer(m) => PackedSampler!Sampling!HoldsFewer(m)
<1>0. /\ PackedSampler!Draws = PackedCall!Draws
      /\ \A d : PackedSampler!DrawAccepted(d) = PackedCall!DrawAccepted(d)
      /\ \A d : PackedSampler!DrawImage(d) = PackedCall!DrawImage(d)
  <2>1. \A s, f, k : PackedSampler!Slice(s, f, k) = PackedCall!Slice(s, f, k)
    BY DEF PackedSampler!Slice, PackedCall!Slice
  <2>2. PackedSampler!Parse = PackedCall!Parse
    BY <2>1, SamePackedOperators, Zenon DEF PackedSampler!Parse, PackedCall!Parse
  <2> QED BY <2>2, SamePackedOperators DEF PackedSampler!Draws, PackedCall!Draws,
     PackedSampler!DrawAccepted, PackedCall!DrawAccepted,
     PackedSampler!DrawImage, PackedCall!DrawImage
<1>1. /\ PackedSampler!Sampling!Accepted = PackedCall!Sampling!Accepted
      /\ \A S : PackedSampler!Sampling!Cardinality(S) = PackedCall!Sampling!Cardinality(S)
  BY <1>0 DEF PackedSampler!Sampling!Accepted, PackedCall!Sampling!Accepted,
     PackedSampler!Sampling!Cardinality, PackedCall!Sampling!Cardinality
<1>2. \A k : PackedSampler!Sampling!Rank(k) = PackedCall!Sampling!Rank(k)
  BY <1>1 DEF PackedSampler!Sampling!Rank, PackedCall!Sampling!Rank
<1>3. \A s, m : PackedCall!Sampling!HoldsFirst(s, m) => PackedSampler!Sampling!HoldsFirst(s, m)
  BY <1>0, <1>1, <1>2 DEF PackedSampler!Sampling!HoldsFirst, PackedCall!Sampling!HoldsFirst
<1>4. \A m : PackedCall!Sampling!HoldsFewer(m) => PackedSampler!Sampling!HoldsFewer(m)
  BY <1>1 DEF PackedSampler!Sampling!HoldsFewer, PackedCall!Sampling!HoldsFewer
<1> QED BY <1>3, <1>4

-----------------------------------------------------------------------------
(* Results *)

\* Every kind, frontend and backend stores the samples its source promises; a
\* shortage is a real one; a refused call writes nothing.
THEOREM BackendIsInvisible == Spec => []BackendInvisible
<1>1. ASSUME DispatchInv, OriginalInv,
             RunsWord => WordCall!ResultCorrect,
             RunsPacked => /\ PackedCall!StoryInv /\ PackedCall!OutputPrefix
                           /\ (PackedCall!Finished(-2) => PackedCall!Sampling!HoldsFewer(n))
      PROVE  BackendInvisible
  <2>0. Request /\ Route
    BY <1>1 DEF DispatchInv
  <2>1. /\ Refusal = 0 => RunsOriginal \/ RunsWord \/ RunsPacked
        /\ RunsOriginal => Refusal = 0 /\ ~ RunsWord /\ ~ RunsPacked /\ Len(words) >= n
        /\ RunsWord => Refusal = 0 /\ ~ RunsPacked
        /\ RunsPacked => Refusal = 0
    BY <2>0, OneRoute
  <2>2. n \in Nat /\ n < OutCap /\ OutCap \in Nat
    BY <2>0, RequestNumbers
  <2>3. CASE Refusal # 0 \/ pc = "call"
    <3>1. out = InitialOut
      BY <2>0, <2>3 DEF Route, Idle
    <3>2. \A i \in 1 .. OutCap : out[i] = Before(i)
      BY <3>1 DEF InitialOut, Before
    <3>3. DOMAIN out = 1 .. OutCap
      BY <3>1 DEF InitialOut
    <3>4. \A i \in n + 1 .. OutCap : out[i] = Before(i)
      BY <2>2, <3>2
    <3>5. ~ Returned(0) /\ ~ (Returned(-2) /\ kind = "sda")
      <4>1. kind = "sda" => Refusal # -2
        BY DEF Refusal
      <4> QED BY <2>0, <2>3, <4>1 DEF Route, Returned
    <3> QED BY <3>2, <3>3, <3>4, <3>5 DEF BackendInvisible
  <2>4. CASE RunsOriginal /\ pc # "call"
    <3>1. rc = 0 /\ kind = "original"
      BY <2>0, <2>4 DEF Route, RunsOriginal
    <3>2. Returned(0) => HoldsFirst
      BY <1>1, <2>1, <2>4, <3>1 DEF OriginalInv, Returned, HoldsFirst
    <3>3. \A i \in n + 1 .. OutCap : out[i] = Before(i)
      BY <1>1, <2>2, <2>4 DEF OriginalInv
    <3> QED BY <3>1, <3>2, <3>3 DEF BackendInvisible, Returned
  <2>5. CASE RunsWord /\ pc # "call"
    <3>1. /\ rc \in {0, -2} /\ kind = "sda" /\ front = "word_oriented"
          /\ pc = "returned" => WordPc = "done"
      BY <2>0, <2>5 DEF Route, RunsWord, WordPc
    <3>2. Returned(0) => WordSampler!Sampling!HoldsFirst(out, n)
      BY <1>1, <2>5, <3>1, SameWordPromise DEF WordCall!ResultCorrect, WordCall!Finished, Returned
    <3>3. Returned(-2) => WordSampler!Sampling!HoldsFewer(n)
      BY <1>1, <2>5, <3>1, SameWordPromise DEF WordCall!ResultCorrect, WordCall!Finished, Returned
    <3> QED BY <3>1, <3>2, <3>3 DEF BackendInvisible, Returned, HoldsFirst, HoldsFewer
  <2>6. CASE RunsPacked /\ pc # "call"
    <3>1. /\ rc \in {0, -2} /\ kind = "sda" /\ front = "packed_bit" /\ words = <<>>
          /\ pc = "returned" => PackedPc = "done"
      BY <2>0, <2>6 DEF Route, RunsPacked, PackedPc, Request
    <3>2. /\ PackedCall!OutputPrefix /\ done \in 0 .. n
          /\ PackedCall!Finished(0) => done = n
      BY <1>1, <2>6 DEF PackedCall!StoryInv, PackedCall!ShapeInv, PackedCall!TypeOK,
         PackedCall!PhaseInv
    <3>3. Returned(0) => PackedSampler!Sampling!HoldsFirst(out, n)
      BY <3>1, <3>2, SamePackedPromise DEF PackedCall!OutputPrefix, PackedCall!Finished, Returned
    <3>4. Returned(-2) => PackedSampler!Sampling!HoldsFewer(n)
      BY <1>1, <2>6, <3>1, SamePackedPromise DEF PackedCall!Finished, Returned
    <3>5. \A i \in n + 1 .. OutCap : out[i] = Before(i)
      <4>1. \A i \in done + 1 .. (OutCap - 1) + 1 : out[i] = Poison
        BY <3>2 DEF PackedCall!OutputPrefix
      <4>2. \A i \in n + 1 .. OutCap : Before(i) = Poison /\ i \in done + 1 .. (OutCap - 1) + 1
        BY <2>2, <3>1, <3>2 DEF Before
      <4> QED BY <4>1, <4>2
    <3> QED BY <3>1, <3>3, <3>4, <3>5 DEF BackendInvisible, Returned, HoldsFirst, HoldsFewer
  <2> QED BY <2>1, <2>3, <2>4, <2>5, <2>6
<1> QED BY <1>1, DispatchInvariant, OriginalInvariant, WordPromise, PackedPromise, PTL

\* What *fs says after a call describes this call: stale after -1 and -9,
\* cleared after every other refusal and an original sampler, the word
\* sampler's counters, and the packed sampler's counters with a reader that
\* stands exactly where they say.
THEOREM StatisticsDescribe == Spec => []StatisticsDescribeTheCall
<1>1. ASSUME DispatchInv,
             RunsWord => WordCall!TypeOK /\ WordCall!LoopInv /\ WordCall!StatsConserved,
             RunsPacked => /\ PackedCall!StoryInv /\ PackedCall!BitAccounting
                           /\ PackedCall!ReaderInSync
      PROVE  StatisticsDescribeTheCall
  <2> SUFFICES ASSUME pc = "returned" PROVE StatisticsDescribeTheCall
    BY DEF StatisticsDescribeTheCall
  <2>0. Request /\ Route /\ FsInv
    BY <1>1 DEF DispatchInv
  <2>1. /\ Refusal = 0 => RunsOriginal \/ RunsWord \/ RunsPacked
        /\ RunsOriginal => Refusal = 0 /\ ~ RunsWord /\ ~ RunsPacked
        /\ RunsWord => Refusal = 0 /\ ~ RunsPacked /\ args = "good"
        /\ RunsPacked => Refusal = 0
    BY <2>0, OneRoute
  <2>2. Refusal # 0 => rc = Refusal
    BY <2>0 DEF Route
  <2>3. Refusal = 0 => rc \in {0, -2}
    BY <2>0, <2>1 DEF Route
  <2>4. CASE ~ Cleared
    <3>1. ~ wantFs \/ rc \in {-1, -9}
      BY <2>2, <2>3, <2>4 DEF Cleared
    <3> QED BY <2>0, <2>4, <3>1 DEF FsInv, StatisticsDescribeTheCall
  <2>5. CASE Cleared /\ ~ RunsWord /\ ~ RunsPacked
    <3>1. wantFs /\ rc \notin {-1, -9} /\ (Refusal # 0 \/ RunsOriginal)
      BY <2>1, <2>2, <2>3, <2>5 DEF Cleared
    <3>2. st = ZeroStats /\ fsReader = NewReader
      BY <2>0, <2>5, <3>1 DEF FsInv
    <3>3. ~ (kind = "sda" /\ rc \in {0, -2})
      <4>1. CASE Refusal = 0
        BY <2>1, <2>5, <4>1 DEF RunsOriginal
      <4>2. CASE Refusal # 0
        <5>1. kind = "sda" => Refusal # -2
          BY DEF Refusal
        <5> QED BY <2>2, <4>2, <5>1
      <4> QED BY <4>1, <4>2
    <3> QED BY <3>1, <3>2, <3>3 DEF StatisticsDescribeTheCall, Sampled
  <2>6. CASE Cleared /\ RunsWord
    <3>1. /\ wantFs /\ rc \in {0, -2} /\ kind = "sda" /\ front = "word_oriented"
          /\ fsReader = NewReader /\ WordPc = "done" /\ WordSt = st /\ args = "good"
      BY <2>0, <2>1, <2>3, <2>6 DEF FsInv, Cleared, RunsWord, WordPc, WordSt
    <3>2. WordCall!Loop = "with_stats"
      BY <3>1 DEF WordCall!Loop
    <3>3. st.attempts = pos /\ st.rejections + done = st.attempts
      BY <1>1, <2>6, <3>1, <3>2 DEF WordCall!StatsConserved
    <3>4. done \in Nat /\ st.rejections \in Nat
      <4>1. done \in 0 .. n /\ n \in Nat
        BY <1>1, <2>0, <2>6, RequestNumbers DEF WordCall!TypeOK
      <4>2. st \in [attempts : Nat, rejections : Nat, random_bytes : Nat, random_bits : Nat]
        BY <1>1, <2>6, <3>1 DEF WordCall!TypeOK
      <4> QED BY <4>1, <4>2
    <3>5. st.attempts = st.rejections + done
      BY <3>3
    <3> QED BY <3>1, <3>3, <3>5 DEF StatisticsDescribeTheCall, Sampled
  <2>7. CASE Cleared /\ RunsPacked
    <3>1. /\ wantFs /\ rc \in {0, -2} /\ kind = "sda" /\ front = "packed_bit"
          /\ fsReader = reader /\ PackedPc = "done" /\ PackedSt = st
      BY <2>0, <2>3, <2>7 DEF FsInv, Cleared, RunsPacked, PackedPc, PackedSt
    <3>2. PackedCall!Fast
      BY DEF PackedCall!Fast
    <3>3. /\ PackedCall!InSync(reader, stream, len) /\ reader.loaded = reader.pos
      BY <1>1, <2>7, <3>2 DEF PackedCall!ReaderInSync
    <3>4. InSync(reader, stream, len)
      BY <3>3 DEF InSync, PackedCall!InSync, Slice, PackedCall!Slice
    <3>5. PackedCall!Finished(rc)
      BY <3>1 DEF PackedCall!Finished
    <3>6. /\ st.attempts = st.rejections + (done + Len(lane)) + (IF half THEN 1 ELSE 0)
          /\ st.random_bits = reader.consumed
          /\ st.random_bytes = IF rc = 0 THEN reader.loaded ELSE 0
      <4>1. /\ st.attempts = st.rejections + (done + Len(lane)) + (IF half THEN 1 ELSE 0)
            /\ st.random_bits = reader.consumed
            /\ PackedCall!Finished(0) => st.random_bytes = reader.pos
            /\ PackedCall!Finished(-2) => st.random_bytes = 0
        BY <1>1, <2>7, <3>1, <3>2 DEF PackedCall!BitAccounting
      <4>2. CASE rc = 0
        BY <3>3, <3>5, <4>1, <4>2
      <4>3. CASE rc = -2
        BY <3>5, <4>1, <4>3
      <4> QED BY <3>1, <4>1, <4>2, <4>3
    <3>7. /\ Len(from) = done + Len(lane) /\ done \in Nat /\ Len(lane) \in Nat
          /\ st.rejections \in Nat /\ st.attempts \in Nat
      BY <1>1, <2>7, <3>1 DEF PackedCall!StoryInv, PackedCall!ShapeInv, PackedCall!TypeOK,
         PackedCall!HistoryInv
    <3>8. Len(from) + st.rejections = IF half THEN st.attempts - 1 ELSE st.attempts
      BY <3>6, <3>7
    <3>9. Sampled
      BY <3>1 DEF Sampled
    <3> QED BY <3>1, <3>4, <3>6, <3>8, <3>9 DEF StatisticsDescribeTheCall
  <2> QED BY <2>4, <2>5, <2>6, <2>7
<1> QED BY <1>1, DispatchInvariant, WordPromise, PackedPromise, PTL

\* A vector or a tail reported to the AVX2 statistics.
LEMMA CountVectorAdds ==
  ASSUME NEW k \in Nat, CountVector(k), Lanes \in Nat \ {0},
         avx2 \in [api_calls : Nat, batches : Nat, vectorized : Nat, tail : Nat],
         avx2.vectorized = Lanes * avx2.batches,
         avx2.api_calls = avx2.batches + avx2.tail
  PROVE  /\ avx2' \in [api_calls : Nat, batches : Nat, vectorized : Nat, tail : Nat]
         /\ avx2'.vectorized + avx2'.tail = avx2.vectorized + avx2.tail + k
         /\ avx2'.vectorized = Lanes * avx2'.batches
         /\ avx2'.api_calls = avx2'.batches + avx2'.tail
         /\ avx2'.tail = IF k = Lanes THEN avx2.tail ELSE avx2.tail + k
<1> DEFINE b == avx2.batches
<1>0. /\ b \in Nat /\ avx2.vectorized \in Nat /\ avx2.tail \in Nat /\ avx2.api_calls \in Nat
      /\ avx2.vectorized = Lanes * b
  OBVIOUS
<1> DEFINE Counters(a, c, v, u) ==
             [api_calls |-> a, batches |-> c, vectorized |-> v, tail |-> u]
<1>3. \A a, c, v, u \in Nat :
        Counters(a, c, v, u) \in [api_calls : Nat, batches : Nat, vectorized : Nat, tail : Nat]
  OBVIOUS
<1>1. CASE k = Lanes
  <2>1. avx2' = [avx2 EXCEPT !.api_calls = @ + 1, !.batches = @ + 1, !.vectorized = @ + k]
    BY <1>1 DEF CountVector
  <2>2. /\ avx2'.api_calls = avx2.api_calls + 1 /\ avx2'.batches = b + 1
        /\ avx2'.vectorized = avx2.vectorized + k /\ avx2'.tail = avx2.tail
    BY <2>1
  <2>3. Lanes * (b + 1) = Lanes * b + Lanes
    BY <1>0
  <2>4. avx2' \in [api_calls : Nat, batches : Nat, vectorized : Nat, tail : Nat]
    <3>1. avx2' = Counters(avx2.api_calls + 1, b + 1, avx2.vectorized + k, avx2.tail)
      BY <2>1
    <3>2. avx2.api_calls + 1 \in Nat /\ b + 1 \in Nat /\ avx2.vectorized + k \in Nat
      BY <1>0
    <3> HIDE DEF Counters, b
    <3> QED BY <1>0, <1>3, <3>1, <3>2
  <2>5. avx2'.vectorized = Lanes * avx2'.batches
    BY <1>0, <1>1, <2>2, <2>3
  <2> QED BY <1>0, <1>1, <2>2, <2>4, <2>5
<1>2. CASE k # Lanes
  <2>1. avx2' = [avx2 EXCEPT !.api_calls = @ + k, !.tail = @ + k]
    BY <1>2 DEF CountVector
  <2>2. /\ avx2'.api_calls = avx2.api_calls + k /\ avx2'.batches = b
        /\ avx2'.vectorized = avx2.vectorized /\ avx2'.tail = avx2.tail + k
    BY <2>1
  <2>3. avx2' \in [api_calls : Nat, batches : Nat, vectorized : Nat, tail : Nat]
    <3>1. avx2' = Counters(avx2.api_calls + k, b, avx2.vectorized, avx2.tail + k)
      BY <2>1
    <3>2. avx2.api_calls + k \in Nat /\ avx2.tail + k \in Nat
      BY <1>0
    <3> HIDE DEF Counters, b
    <3> QED BY <1>0, <1>3, <3>1, <3>2
  <2> QED BY <1>0, <1>2, <2>2, <2>3
<1> QED BY <1>1, <1>2

\* The AVX2 statistics name exactly the samples vector code produced.
THEOREM VectorWorkIsReported == Spec => []VectorWorkReported
<1>1. Init => VectorWorkReported /\ TailLast
  <2> SUFFICES ASSUME Init PROVE VectorWorkReported /\ TailLast
    OBVIOUS
  <2>1. /\ avx2 = [api_calls |-> 0, batches |-> 0, vectorized |-> 0, tail |-> 0] /\ done = 0
    BY DEF Init
  <2>2. /\ avx2 \in [api_calls : Nat, batches : Nat, vectorized : Nat, tail : Nat]
        /\ avx2.api_calls = 0 /\ avx2.batches = 0 /\ avx2.vectorized = 0 /\ avx2.tail = 0
    BY <2>1
  <2>3. Lanes \in Nat \ {0} /\ Lanes * 0 = 0
    BY DispatchAssumption
  <2> QED BY <2>1, <2>2, <2>3 DEF VectorWorkReported, TailLast, VectorSamples
<1>2. ASSUME DispatchInv, OriginalInv, RunsPacked => PackedCall!StoryInv,
             VectorWorkReported, TailLast, [Next]_vars
      PROVE  VectorWorkReported' /\ TailLast'
  <2>0. UNCHANGED request /\ Request /\ Route
    BY <1>2, StepFrame DEF DispatchInv
  <2>1. /\ n' = n /\ backend' = backend /\ front' = front /\ kind' = kind
        /\ inPlace' = inPlace
        /\ (RunsOriginal' <=> RunsOriginal) /\ (RunsPacked' <=> RunsPacked)
    BY <2>0, RequestFrame DEF request
  <2>2. /\ RunsOriginal => ~ RunsPacked /\ kind = "original" /\ front = "original_word"
        /\ RunsWord => ~ RunsPacked /\ ~ RunsOriginal
    BY <2>0, OneRoute
  <2>3. n \in Nat /\ Lanes \in Nat \ {0}
    BY <2>0, RequestNumbers, DispatchAssumption
  <2>4. /\ avx2 \in [api_calls : Nat, batches : Nat, vectorized : Nat, tail : Nat]
        /\ avx2.vectorized + avx2.tail = VectorSamples
        /\ avx2.vectorized = Lanes * avx2.batches
        /\ avx2.tail < Lanes
        /\ avx2.api_calls = avx2.batches + avx2.tail
        /\ RunsOriginal => avx2.tail = 0 \/ n - done + avx2.tail < Lanes
        /\ RunsPacked => avx2.tail = 0 \/ done = n
    BY <1>2 DEF VectorWorkReported, TailLast
  <2>5. CASE avx2' = avx2 /\ done' = done
    BY <1>2, <2>1, <2>5 DEF VectorWorkReported, TailLast, VectorSamples
  <2>6. CASE ScalarStep
    <3>1. /\ pc = "scalar" /\ avx2' = avx2 /\ done < n /\ done' = done + 1
      BY <2>6 DEF ScalarStep
    <3>2. RunsOriginal /\ ~ VectorPath
      BY <2>0, <3>1, Places
    <3>3. VectorSamples = 0 /\ VectorSamples' = 0
      BY <2>1, <2>2, <3>2 DEF VectorSamples, VectorPath
    <3>4. done \in 0 .. n /\ avx2.tail \in Nat /\ avx2.vectorized \in Nat
      BY <1>2, <2>4, <3>2 DEF OriginalInv
    <3>5. avx2.tail = 0
      BY <2>4, <3>3, <3>4
    <3> QED BY <2>1, <2>2, <2>4, <3>1, <3>2, <3>3, <3>5 DEF VectorWorkReported, TailLast
  <2>7. CASE VectorStep
    <3> DEFINE t == VectorTake
    <3>1. /\ pc = "vector" /\ CountVector(t) /\ done < n /\ done' = done + t
      BY <2>7 DEF VectorStep
    <3>2. RunsOriginal /\ VectorPath
      BY <2>0, <3>1, Places
    <3>3. done \in 0 .. n
      BY <1>2, <3>2 DEF OriginalInv
    <3>4. /\ t \in Nat \ {0} /\ done + t <= n
          /\ t # Lanes => t = 1 /\ n - done < Lanes
      BY <2>0, <3>1, <3>3, VectorTakeBound
    <3> HIDE DEF t
    <3>5. /\ avx2' \in [api_calls : Nat, batches : Nat, vectorized : Nat, tail : Nat]
          /\ avx2'.vectorized + avx2'.tail = avx2.vectorized + avx2.tail + t
          /\ avx2'.vectorized = Lanes * avx2'.batches
          /\ avx2'.api_calls = avx2'.batches + avx2'.tail
          /\ avx2'.tail = IF t = Lanes THEN avx2.tail ELSE avx2.tail + t
      BY <2>3, <2>4, <3>1, <3>4, CountVectorAdds
    <3>6. VectorSamples = done /\ VectorSamples' = done'
      BY <2>1, <2>2, <3>2 DEF VectorSamples, VectorPath
    <3>7. avx2.tail \in Nat /\ avx2'.tail \in Nat
      BY <2>4, <3>5
    <3>8. avx2'.tail = 0 \/ n - done' + avx2'.tail < Lanes
      <4>1. CASE t = Lanes
        <5>1. avx2.tail = 0
          BY <2>3, <2>4, <3>2, <3>3, <3>4, <3>7, <4>1
        <5> QED BY <3>5, <4>1, <5>1
      <4>2. CASE t # Lanes
        <5>1. avx2'.tail = avx2.tail + 1 /\ done' = done + 1 /\ n - done < Lanes
          BY <3>1, <3>4, <3>5, <4>2
        <5>2. n - done + avx2.tail < Lanes
          BY <2>3, <2>4, <3>2, <3>3, <3>7, <5>1
        <5> QED BY <2>3, <3>3, <3>7, <5>1, <5>2
      <4> QED BY <4>1, <4>2
    <3>9. avx2'.tail < Lanes
      BY <2>3, <3>1, <3>3, <3>4, <3>7, <3>8
    <3>10. avx2'.vectorized + avx2'.tail = VectorSamples'
      BY <2>4, <3>1, <3>5, <3>6
    <3> QED BY <2>1, <2>2, <3>2, <3>5, <3>8, <3>9, <3>10 DEF VectorWorkReported, TailLast
  <2>8. CASE WordStep
    <3>1. RunsWord
      BY <2>0, <2>8, Places DEF WordStep
    <3>2. avx2' = avx2 /\ ~ RunsOriginal /\ ~ RunsPacked
      BY <2>2, <2>8, <3>1 DEF WordStep
    <3>3. VectorSamples = 0 /\ VectorSamples' = 0
      BY <2>1, <3>1 DEF VectorSamples, RunsWord
    <3> QED BY <2>1, <2>4, <3>2, <3>3 DEF VectorWorkReported, TailLast
  <2>9. CASE PackedStep
    <3>1. RunsPacked /\ ~ RunsOriginal /\ kind = "sda" /\ front = "packed_bit"
      BY <2>0, <2>2, <2>9, Places DEF PackedStep, RunsPacked
    <3>2. CASE pc = "map"
      <4>1. /\ PackedSampler!MapLanes /\ done' = done + Len(lane)
            /\ IF backend = "avx2" THEN CountVector(Len(lane)) ELSE avx2' = avx2
        BY <2>9, <3>2 DEF PackedStep, PackedSampler!Next, PackedSampler!Start,
           PackedSampler!DrawCandidate, PackedSampler!DrawSign, PackedSampler!MapLanes,
           PackedSampler!Finish
      <4>2. /\ Len(lane) = PackedCall!Batch /\ done < n /\ done \in 0 .. n /\ Len(lane) \in Nat
        <5>1. PackedPc = "map"
          BY <3>2 DEF PackedPc
        <5> QED BY <1>2, <3>1, <5>1 DEF PackedCall!StoryInv, PackedCall!ShapeInv,
            PackedCall!TypeOK, PackedCall!PhaseInv
      <4>3. CASE backend = "avx2"
        <5>1. Len(lane) = IF n - done < Lanes THEN n - done ELSE Lanes
          BY <4>2, <4>3 DEF PackedCall!Batch, PackedCall!Batched
        <5> DEFINE t == Len(lane)
        <5>2. /\ avx2' \in [api_calls : Nat, batches : Nat, vectorized : Nat, tail : Nat]
              /\ avx2'.vectorized + avx2'.tail = avx2.vectorized + avx2.tail + t
              /\ avx2'.vectorized = Lanes * avx2'.batches
              /\ avx2'.api_calls = avx2'.batches + avx2'.tail
              /\ avx2'.tail = IF t = Lanes THEN avx2.tail ELSE avx2.tail + t
          BY <2>3, <2>4, <4>1, <4>2, <4>3, CountVectorAdds
        <5> HIDE DEF t
        <5>3. VectorSamples = done /\ VectorSamples' = done' /\ done' = done + t
          BY <2>1, <3>1, <4>1, <4>3 DEF VectorSamples, t
        <5>4. avx2.tail = 0
          BY <2>3, <2>4, <3>1, <4>2
        <5>5. t \in Nat /\ t = IF n - done < Lanes THEN n - done ELSE Lanes
          BY <4>2, <5>1 DEF t
        <5>6. /\ avx2'.tail < Lanes
              /\ avx2'.tail = 0 \/ done' = n
          BY <2>3, <4>2, <5>2, <5>3, <5>4, <5>5
        <5>7. avx2'.vectorized + avx2'.tail = VectorSamples'
          BY <2>4, <5>2, <5>3
        <5> QED BY <2>1, <3>1, <5>2, <5>6, <5>7 DEF VectorWorkReported, TailLast
      <4>4. CASE backend # "avx2"
        <5>1. VectorSamples = 0 /\ VectorSamples' = 0 /\ avx2' = avx2
          BY <2>1, <4>1, <4>4 DEF VectorSamples
        <5>2. avx2.tail = 0
          BY <2>3, <2>4, <3>1, <4>2
        <5> QED BY <2>1, <2>4, <3>1, <5>1, <5>2 DEF VectorWorkReported, TailLast
      <4> QED BY <4>3, <4>4
    <3>3. CASE pc # "map"
      <4>1. avx2' = avx2 /\ done' = done
        BY <2>9, <3>3 DEF PackedStep, PackedSampler!Next, PackedSampler!Start,
           PackedSampler!DrawCandidate, PackedSampler!DrawSign, PackedSampler!MapLanes,
           PackedSampler!Finish
      <4> QED BY <2>5, <4>1
    <3> QED BY <3>2, <3>3
  <2>10. CASE Call \/ OriginalReturn \/ HandBack \/ UNCHANGED vars
    BY <2>5, <2>10 DEF Call, OriginalReturn, HandBack, vars
  <2> QED BY <1>2, <2>6, <2>7, <2>8, <2>9, <2>10 DEF Next
<1> QED BY <1>1, <1>2, DispatchInvariant, OriginalInvariant, PackedPromise, PTL DEF Spec
=============================================================================
