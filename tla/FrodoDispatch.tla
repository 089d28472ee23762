--------------------------- MODULE FrodoDispatch ---------------------------
(***************************************************************************)
(* frodo_sample_n_dispatch, the one entry point over every Frodo sampler:  *)
(* it checks the call, picks a sampler by kind, frontend and backend, runs *)
(* it and hands the statistics back.  The word-oriented and packed-bit     *)
(* samplers are the modules FrodoWordSampler and PackedSampler, run over   *)
(* this module's variables; the original samplers are modelled here.       *)
(*                                                                         *)
(* The two original loops are not the same code: the scalar one reads the  *)
(* source and compares with every stored threshold, the vector one works   *)
(* in place on the output and stops before the terminal threshold.         *)
(***************************************************************************)
EXTENDS WordProfile, BitReader

CONSTANTS
  DrawBits, Lanes, InputWords, Poison,  \* as in the samplers
  MaxWords, MaxBytes, MaxN, OutCap      \* bounds, as in the samplers

\* threshold_count is one less than the stored thresholds of an original
\* table, whose terminal entry is the largest 15-bit value; and the constants
\* are as both samplers want them.
ASSUME DispatchAssumption ==
  /\ OrigThresholds # <<>> /\ WordMod % 2 = 0
  /\ OrigThresholds[Len(OrigThresholds)] = WordMod \div 2 - 1
  /\ DrawBits \in Nat \ {0} /\ CandMod = 2 ^ DrawBits
  /\ DrawBits + ByteBits - 1 <= ByteBits * RefillBytes
  /\ Lanes \in Nat \ {0}
  /\ InputWords \subseteq Word /\ Poison \in Word
  /\ MaxWords \in Nat /\ MaxBytes \in Nat /\ MaxN \in Nat
  /\ OutCap \in Nat /\ OutCap > MaxN /\ OutCap >= MaxWords

VARIABLES
  kind, backend, front,   \* sampler kind, backend, frontend
  cpu,                    \* sdat_avx2_cpu_supported()
  args,                   \* the output pointer and the parameter id
  wantFs,                 \* fs # NULL
  n,
  haveWords, words,       \* word_source and its words
  inPlace,                \* out == word_source
  havePacked, len, stream,\* packed_source and its bytes
  out, done,              \* output buffer, samples stored
  pos, from,              \* words or draws used; history: the accepted ones
  reader, lane, cand, half, \* the packed sampler's locals
  st, fsReader,           \* fs->stats, fs->reader
  avx2,                   \* the static AVX2 statistics
  pc, rc

request == <<kind, backend, front, cpu, args, wantFs, n, haveWords, words,
             inPlace, havePacked, len, stream>>
locals == <<reader, lane, cand, half>>
vars == <<request, out, done, pos, from, locals, st, fsReader, avx2, pc, rc>>

ZeroStats == [attempts |-> 0, rejections |-> 0, random_bytes |-> 0, random_bits |-> 0]
StaleStats == [attempts |-> 99, rejections |-> 99, random_bytes |-> 99, random_bits |-> 99]
StaleReader == [NewReader EXCEPT !.consumed = 99]

WordSampler == INSTANCE FrodoWordSampler WITH
  api <- "sample_n", wantStats <- wantFs, known <- args = "good",
  input <- words, a <- done, p <- pos

PackedSampler == INSTANCE PackedSampler WITH
  frontend <- IF backend = "avx2" THEN "fast_batch" ELSE "fast_scalar",
  wantStats <- wantFs, MaxN <- OutCap - 1

Init ==
  /\ kind \in {"original", "sda", "other"}
  /\ backend \in {"reference", "avx2", "other"}
  /\ front \in {"original_word", "packed_bit", "word_oriented", "other"}
  /\ cpu \in (IF backend = "avx2" THEN BOOLEAN ELSE {TRUE})
  /\ args \in {"good", "bad_param", "no_output"}
  /\ wantFs \in BOOLEAN
  /\ n \in 0 .. MaxN
  /\ haveWords \in BOOLEAN /\ havePacked \in BOOLEAN
  /\ words \in (IF haveWords /\ front # "packed_bit"
                THEN UNION {[1 .. k -> InputWords] : k \in 0 .. MaxWords} ELSE {<<>>})
  /\ inPlace \in (IF haveWords /\ args # "no_output" THEN BOOLEAN ELSE {FALSE})
  /\ len \in (IF havePacked /\ front = "packed_bit" THEN 0 .. MaxBytes ELSE {0})
  /\ stream \in 0 .. 2 ^ (ByteBits * len) - 1
  /\ out = [i \in 1 .. OutCap |->
              IF inPlace /\ i <= Len(words) THEN words[i] ELSE Poison]
  /\ done = 0 /\ pos = 0 /\ from = <<>>
  /\ reader = NewReader /\ lane = <<>> /\ cand = 0 /\ half = FALSE
  /\ st = StaleStats /\ fsReader = StaleReader
  /\ avx2 = [api_calls |-> 0, batches |-> 0, vectorized |-> 0, tail |-> 0]
  /\ pc = "call" /\ rc = 0

\* frodo_backend_available.
Available == backend = "reference" \/ (backend = "avx2" /\ cpu)

\* frodo_get_sampler_params returns NULL for an unknown parameter id.
Refusal ==
  IF args # "good" THEN -1
  ELSE IF ~ Available THEN -9
  ELSE IF kind = "original"
       THEN IF front # "original_word" \/ ~ haveWords \/ Len(words) < n THEN -2 ELSE 0
  ELSE IF kind # "sda" THEN -3
  ELSE IF front = "packed_bit" THEN IF havePacked THEN 0 ELSE -4
  ELSE IF front = "word_oriented" THEN IF haveWords THEN 0 ELSE -5
  ELSE -6

\* Mutant: the vector sampler serves every AVX2 request, also when the output
\* is not the source it would work on.
VectorPathAlways == backend = "avx2"

\* The vector original sampler has no source of its own.
VectorPath == backend = "avx2" /\ inPlace

\* The checks, *fs = {0} and the choice of a sampler.
Call ==
  /\ pc = "call"
  /\ rc' = Refusal
  /\ IF wantFs /\ Refusal \notin {-1, -9}
     THEN st' = ZeroStats /\ fsReader' = NewReader
     ELSE UNCHANGED <<st, fsReader>>
  /\ pc' = IF Refusal # 0 THEN "done"
           ELSE IF kind = "original" THEN IF VectorPath THEN "vector" ELSE "scalar"
           ELSE IF front = "packed_bit" THEN "start" ELSE "dispatch"
  /\ UNCHANGED <<request, out, done, pos, from, locals, avx2>>

\* frodo_original_sample_n_from_words: one turn of its loop.
ScalarStep ==
  /\ pc = "scalar" /\ done < n
  /\ out' = [out EXCEPT ![done + 1] =
               OrigMap(IF inPlace THEN out[done + 1] ELSE words[done + 1])]
  /\ done' = done + 1
  /\ UNCHANGED <<request, pos, from, locals, st, fsReader, avx2, pc, rc>>

\* The count of the vector sampler: tn thresholds, without the terminal one.
VectorGt(c) == Cardinality({i \in 1 .. Len(OrigThresholds) - 1 : c > OrigThresholds[i]})
VectorMap(z) == ApplySign(VectorGt(OrigValue(z)), OrigSign(z))

\* A vector while one fits, then single samples.
VectorTake == IF done + Lanes <= n THEN Lanes ELSE 1

\* Mutant: a tail sample is reported as a vector of its own.
CountVectorBatched(k) ==
  avx2' = [avx2 EXCEPT !.api_calls = @ + 1, !.batches = @ + 1, !.vectorized = @ + k]

\* online_avx2_stats_add: one call per vector and one per tail sample.
CountVector(k) ==
  avx2' = IF k = Lanes
          THEN [avx2 EXCEPT !.api_calls = @ + 1, !.batches = @ + 1, !.vectorized = @ + k]
          ELSE [avx2 EXCEPT !.api_calls = @ + k, !.tail = @ + k]

\* frodo_original_sample_n_avx2: one turn of either of its loops.
VectorStep ==
  /\ pc = "vector" /\ done < n
  /\ out' = [i \in DOMAIN out |->
               IF i \in done + 1 .. done + VectorTake THEN VectorMap(out[i]) ELSE out[i]]
  /\ done' = done + VectorTake
  /\ CountVector(VectorTake)
  /\ UNCHANGED <<request, pos, from, locals, st, fsReader, pc, rc>>

OriginalReturn ==
  /\ pc \in {"scalar", "vector"} /\ done = n
  /\ pc' = "done"
  /\ UNCHANGED <<request, out, done, pos, from, locals, st, fsReader, avx2, rc>>

\* frodo_sda_word_sample_n; its AVX2 entry point calls the same function.
WordStep ==
  /\ pc \in {"dispatch", "loop"}
  /\ UNCHANGED <<request, locals, fsReader, avx2>>
  /\ WordSampler!Next

\* frodo_sda_sample_n_fast or frodo_sda_sample_n_fast_avx2, whose lookup16 or
\* lookup8 reports to the AVX2 statistics.
PackedStep ==
  /\ pc \in {"start", "draw", "sign", "map"}
  /\ UNCHANGED <<request, fsReader>>
  /\ PackedSampler!Next
  /\ IF pc = "map" /\ backend = "avx2" THEN CountVector(Len(lane)) ELSE avx2' = avx2

\* Mutant: the reader is handed back by successful calls only.
HandBackOnSuccess ==
  /\ pc = "done"
  /\ fsReader' = IF wantFs /\ rc = 0 /\ kind = "sda" /\ front = "packed_bit"
                 THEN reader ELSE fsReader
  /\ pc' = "returned"
  /\ UNCHANGED <<request, out, done, pos, from, locals, st, avx2, rc>>

\* A packed sampler ran: what follows its call is reached whatever it returned.
Sampled == kind = "sda" /\ front = "packed_bit" /\ rc \in {0, -2}

\* Back in the dispatcher: fs->reader = br.
HandBack ==
  /\ pc = "done"
  /\ fsReader' = IF wantFs /\ Sampled THEN reader ELSE fsReader
  /\ pc' = "returned"
  /\ UNCHANGED <<request, out, done, pos, from, locals, st, avx2, rc>>

Next == Call \/ ScalarStep \/ VectorStep \/ OriginalReturn \/ WordStep
        \/ PackedStep \/ HandBack

Spec == Init /\ [][Next]_vars

-----------------------------------------------------------------------------
(* Safety *)

Returned(code) == pc = "returned" /\ rc = code

\* What a kind and a frontend promise from the sources as they were passed,
\* and what a shortage of them is.
HoldsFirst ==
  IF kind = "original"
  THEN Len(words) >= n /\ \A i \in 1 .. n : out[i] = OrigMap(words[i])
  ELSE IF front = "packed_bit" THEN PackedSampler!Sampling!HoldsFirst(out, n)
  ELSE WordSampler!Sampling!HoldsFirst(out, n)

HoldsFewer ==
  IF front = "packed_bit" THEN PackedSampler!Sampling!HoldsFewer(n)
  ELSE WordSampler!Sampling!HoldsFewer(n)

Before(i) == IF inPlace /\ i <= Len(words) THEN words[i] ELSE Poison

\* The samples depend on kind, frontend, parameter set and source only: never
\* on the backend, on statistics being wanted, or on the output being the
\* source.  -2 from a sampler is a real shortage, a refused call writes nothing
\* and no call but the word samplers' touches a cell past the request.
BackendInvisible ==
  /\ Returned(0) => HoldsFirst
  /\ Returned(-2) /\ kind = "sda" => HoldsFewer
  /\ pc = "returned" /\ rc # 0 /\ ~ (kind = "sda" /\ rc = -2)
       => \A i \in DOMAIN out : out[i] = Before(i)
  /\ ~ (kind = "sda" /\ front = "word_oriented")
       => \A i \in n + 1 .. OutCap : out[i] = Before(i)

\* What *fs says after the call describes this call and no earlier one, on
\* every path: a call refused with -1 or -9 leaves the caller's old
\* statistics, every other refusal and the original samplers leave cleared
\* ones, and after a packed sampler the reader, handed back on success and
\* failure alike, stands exactly where the counters say, random_bytes
\* excepted: it is reported by success only.
StatisticsDescribeTheCall ==
  pc = "returned" =>
    IF ~ wantFs \/ rc \in {-1, -9} THEN st = StaleStats /\ fsReader = StaleReader
    ELSE IF Sampled
    THEN /\ st.random_bits = fsReader.consumed
         /\ InSync(fsReader, stream, len)
         /\ st.random_bytes = IF rc = 0 THEN fsReader.loaded ELSE 0
         /\ Len(from) + st.rejections = IF half THEN st.attempts - 1 ELSE st.attempts
    ELSE /\ fsReader = NewReader
         /\ IF kind = "sda" /\ rc \in {0, -2}
            THEN st.attempts = pos /\ st.attempts = st.rejections + done
            ELSE st = ZeroStats

\* The AVX2 statistics name exactly the samples vector code produced: all of a
\* packed AVX2 call and of an in-place original one, none of the calls that
\* ask for AVX2 and are served by the reference code (original samplers out
\* of place, word-oriented frontend).
VectorSamples ==
  IF backend = "avx2" /\ (front = "packed_bit" \/ (kind = "original" /\ inPlace))
  THEN done ELSE 0

VectorWorkReported ==
  /\ avx2.vectorized + avx2.tail = VectorSamples
  /\ avx2.vectorized = Lanes * avx2.batches
  /\ avx2.tail < Lanes
  /\ avx2.api_calls = avx2.batches + avx2.tail
=============================================================================
