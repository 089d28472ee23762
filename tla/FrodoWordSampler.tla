-------------------------- MODULE FrodoWordSampler --------------------------
(***************************************************************************)
(* The fused word-oriented SDA samplers of online/frodo: one call of       *)
(* frodo_sda_word_sample_n or frodo_sda_word_sample_n_accept_before_map,   *)
(* which turns up to wc source words into n signed samples.                *)
(*                                                                         *)
(* Three loops exist for one promise:                                      *)
(*   branchless        writes every word's sample to *dst and advances dst *)
(*                     by the acceptance bit (st == NULL);                 *)
(*   with_stats        retries inside frodoXXX_word_next and counts;       *)
(*   accept_before_map branches on acceptance before it maps.              *)
(* The output may be the source buffer itself (no parameter is restrict):  *)
(* then the sampler overwrites the words it reads from.                    *)
(***************************************************************************)
EXTENDS WordProfile

CONSTANTS
  DrawBits,    \* bits of a candidate, CandMod = 2^DrawBits
  InputWords,  \* source words enumerated
  Poison,      \* what the output buffer holds before the call
  MaxWords,    \* bound: longest source
  MaxN,        \* bound: most samples requested
  OutCap       \* cells of the output buffer, more than a call may use

ASSUME SamplerAssumption ==
  /\ DrawBits \in Nat
  /\ CandMod = 2 ^ DrawBits
  /\ InputWords \subseteq Word
  /\ Poison \in Word
  /\ MaxWords \in Nat /\ MaxN \in Nat
  /\ OutCap \in Nat /\ OutCap > MaxN /\ OutCap >= MaxWords

VARIABLES
  api,       \* entry point called
  wantStats, \* st # NULL
  known,     \* the table pointer is one of the three SDA tables
  inPlace,   \* out == w
  n,         \* samples requested
  input,     \* the source words as passed
  out,       \* the output buffer (and the source buffer when inPlace)
  a,         \* dst - out: samples accepted
  p,         \* src - w: words consumed
  st,        \* *st
  from,      \* history: source position of each accepted sample
  pc, rc

call == <<api, wantStats, known, inPlace, n, input>>
vars == <<api, wantStats, known, inPlace, n, input, out, a, p, st, from, pc, rc>>

Loop ==
  IF api = "accept_before_map" THEN "accept_before_map"
  ELSE IF wantStats THEN "with_stats" ELSE "branchless"

ZeroStats == [attempts |-> 0, rejections |-> 0, random_bytes |-> 0, random_bits |-> 0]
\* What the caller left in *st; a loop without statistics never touches it.
StaleStats == [attempts |-> 99, rejections |-> 99, random_bytes |-> 99, random_bits |-> 99]

\* *src: in place, the source is whatever the output buffer now holds.
ReadWord == IF inPlace THEN out[p + 1] ELSE input[p + 1]

Init ==
  /\ api \in {"sample_n", "accept_before_map"}
  /\ wantStats \in (IF api = "sample_n" THEN BOOLEAN ELSE {FALSE})
  /\ known \in BOOLEAN
  /\ inPlace \in BOOLEAN
  /\ n \in 0 .. MaxN
  /\ input \in UNION {[1 .. k -> InputWords] : k \in 0 .. MaxWords}
  /\ out = [i \in 1 .. OutCap |->
              IF inPlace /\ i <= Len(input) THEN input[i] ELSE Poison]
  /\ a = 0 /\ p = 0
  /\ st = StaleStats
  /\ from = <<>>
  /\ pc = "dispatch" /\ rc = 0

\* Dispatch on the table pointer; only the loop with statistics clears them.
Dispatch ==
  /\ pc = "dispatch"
  /\ IF known THEN pc' = "loop" /\ rc' = rc ELSE pc' = "done" /\ rc' = -1
  /\ st' = IF known /\ Loop = "with_stats" THEN ZeroStats ELSE st
  /\ UNCHANGED <<call, out, a, p, from>>

\* Mutant: the loop ends with the source only, whatever dst has reached.
LoopingUnbounded(loop) == pc = "loop" /\ Loop = loop /\ p < Len(input)

Looping(loop) == pc = "loop" /\ Loop = loop /\ a < n /\ p < Len(input)

Accepted(z) ==
  IF Accepts(z) THEN a' = a + 1 /\ from' = Append(from, p + 1)
                ELSE a' = a /\ from' = from

\* Mutant: the sample is written past the slot the words still have to fill.
BranchlessStepAhead ==
  /\ Looping("branchless")
  /\ LET z == ReadWord IN
       /\ out' = [out EXCEPT ![a + 2] = Map(z)]
       /\ Accepted(z)
  /\ p' = p + 1
  /\ UNCHANGED <<call, st, pc, rc>>

\* Mutant: an accepted word advances dst only, so it serves again.
BranchlessStepReuse ==
  /\ Looping("branchless")
  /\ LET z == ReadWord IN
       /\ out' = [out EXCEPT ![a + 1] = Map(z)]
       /\ Accepted(z)
       /\ p' = IF Accepts(z) THEN p ELSE p + 1
  /\ UNCHANGED <<call, st, pc, rc>>

\* One turn of frodoXXX_sda_word_no_stats: write first, advance by acceptance.
BranchlessStep ==
  /\ Looping("branchless")
  /\ LET z == ReadWord IN
       /\ out' = [out EXCEPT ![a + 1] = Map(z)]
       /\ Accepted(z)
  /\ p' = p + 1
  /\ UNCHANGED <<call, st, pc, rc>>

\* One turn of frodoXXX_sda_word_accept_before_map.
AcceptFirstStep ==
  /\ Looping("accept_before_map")
  /\ LET z == ReadWord IN
       /\ out' = IF Accepts(z) THEN [out EXCEPT ![a + 1] = Map(z)] ELSE out
       /\ Accepted(z)
  /\ p' = p + 1
  /\ UNCHANGED <<call, st, pc, rc>>

\* Mutant: the sign bit is charged for rejected words too.
CountWordEager(z) ==
  st' = [attempts     |-> st.attempts + 1,
         rejections   |-> st.rejections + (IF Accepts(z) THEN 0 ELSE 1),
         random_bytes |-> 2 * (p + 1),
         random_bits  |-> st.random_bits + DrawBits + 1]

\* The counters of frodoXXX_word_next: the sign bit is charged only when used.
CountWord(z) ==
  st' = [attempts     |-> st.attempts + 1,
         rejections   |-> st.rejections + (IF Accepts(z) THEN 0 ELSE 1),
         random_bytes |-> 2 * (p + 1),
         random_bits  |-> st.random_bits + DrawBits + (IF Accepts(z) THEN 1 ELSE 0)]

\* One turn of frodoXXX_word_next and the store of wordXXX_with_stats.
StatsStep ==
  /\ Looping("with_stats")
  /\ LET z == ReadWord IN
       /\ out' = IF Accepts(z) THEN [out EXCEPT ![a + 1] = Map(z)] ELSE out
       /\ Accepted(z)
       /\ CountWord(z)
  /\ p' = p + 1
  /\ UNCHANGED <<call, pc, rc>>

\* Mutant: the exhausted source is noticed one word early.
ReturnEarly ==
  /\ pc = "loop"
  /\ a = n \/ p + 1 >= Len(input)
  /\ pc' = "done"
  /\ rc' = IF a = n THEN 0 ELSE -2
  /\ UNCHANGED <<call, out, a, p, st, from>>

Return ==
  /\ pc = "loop"
  /\ a = n \/ p = Len(input)
  /\ pc' = "done"
  /\ rc' = IF a = n THEN 0 ELSE -2
  /\ UNCHANGED <<call, out, a, p, st, from>>

Next == Dispatch \/ BranchlessStep \/ AcceptFirstStep \/ StatsStep \/ Return

Spec == Init /\ [][Next]_vars

-----------------------------------------------------------------------------
TypeOK ==
  /\ api \in {"sample_n", "accept_before_map"}
  /\ wantStats \in BOOLEAN /\ known \in BOOLEAN /\ inPlace \in BOOLEAN
  /\ n \in 0 .. MaxN
  /\ input \in Seq(Word) /\ Len(input) <= MaxWords
  /\ out \in [1 .. OutCap -> Word]
  /\ a \in 0 .. n
  /\ p \in 0 .. Len(input)
  /\ st \in [attempts : Nat, rejections : Nat, random_bytes : Nat, random_bits : Nat]
  /\ from \in Seq(1 .. Len(input))
  /\ pc \in {"dispatch", "loop", "done"}
  /\ rc \in {0, -1, -2}

-----------------------------------------------------------------------------
(* Refinement: all three loops implement bounded rejection sampling. *)

Finished(code) == pc = "done" /\ rc = code

Status ==
  IF Finished(0) THEN "ok" ELSE IF Finished(-2) THEN "exhausted" ELSE "sampling"

Sampling == INSTANCE RejectionSampling WITH
  Draw <- Word, Accept <- Accepts, Image <- Map,
  draws <- input, pos <- p, status <- Status,
  result <- IF Finished(0) THEN [i \in 1 .. n |-> out[i]] ELSE <<>>

\* Each word read is one Consume, and a return is Finish or Exhaust.
Implements == Sampling!Spec

-----------------------------------------------------------------------------
(* Safety *)

\* Whatever loop ran, in place or not, success leaves in out[1..n] exactly the
\* images of the first n accepted words of the source as it was passed
\* (word640/976/1344 and the accept_before_map variants agree), and -2 is
\* returned only when the whole source, all of it read, holds fewer.
ResultCorrect ==
  /\ Finished(0) => Sampling!HoldsFirst(out, n)
  /\ Finished(-2) => Sampling!HoldsFewer(n) /\ p = Len(input)

\* Cell i before the call, and the cells past dst a loop may have dirtied.
Before(i) == IF inPlace /\ i <= Len(input) THEN input[i] ELSE Poison
Slack == IF Loop = "branchless" THEN 1 ELSE 0

\* Only cells out[1..n] are ever written; a rejected word can leave its sample
\* behind in one cell at most, the next one, and only in the branchless loop.
WriteFootprint ==
  \A i \in 1 .. OutCap : out[i] # Before(i) => i <= n /\ i <= a + Slack

\* In place, no word is overwritten before it has been read: dst never
\* overtakes src.
UnreadIntact ==
  inPlace => \A k \in (p + 1) .. Len(input) : out[k] = input[k]

\* The counters conserve what was drawn, on success and on failure: every word
\* read is an attempt, every attempt is accepted or rejected, and the bits of
\* the words split into candidate bits, used sign bits and the rest.
StatsConserved ==
  IF pc # "dispatch" /\ known /\ Loop = "with_stats"
  THEN /\ st.attempts = p
       /\ st.rejections + a = st.attempts
       /\ st.random_bytes = 2 * p
       /\ st.random_bits = DrawBits * p + a
  ELSE st = StaleStats

\* The inductive invariant behind these properties: dst never overtakes src,
\* the unread words are intact even in place, and cell i holds the image of
\* the word the history names.
LoopInv ==
  /\ Len(from) = a
  /\ a <= p
  /\ UnreadIntact
  /\ \A i \in 1 .. a : out[i] = Map(input[from[i]])
  /\ pc = "dispatch" => a = 0 /\ p = 0
  /\ pc = "loop" => known
  /\ Finished(0) => a = n
  /\ Finished(-2) => a < n /\ p = Len(input)
=============================================================================
