---------------------- MODULE FrodoWordSampler_proofs ----------------------
(***************************************************************************)
(* Proofs about the fused word samplers, for every parameter set, source   *)
(* and request: type correctness, the inductive invariant of the three     *)
(* loops, and that each implements bounded rejection sampling.             *)
(***************************************************************************)
EXTENDS FrodoWordSampler, TLAPS

\* What holds of every implementation of bounded rejection sampling, under the
\* substitution of this one.
Promise == INSTANCE RejectionSampling_proofs WITH
  Draw <- Word, Accept <- Accepts, Image <- Map,
  draws <- input, pos <- p, status <- Status,
  result <- IF Finished(0) THEN [i \in 1 .. n |-> out[i]] ELSE <<>>

\* A mapped sample is again a word: the threshold count stays below WordMod and
\* the sign conversion wraps modulo WordMod.
LEMMA MapType == \A z : Map(z) \in Word
<1> SUFFICES ASSUME NEW c, NEW s PROVE MapParts(c, s) \in Word
  BY DEF Map
<1>1. /\ WordMod \in Nat \ {0}
      /\ Len(Thresholds) \in Nat /\ Len(Thresholds) < WordMod
      /\ DOMAIN Thresholds = 1 .. Len(Thresholds)
  BY ProfileAssumption
<1>2. Ge(c) \in 0 .. Len(Thresholds)
  <2> DEFINE S == {i \in DOMAIN Thresholds : c >= Thresholds[i]}
  <2>1. S \subseteq 1 .. Len(Thresholds)
    BY <1>1
  <2> HIDE DEF S
  <2>2. Cardinality(S) \in 0 .. Len(Thresholds)
    BY <1>1, <2>1, Promise!CountBound DEF Cardinality, Promise!Cardinality
  <2> QED BY <2>2 DEF S, Ge
<1>3. ((WordMod - 1 - Ge(c)) + 1) \in Nat /\ Ge(c) \in Word
  BY <1>1, <1>2 DEF Word
<1>4. ((WordMod - 1 - Ge(c)) + 1) % WordMod \in 0 .. WordMod - 1
  BY <1>1, <1>3
<1> QED BY <1>3, <1>4 DEF MapParts, ApplySign, Word

(***************************************************************************)
(* Type correctness.                                                       *)
(***************************************************************************)
Step == BranchlessStep \/ AcceptFirstStep \/ StatsStep

\* What a turn of any of the three loops has in common.
LEMMA StepCommon ==
  ASSUME TypeOK, Step
  PROVE  /\ pc = "loop" /\ a < n /\ p < Len(input)
         /\ p' = p + 1
         /\ Accepted(ReadWord)
         /\ \/ out' = out /\ ~ Accepts(ReadWord)
            \/ out' = [out EXCEPT ![a + 1] = Map(ReadWord)]
         /\ UNCHANGED <<call, pc, rc>>
BY DEF Step, BranchlessStep, AcceptFirstStep, StatsStep, Looping

LEMMA StepTypeOK == TypeOK /\ Step => TypeOK'
<1> SUFFICES ASSUME TypeOK, Step PROVE TypeOK'
  OBVIOUS
<1>1. /\ a < n /\ p < Len(input) /\ p' = p + 1 /\ Accepted(ReadWord)
      /\ UNCHANGED <<call, pc, rc>>
  BY StepCommon
<1>2. /\ a \in Nat /\ n \in Nat /\ p \in Nat /\ Len(input) \in Nat /\ OutCap \in Nat
      /\ a' \in 0 .. n' /\ p' \in 0 .. Len(input')
  BY <1>1, SamplerAssumption DEF TypeOK, Accepted, call
<1>3. from' \in Seq(1 .. Len(input'))
  <2> DEFINE S == 1 .. Len(input)
  <2>1. from \in Seq(S) /\ p + 1 \in S
    BY <1>1, <1>2 DEF TypeOK
  <2>2. from' = from \/ from' = Append(from, p + 1)
    BY <1>1 DEF Accepted
  <2> HIDE DEF S
  <2>3. from' \in Seq(S)
    BY <2>1, <2>2
  <2> QED BY <1>1, <2>3 DEF S, call
<1>4. out' \in [1 .. OutCap -> Word]
  <2>1. out' = out \/ out' = [out EXCEPT ![a + 1] = Map(ReadWord)]
    BY StepCommon
  <2> QED BY <2>1, MapType DEF TypeOK
<1>5. st' \in [attempts : Nat, rejections : Nat, random_bytes : Nat, random_bits : Nat]
  <2>1. CASE BranchlessStep \/ AcceptFirstStep
    BY <2>1 DEF BranchlessStep, AcceptFirstStep, TypeOK
  <2>2. CASE StatsStep
    <3>1. CountWord(ReadWord)
      BY <2>2 DEF StatsStep
    <3>2. DrawBits \in Nat
      BY SamplerAssumption
    <3>3. st.attempts \in Nat /\ st.rejections \in Nat /\ st.random_bits \in Nat
      BY DEF TypeOK
    <3>4. st.attempts + 1 \in Nat /\ 2 * (p + 1) \in Nat
      BY <1>2, <3>3
    <3>5. st.rejections + 0 \in Nat /\ st.rejections + 1 \in Nat
      BY <3>3
    <3>6. /\ st.random_bits + DrawBits + 0 \in Nat
          /\ st.random_bits + DrawBits + 1 \in Nat
      BY <3>2, <3>3
    <3> QED BY <3>1, <3>4, <3>5, <3>6, Zenon DEF CountWord
  <2> QED BY <2>1, <2>2 DEF Step
<1> QED BY <1>1, <1>2, <1>3, <1>4, <1>5 DEF TypeOK, call

\* Every variable keeps its type: a and p stay inside the request and the
\* source, and every cell of the buffer holds a word.
THEOREM TypeCorrect == Spec => []TypeOK
<1>1. Init => TypeOK
  <2> SUFFICES ASSUME Init PROVE TypeOK
    OBVIOUS
  <2>1. MaxWords \in Nat /\ OutCap \in Nat /\ InputWords \subseteq Word /\ Poison \in Word
    BY SamplerAssumption
  <2>2. PICK k \in 0 .. MaxWords : input \in [1 .. k -> InputWords]
    BY DEF Init
  <2>3. k \in Nat /\ k <= MaxWords /\ input \in [1 .. k -> Word]
    BY <2>1, <2>2
  <2>4. input \in Seq(Word) /\ Len(input) = k
    BY <2>3
  <2>5. out \in [1 .. OutCap -> Word]
    BY <2>1, <2>3, <2>4 DEF Init
  <2>6. st \in [attempts : Nat, rejections : Nat, random_bytes : Nat, random_bits : Nat]
    BY DEF Init, StaleStats
  <2>7. from \in Seq(1 .. Len(input))
    BY DEF Init
  <2>8. wantStats \in BOOLEAN
    BY DEF Init
  <2>9. MaxN \in Nat /\ n \in Nat /\ a \in 0 .. n /\ p \in 0 .. Len(input)
    BY <2>3, <2>4, SamplerAssumption DEF Init
  <2> QED BY <2>3, <2>4, <2>5, <2>6, <2>7, <2>8, <2>9 DEF Init, TypeOK
<1>2. TypeOK /\ [Next]_vars => TypeOK'
  <2> SUFFICES ASSUME TypeOK, [Next]_vars PROVE TypeOK'
    OBVIOUS
  <2>1. CASE Dispatch
    BY <2>1 DEF Dispatch, TypeOK, ZeroStats, call
  <2>2. CASE Step
    BY <2>2, StepTypeOK
  <2>3. CASE Return
    BY <2>3 DEF Return, TypeOK, call
  <2>4. CASE UNCHANGED vars
    BY <2>4 DEF vars, TypeOK
  <2> QED BY <2>1, <2>2, <2>3, <2>4 DEF Next, Step
<1> QED BY <1>1, <1>2, PTL DEF Spec

(***************************************************************************)
(* The loop invariant.  dst never overtakes src, so the words not yet read *)
(* are intact even when the output buffer is the source; the accepted      *)
(* samples are the images of the words the history names.                  *)
(***************************************************************************)

\* The word a turn reads is the word the caller passed, in place or not.
LEMMA ReadIsInput ==
  ASSUME TypeOK, LoopInv, p < Len(input)
  PROVE  ReadWord = input[p + 1]
<1>1. p + 1 \in (p + 1) .. Len(input)
  BY DEF TypeOK
<1> QED BY <1>1 DEF LoopInv, UnreadIntact, ReadWord, TypeOK

LEMMA StepLoopInv ==
  ASSUME TypeOK, LoopInv, Step
  PROVE  LoopInv'
<1> DEFINE z == ReadWord
<1>1. /\ pc = "loop" /\ a < n /\ p < Len(input) /\ p' = p + 1
      /\ UNCHANGED <<known, inPlace, n, input, pc, rc>> /\ known
      /\ z = input[p + 1]
  BY StepCommon, ReadIsInput DEF call, LoopInv
<1>2. /\ a \in Nat /\ n \in Nat /\ p \in Nat /\ a <= p
      /\ Len(input) \in Nat /\ OutCap \in Nat
      /\ a + 1 \in 1 .. OutCap /\ out \in [1 .. OutCap -> Word]
      /\ Len(input) <= OutCap
      /\ from \in Seq(1 .. Len(input)) /\ Len(from) = a
  BY <1>1, SamplerAssumption DEF TypeOK, LoopInv
<1>3. \A i \in 1 .. OutCap : i # a + 1 => out'[i] = out[i]
  BY <1>2, StepCommon
<1>4. Len(from') = a' /\ a' <= p' /\ a' \in {a, a + 1}
  BY <1>1, <1>2, StepCommon DEF Accepted
<1>5. UnreadIntact'
  BY <1>1, <1>2, <1>3 DEF LoopInv, UnreadIntact
<1>6. \A i \in 1 .. a' : out'[i] = Map(input'[from'[i]])
  <2>1. \A i \in 1 .. a : out'[i] = out[i] /\ out[i] = Map(input[from[i]])
    BY <1>2, <1>3 DEF LoopInv
  <2>2. CASE ~ Accepts(z)
    <3>1. a' = a /\ from' = from
      BY <2>2, StepCommon DEF Accepted
    <3> QED BY <1>1, <2>1, <3>1
  <2>3. CASE Accepts(z)
    <3>1. a' = a + 1 /\ from' = Append(from, p + 1)
      BY <2>3, StepCommon DEF Accepted
    <3>2. /\ \A i \in 1 .. a : from'[i] = from[i]
          /\ from'[a + 1] = p + 1
      BY <1>2, <3>1
    <3>3. out' = [out EXCEPT ![a + 1] = Map(z)]
      BY <2>3, StepCommon
    <3>4. out'[a + 1] = Map(z)
      BY <1>2, <3>3
    <3>5. \A i \in 1 .. a' : i \in 1 .. a \/ i = a + 1
      BY <1>2, <3>1
    <3> QED BY <1>1, <2>1, <3>2, <3>4, <3>5
  <2> QED BY <2>2, <2>3
<1> QED BY <1>1, <1>4, <1>5, <1>6 DEF LoopInv, Finished

\* LoopInv is inductive with TypeOK: it holds at every moment of every loop.
THEOREM LoopInvariant == Spec => []LoopInv
<1>1. Init => LoopInv
  <2> SUFFICES ASSUME Init PROVE LoopInv
    OBVIOUS
  <2>1. /\ a = 0 /\ p = 0 /\ from = <<>> /\ pc = "dispatch"
        /\ out = [i \in 1 .. OutCap |->
                    IF inPlace /\ i <= Len(input) THEN input[i] ELSE Poison]
    BY DEF Init
  <2>2. Len(input) <= OutCap /\ Len(input) \in Nat /\ OutCap \in Nat
    <3>1. PICK k \in 0 .. MaxWords : input \in [1 .. k -> InputWords]
      BY DEF Init
    <3>2. k \in Nat /\ k <= OutCap /\ input \in Seq(InputWords)
      BY <3>1, SamplerAssumption
    <3> QED BY <3>1, <3>2, SamplerAssumption
  <2>3. UnreadIntact
    BY <2>1, <2>2 DEF UnreadIntact
  <2> QED BY <2>1, <2>3 DEF LoopInv, Finished
<1>2. TypeOK /\ LoopInv /\ [Next]_vars => LoopInv'
  <2> SUFFICES ASSUME TypeOK, LoopInv, [Next]_vars PROVE LoopInv'
    OBVIOUS
  <2>1. CASE Dispatch
    <3>1. /\ pc = "dispatch" /\ a = 0 /\ p = 0
          /\ UNCHANGED <<inPlace, n, known, input, out, a, p, from>>
      BY <2>1 DEF Dispatch, call, LoopInv
    <3>2. (pc' = "loop" /\ known) \/ (pc' = "done" /\ rc' = -1)
      BY <2>1 DEF Dispatch
    <3>3. UnreadIntact'
      BY <3>1 DEF LoopInv, UnreadIntact
    <3> QED BY <3>1, <3>2, <3>3 DEF LoopInv, Finished
  <2>2. CASE Step
    BY <2>2, StepLoopInv
  <2>3. CASE Return
    <3>1. pc = "loop" /\ UNCHANGED <<inPlace, n, input, out, a, p, from>>
      BY <2>3 DEF Return, call
    <3>2. pc' = "done" /\ rc' = IF a = n THEN 0 ELSE -2
      BY <2>3 DEF Return
    <3>3. Finished(0)' => a' = n'
      BY <3>1, <3>2 DEF Finished
    <3>4. Finished(-2)' => a' < n' /\ p' = Len(input')
      BY <2>3, <3>1, <3>2 DEF Finished, Return, TypeOK
    <3> QED BY <3>1, <3>2, <3>3, <3>4 DEF LoopInv, UnreadIntact
  <2>4. CASE UNCHANGED vars
    BY <2>4 DEF vars, LoopInv, UnreadIntact, Finished
  <2> QED BY <2>1, <2>2, <2>3, <2>4 DEF Next, Step
<1> QED BY <1>1, <1>2, TypeCorrect, PTL DEF Spec

\* In-place sampling never reads a word it has overwritten, for every source
\* and every request (the aliasing the signatures of frodo_sample_n_fast.h
\* permit).
THEOREM InPlaceSafe == Spec => []UnreadIntact
<1>1. LoopInv => UnreadIntact
  BY DEF LoopInv
<1> QED BY <1>1, LoopInvariant, PTL

(***************************************************************************)
(* Statistics.                                                             *)
(***************************************************************************)

\* The counters of wordXXX_with_stats conserve the words read at every
\* moment, so also when the call fails with -2; the other loops never touch
\* the caller's statistics.
THEOREM StatsAreConserved == Spec => []StatsConserved
<1>1. Init => StatsConserved
  BY DEF Init, StatsConserved
<1>2. TypeOK /\ StatsConserved /\ [Next]_vars
      /\ LoopInv => StatsConserved'
  <2> SUFFICES ASSUME TypeOK, StatsConserved, [Next]_vars, LoopInv
               PROVE  StatsConserved'
    OBVIOUS
  <2> DrawBits \in Nat /\ a \in Nat /\ p \in Nat
    BY SamplerAssumption DEF TypeOK
  <2>0. pc = "dispatch" => a = 0 /\ p = 0
    BY DEF LoopInv
  <2>1. CASE Dispatch
    <3>1. CASE known /\ Loop = "with_stats"
      BY <2>0, <2>1, <3>1 DEF Dispatch, StatsConserved, ZeroStats, call, Loop
    <3>2. CASE ~ (known /\ Loop = "with_stats")
      BY <2>1, <3>2 DEF Dispatch, StatsConserved, call, Loop
    <3> QED BY <3>1, <3>2
  <2>2. CASE BranchlessStep \/ AcceptFirstStep
    BY <2>2 DEF BranchlessStep, AcceptFirstStep, Looping, StatsConserved, call, Loop
  <2>3. CASE StatsStep
    <3>1. /\ pc = "loop" /\ Loop = "with_stats" /\ p' = p + 1
          /\ UNCHANGED <<call, pc>> /\ Loop' = Loop
          /\ UNCHANGED <<known>>
          /\ Accepted(ReadWord) /\ CountWord(ReadWord)
      BY <2>3 DEF StatsStep, Looping, call, Loop
    <3>3. known
      BY <3>1 DEF LoopInv
    <3>4. /\ st.attempts = p /\ st.rejections + a = st.attempts
          /\ st.random_bits = DrawBits * p + a
          /\ st.rejections \in Nat /\ st.random_bits \in Nat
      BY <3>1, <3>3 DEF StatsConserved, TypeOK
    <3> DEFINE bits == DrawBits * p
    <3>0. bits \in Int /\ DrawBits * (p + 1) = bits + DrawBits
      OBVIOUS
    <3>5. CASE Accepts(ReadWord)
      <4>1. a' = a + 1
        BY <3>1, <3>5 DEF Accepted
      <4>2. /\ st'.attempts = st.attempts + 1
            /\ st'.rejections = st.rejections + 0
            /\ st'.random_bytes = 2 * (p + 1)
            /\ st'.random_bits = st.random_bits + DrawBits + 1
        BY <3>1, <3>5 DEF CountWord
      <4>3. /\ st'.attempts = p' /\ st'.rejections + a' = st'.attempts
            /\ st'.random_bytes = 2 * p'
            /\ st'.random_bits = DrawBits * p' + a'
        BY <3>0, <3>1, <3>4, <4>1, <4>2
      <4> QED BY <3>1, <3>3, <4>3 DEF StatsConserved
    <3>6. CASE ~ Accepts(ReadWord)
      <4>1. a' = a
        BY <3>1, <3>6 DEF Accepted
      <4>2. /\ st'.attempts = st.attempts + 1
            /\ st'.rejections = st.rejections + 1
            /\ st'.random_bytes = 2 * (p + 1)
            /\ st'.random_bits = st.random_bits + DrawBits + 0
        BY <3>1, <3>6 DEF CountWord
      <4>3. /\ st'.attempts = p' /\ st'.rejections + a' = st'.attempts
            /\ st'.random_bytes = 2 * p'
            /\ st'.random_bits = DrawBits * p' + a'
        BY <3>0, <3>1, <3>4, <4>1, <4>2
      <4> QED BY <3>1, <3>3, <4>3 DEF StatsConserved
    <3> QED BY <3>5, <3>6
  <2>4. CASE Return
    BY <2>4 DEF Return, StatsConserved, call, Loop
  <2>5. CASE UNCHANGED vars
    BY <2>5 DEF vars, StatsConserved, Loop
  <2> QED BY <2>1, <2>2, <2>3, <2>4, <2>5 DEF Next
<1> QED BY <1>1, <1>2, TypeCorrect, LoopInvariant, PTL DEF Spec

(***************************************************************************)
(* Footprint of the writes.                                                *)
(***************************************************************************)

\* A call writes only inside out[1..n] and, beyond the a accepted samples, at
\* most one cell more in the branchless loop; the rest of the caller's buffer
\* keeps its contents, also when the call fails.
THEOREM FootprintBounded == Spec => []WriteFootprint
<1>1. Init => WriteFootprint
  BY DEF Init, WriteFootprint, Before
<1>2. TypeOK /\ WriteFootprint /\ [Next]_vars => WriteFootprint'
  <2> SUFFICES ASSUME TypeOK, WriteFootprint, [Next]_vars PROVE WriteFootprint'
    OBVIOUS
  <2>1. CASE Step
    <3>1. a < n /\ UNCHANGED call /\ (a' = a \/ a' = a + 1)
      BY <2>1, StepCommon DEF Accepted
    <3>2. /\ a \in Nat /\ n \in Nat /\ out \in [1 .. OutCap -> Word]
          /\ n' = n /\ Slack' = Slack /\ Slack \in {0, 1}
          /\ \A i \in 1 .. OutCap : Before(i)' = Before(i)
      BY <3>1 DEF TypeOK, call, Slack, Loop, Before
    <3>3. out' = out \/ (out' = [out EXCEPT ![a + 1] = Map(ReadWord)] /\ a + 1 <= a' + Slack)
      <4>1. CASE BranchlessStep
        <5>1. Slack = 1
          BY <4>1 DEF BranchlessStep, Looping, Slack
        <5> QED BY <4>1, <5>1, <3>1, <3>2 DEF BranchlessStep
      <4>2. CASE AcceptFirstStep \/ StatsStep
        <5>1. CASE Accepts(ReadWord)
          <6>1. a' = a + 1 /\ a + 1 <= a' + Slack
            BY <2>1, <3>2, <5>1, StepCommon DEF Accepted
          <6> QED BY <4>2, <5>1, <6>1 DEF AcceptFirstStep, StatsStep
        <5>2. CASE ~ Accepts(ReadWord)
          BY <4>2, <5>2 DEF AcceptFirstStep, StatsStep
        <5> QED BY <5>1, <5>2
      <4> QED BY <2>1, <4>1, <4>2 DEF Step
    <3> SUFFICES ASSUME NEW i \in 1 .. OutCap, out'[i] # Before(i)'
                 PROVE  i <= n' /\ i <= a' + Slack'
      BY DEF WriteFootprint
    <3>4. CASE out'[i] = out[i]
      <4>1. i <= n /\ i <= a + Slack
        BY <3>2, <3>4 DEF WriteFootprint
      <4> QED BY <3>1, <3>2, <4>1
    <3>5. CASE out'[i] # out[i]
      <4>1. i = a + 1 /\ a + 1 <= a' + Slack
        BY <3>2, <3>3, <3>5
      <4> QED BY <3>1, <3>2, <4>1
    <3> QED BY <3>4, <3>5
  <2>2. CASE Dispatch \/ Return \/ UNCHANGED vars
    <3>1. UNCHANGED <<call, out, a>>
      BY <2>2 DEF Dispatch, Return, vars, call
    <3> QED BY <3>1 DEF WriteFootprint, Before, Slack, Loop, call
  <2> QED BY <2>1, <2>2 DEF Next, Step
<1> QED BY <1>1, <1>2, TypeCorrect, PTL DEF Spec

(***************************************************************************)
(* Refinement.                                                             *)
(***************************************************************************)

\* Every fused loop implements bounded rejection sampling: each word read is
\* one abstract Consume, Return is Finish or Exhaust, Dispatch stutters.
THEOREM Refinement == Spec => Implements
<1>1. Init => Sampling!Init
  <2> SUFFICES ASSUME Init PROVE Sampling!Init
    OBVIOUS
  <2>1. PICK k \in 0 .. MaxWords : input \in [1 .. k -> InputWords]
    BY DEF Init
  <2>2. input \in Seq(Word)
    BY <2>1, SamplerAssumption
  <2>3. n \in Nat
    BY SamplerAssumption DEF Init
  <2> QED BY <2>2, <2>3 DEF Init, Sampling!Init, Status, Finished
<1>2. TypeOK /\ LoopInv /\ [Next]_vars => [Sampling!Next]_Sampling!vars
  <2> SUFFICES ASSUME TypeOK, LoopInv, [Next]_vars
               PROVE  [Sampling!Next]_Sampling!vars
    OBVIOUS
  <2>1. CASE Step
    <3>1. /\ pc = "loop" /\ a < n /\ p < Len(input) /\ p' = p + 1
          /\ UNCHANGED <<input, n, pc, rc>> /\ Accepted(ReadWord)
          /\ ReadWord = input[p + 1] /\ Len(from) = a
      BY <2>1, StepCommon, ReadIsInput DEF call, LoopInv
    <3>2. Status = "sampling" /\ Status' = "sampling" /\ ~ Finished(0) /\ ~ Finished(0)'
      BY <3>1 DEF Status, Finished
    <3>3. from' = IF Accepts(input[p + 1]) THEN Append(from, p + 1) ELSE from
      BY <3>1 DEF Accepted
    <3>4. Sampling!Consume
      BY <3>1, <3>2, <3>3 DEF Sampling!Consume
    <3> QED BY <3>4 DEF Sampling!Next
  <2>2. CASE Return
    <3>1. /\ pc = "loop" /\ pc' = "done" /\ Len(from) = a
          /\ UNCHANGED <<input, n, out, a, p, from>>
          /\ \A i \in 1 .. a : out[i] = Map(input[from[i]])
      BY <2>2 DEF Return, call, LoopInv
    <3>2. Status = "sampling" /\ ~ Finished(0)
      BY <3>1 DEF Status, Finished
    <3>3. CASE a = n
      <4>1. Finished(0)' /\ Status' = "ok"
        BY <2>2, <3>1, <3>3 DEF Return, Finished, Status
      <4>2. [i \in 1 .. n' |-> out'[i]] = [i \in 1 .. n |-> Map(input[from[i]])]
        BY <3>1, <3>3
      <4>3. Sampling!Finish
        BY <3>1, <3>2, <3>3, <4>1, <4>2 DEF Sampling!Finish
      <4> QED BY <4>3 DEF Sampling!Next
    <3>4. CASE a # n
      <4>1. Finished(-2)' /\ ~ Finished(0)' /\ Status' = "exhausted"
        BY <2>2, <3>1, <3>4 DEF Return, Finished, Status
      <4>2. p = Len(input) /\ a < n
        BY <2>2, <3>4 DEF Return, TypeOK
      <4>3. Sampling!Exhaust
        BY <3>1, <3>2, <4>1, <4>2 DEF Sampling!Exhaust
      <4> QED BY <4>3 DEF Sampling!Next
    <3> QED BY <3>3, <3>4
  <2>3. CASE Dispatch
    <3>1. UNCHANGED <<input, n, p, from>>
      BY <2>3 DEF Dispatch, call
    <3>2. /\ Status = "sampling" /\ Status' = "sampling"
          /\ ~ Finished(0) /\ ~ Finished(0)'
      BY <2>3 DEF Dispatch, Status, Finished, TypeOK
    <3> QED BY <3>1, <3>2 DEF Sampling!vars
  <2>4. CASE UNCHANGED vars
    BY <2>4 DEF vars, Sampling!vars, Status, Finished
  <2> QED BY <2>1, <2>2, <2>3, <2>4 DEF Next, Step
<1> QED BY <1>1, <1>2, TypeCorrect, LoopInvariant, PTL
        DEF Spec, Implements, Sampling!Spec

\* Sampling and Promise are the same substitution: what one says of the source
\* the other says, and what is proved of Promise holds of the implementation.
LEMMA SamePromise ==
  /\ Sampling!Spec => []Promise!ResultPromised
  /\ \A s, m : Promise!HoldsFirst(s, m) => Sampling!HoldsFirst(s, m)
  /\ \A m : Promise!HoldsFewer(m) => Sampling!HoldsFewer(m)
<1>1. Sampling!Init => Promise!Init
  BY DEF Sampling!Init, Promise!Init
<1>2. [Sampling!Next]_Sampling!vars => [Promise!Next]_Promise!vars
  BY DEF Sampling!Next, Sampling!Consume, Sampling!Finish, Sampling!Exhaust, Sampling!vars,
         Promise!Next, Promise!Consume, Promise!Finish, Promise!Exhaust, Promise!vars
<1>3. Sampling!Spec => []Promise!ResultPromised
  BY <1>1, <1>2, Promise!PromiseKept, PTL DEF Sampling!Spec, Promise!Spec
<1>4. /\ Sampling!Accepted = Promise!Accepted
      /\ \A S : Sampling!Cardinality(S) = Promise!Cardinality(S)
  BY DEF Sampling!Accepted, Promise!Accepted, Sampling!Cardinality, Promise!Cardinality
<1>5. \A k : Sampling!Rank(k) = Promise!Rank(k)
  BY <1>4 DEF Sampling!Rank, Promise!Rank
<1>6. \A s, m : Promise!HoldsFirst(s, m) => Sampling!HoldsFirst(s, m)
  BY <1>4, <1>5 DEF Sampling!HoldsFirst, Promise!HoldsFirst
<1>7. \A m : Promise!HoldsFewer(m) => Sampling!HoldsFewer(m)
  BY <1>4 DEF Sampling!HoldsFewer, Promise!HoldsFewer
<1> QED BY <1>3, <1>6, <1>7

\* What a caller relies on: whichever loop ran, in place or not, success leaves
\* in out[1..n] the images of the first n accepted words of the source as it
\* was passed, and -2 means the whole source was read and holds fewer.
THEOREM ResultIsCorrect == Spec => []ResultCorrect
<1>1. LoopInv /\ Promise!ResultPromised => ResultCorrect
  <2> SUFFICES ASSUME LoopInv, Promise!ResultPromised PROVE ResultCorrect
    OBVIOUS
  <2>1. CASE Finished(0)
    <3>1. Status = "ok"
      BY <2>1 DEF Status
    <3>2. Promise!HoldsFirst([i \in 1 .. n |-> out[i]], n)
      BY <2>1, <3>1 DEF Promise!ResultPromised
    <3>3. Promise!HoldsFirst(out, n)
      BY <3>2 DEF Promise!HoldsFirst
    <3> QED BY <2>1, <3>3, SamePromise DEF ResultCorrect, Finished
  <2>2. CASE Finished(-2)
    <3>1. Status = "exhausted"
      BY <2>2 DEF Status, Finished
    <3>2. Promise!HoldsFewer(n)
      BY <3>1 DEF Promise!ResultPromised
    <3>3. p = Len(input)
      BY <2>2 DEF LoopInv
    <3> QED BY <2>2, <3>2, <3>3, SamePromise DEF ResultCorrect, Finished
  <2> QED BY <2>1, <2>2 DEF ResultCorrect
<1> QED BY <1>1, SamePromise, Refinement, LoopInvariant, PTL DEF Implements
=============================================================================
