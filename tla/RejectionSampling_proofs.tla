---------------------- MODULE RejectionSampling_proofs ----------------------
(***************************************************************************)
(* What an implementation of RejectionSampling inherits: the accepted      *)
(* positions are exact at every moment, a success returns the images of    *)
(* the first n accepted draws, and a failure is a genuine shortage.  An    *)
(* implementation's proofs instantiate this module with the substitution   *)
(* of its refinement and cite these results as theorems about itself.      *)
(***************************************************************************)
EXTENDS RejectionSampling, FiniteSetTheorems, TLAPS

(***************************************************************************)
(* Counting.                                                               *)
(***************************************************************************)

\* Counting the indices of a sequence that satisfy a condition gives at most
\* its length.
LEMMA CountBound ==
  ASSUME NEW L \in Nat, NEW S, S \subseteq 1 .. L
  PROVE  IsFiniteSet(S) /\ Cardinality(S) \in 0 .. L
<1> DEFINE D == 1 .. L
<1>1. L \in Int /\ 1 \in Int /\ L >= 0
  OBVIOUS
<1>2. IsFiniteSet(D) /\ Cardinality(D) = IF 1 > L THEN 0 ELSE L - 1 + 1
  BY <1>1, FS_Interval
<1>3. IsFiniteSet(D) /\ Cardinality(D) = L
  BY <1>1, <1>2
<1>4. IsFiniteSet(S) /\ Cardinality(S) <= Cardinality(D)
  BY <1>3, FS_Subset
<1>5. Cardinality(S) \in Nat
  BY <1>4, FS_CardinalityType
<1> QED BY <1>3, <1>4, <1>5

\* Ranks are natural numbers and no draw ranks above the number of accepted
\* draws, which is the rank of the last draw.
LEMMA RankBound ==
  ASSUME Len(draws) \in Nat
  PROVE  /\ IsFiniteSet(Accepted) /\ Cardinality(Accepted) \in Nat
         /\ \A k : /\ IsFiniteSet({j \in Accepted : j <= k})
                  /\ Rank(k) \in Nat /\ Rank(k) <= Cardinality(Accepted)
         /\ Rank(Len(draws)) = Cardinality(Accepted)
<1>1. Accepted \subseteq 1 .. Len(draws)
  BY DEF Accepted
<1>2. IsFiniteSet(Accepted) /\ Cardinality(Accepted) \in Nat
  <2> DEFINE L == Len(draws)
             S == Accepted
  <2>1. L \in Nat /\ S \subseteq 1 .. L
    BY <1>1
  <2> HIDE DEF L, S
  <2>2. IsFiniteSet(S) /\ Cardinality(S) \in 0 .. L
    BY <2>1, CountBound
  <2>3. Cardinality(S) \in Nat
    BY <2>1, <2>2
  <2> QED BY <2>2, <2>3 DEF S
<1>3. ASSUME NEW k
      PROVE  /\ IsFiniteSet({j \in Accepted : j <= k})
             /\ Rank(k) \in Nat /\ Rank(k) <= Cardinality(Accepted)
  <2> DEFINE S == {j \in Accepted : j <= k}
  <2>1. S \subseteq Accepted
    OBVIOUS
  <2>2. IsFiniteSet(S) /\ Cardinality(S) <= Cardinality(Accepted)
    BY <1>2, <2>1, FS_Subset
  <2>3. Cardinality(S) \in Nat
    BY <2>2, FS_CardinalityType
  <2> QED BY <2>2, <2>3 DEF Rank
<1>4. \A j \in Accepted : j <= Len(draws)
  BY DEF Accepted
<1>6. {j \in Accepted : j <= Len(draws)} = Accepted
  BY <1>4
<1>5. Rank(Len(draws)) = Cardinality(Accepted)
  BY <1>6 DEF Rank
<1> QED BY <1>2, <1>3, <1>5

\* The rank grows by one at an accepted draw and stays put at a rejected one.
LEMMA RankNext ==
  ASSUME Len(draws) \in Nat, NEW k \in Nat, k < Len(draws)
  PROVE  /\ Accept(draws[k + 1]) => k + 1 \in Accepted /\ Rank(k + 1) = Rank(k) + 1
         /\ ~ Accept(draws[k + 1]) => Rank(k + 1) = Rank(k)
<1> DEFINE S == {j \in Accepted : j <= k}
           T == {j \in Accepted : j <= k + 1}
<1>0. (\A j \in Accepted : j \in Nat) /\ k + 1 \in 1 .. Len(draws)
  BY DEF Accepted
<1>1. IsFiniteSet(S)
  BY RankBound
<1>2. CASE Accept(draws[k + 1])
  <2>1. k + 1 \in Accepted
    BY <1>0, <1>2 DEF Accepted
  <2>2. \A j \in Accepted : j <= k + 1 <=> j <= k \/ j = k + 1
    BY <1>0
  <2>3. T = S \cup {k + 1} /\ k + 1 \notin S
    BY <2>1, <2>2
  <2>4. Cardinality(T) = Cardinality(S) + 1
    BY <1>1, <2>3, FS_AddElement
  <2> QED BY <1>2, <2>1, <2>4 DEF Rank
<1>3. CASE ~ Accept(draws[k + 1])
  <2>1. k + 1 \notin Accepted
    BY <1>3 DEF Accepted
  <2>2. \A j \in Accepted : j <= k + 1 <=> j <= k
    BY <1>0, <2>1
  <2>3. T = S
    BY <2>2
  <2> QED BY <1>3, <2>3 DEF Rank
<1> QED BY <1>2, <1>3

\* A later accepted draw ranks higher, so a rank names one accepted draw.
LEMMA RankStrict ==
  ASSUME Len(draws) \in Nat, NEW k \in Accepted, NEW m \in Accepted, k < m
  PROVE  Rank(k) < Rank(m)
<1> DEFINE S == {j \in Accepted : j <= k}
           T == {j \in Accepted : j <= m}
<1>1. \A j \in Accepted : j \in Nat
  BY DEF Accepted
<1>2. IsFiniteSet(S) /\ IsFiniteSet(T) /\ Rank(k) \in Nat /\ Rank(m) \in Nat
  BY RankBound
<1>3. S \cup {m} \subseteq T /\ m \notin S
  <2>1. \A j \in Accepted : j <= k => j <= m
    BY <1>1
  <2>2. m \in T /\ m \notin S
    BY <1>1
  <2> QED BY <2>1, <2>2
<1>4. IsFiniteSet(S \cup {m}) /\ Cardinality(S \cup {m}) = Cardinality(S) + 1
  BY <1>2, <1>3, FS_AddElement
<1>5. Cardinality(S \cup {m}) <= Cardinality(T)
  BY <1>2, <1>3, FS_Subset
<1> QED BY <1>2, <1>4, <1>5 DEF Rank

LEMMA RankInjective ==
  ASSUME Len(draws) \in Nat,
         NEW k \in Accepted, NEW m \in Accepted, Rank(k) = Rank(m)
  PROVE  k = m
<1>1. k \in Nat /\ m \in Nat
  BY DEF Accepted
<1>2. Rank(k) \in Nat
  BY RankBound
<1>3. ~ (k < m) /\ ~ (m < k)
  BY <1>2, RankStrict
<1> QED BY <1>1, <1>3

(***************************************************************************)
(* The sampler.                                                            *)
(***************************************************************************)

\* The abstract state keeps its types: the consumed prefix is inside the
\* source and every recorded position is a position of the source.
THEOREM TypeCorrect == Spec => []TypeOK
<1>1. Init => TypeOK
  BY DEF Init, TypeOK
<1>2. TypeOK /\ [Next]_vars => TypeOK'
  <2> SUFFICES ASSUME TypeOK, [Next]_vars PROVE TypeOK'
    OBVIOUS
  <2>1. CASE Consume
    <3>1. pos + 1 \in 1 .. Len(draws) /\ pos' = pos + 1 /\ draws' = draws
      BY <2>1 DEF Consume, TypeOK
    <3>2. from' \in Seq(1 .. Len(draws))
      <4> DEFINE S == 1 .. Len(draws)
      <4>1. from \in Seq(S) /\ pos + 1 \in S
        BY <3>1 DEF TypeOK
      <4>2. from' = from \/ from' = Append(from, pos + 1)
        BY <2>1 DEF Consume
      <4> HIDE DEF S
      <4>3. from' \in Seq(S)
        BY <4>1, <4>2
      <4> QED BY <4>3 DEF S
    <3> QED BY <2>1, <3>1, <3>2 DEF Consume, TypeOK
  <2>2. CASE Finish
    BY <2>2 DEF Finish, TypeOK
  <2>3. CASE Exhaust
    BY <2>3 DEF Exhaust, TypeOK
  <2>4. CASE UNCHANGED vars
    BY <2>4 DEF vars, TypeOK
  <2> QED BY <2>1, <2>2, <2>3, <2>4 DEF Next
<1> QED BY <1>1, <1>2, PTL DEF Spec

\* Consuming a draw keeps the list of accepted positions exact.
LEMMA ConsumeExact ==
  ASSUME TypeOK, FromExact, Consume
  PROVE  FromExact'
<1>1. /\ draws' = draws /\ pos' = pos + 1 /\ pos \in Nat
      /\ from \in Seq(1 .. Len(draws)) /\ Len(from) \in Nat
  BY DEF Consume, TypeOK
<1>2. CASE ~ Accept(draws[pos + 1])
  <2>1. from' = from
    BY <1>2 DEF Consume
  <2> QED BY <1>1, <1>2, <2>1 DEF FromExact, TypeOK
<1>3. CASE Accept(draws[pos + 1])
  <2>1. /\ from' = Append(from, pos + 1)
        /\ Len(from') = Len(from) + 1
        /\ from'[Len(from) + 1] = pos + 1
        /\ \A i \in 1 .. Len(from) : from'[i] = from[i]
    BY <1>1, <1>3 DEF Consume
  <2>2. \A i \in 1 .. Len(from) : from[i] \in Nat /\ from[i] <= pos
    BY <1>1 DEF FromExact
  <2>3. \A i, j \in 1 .. Len(from') : i < j => from'[i] < from'[j]
    BY <1>1, <2>1, <2>2 DEF FromExact
  <2>4. \A i \in 1 .. Len(from') : from'[i] <= pos' /\ Accept(draws'[from'[i]])
    BY <1>1, <1>3, <2>1, <2>2 DEF FromExact
  <2>5. \A k \in 1 .. pos' :
           Accept(draws'[k]) => \E i \in 1 .. Len(from') : from'[i] = k
    <3> SUFFICES ASSUME NEW k \in 1 .. pos', Accept(draws'[k])
                 PROVE  \E i \in 1 .. Len(from') : from'[i] = k
      OBVIOUS
    <3>1. CASE k = pos + 1
      BY <1>1, <2>1, <3>1
    <3>2. CASE k # pos + 1
      <4>1. k \in 1 .. pos
        BY <1>1, <3>2
      <4>2. PICK i \in 1 .. Len(from) : from[i] = k
        BY <1>1, <4>1 DEF FromExact
      <4> QED BY <1>1, <2>1, <4>2
    <3> QED BY <3>1, <3>2
  <2> QED BY <2>3, <2>4, <2>5 DEF FromExact
<1> QED BY <1>2, <1>3

LEMMA ConsumeRanked ==
  ASSUME TypeOK, FromRanked, Consume
  PROVE  FromRanked'
<1>1. /\ draws' = draws /\ pos' = pos + 1 /\ pos \in Nat /\ pos < Len(draws)
      /\ from \in Seq(1 .. Len(draws)) /\ Len(from) \in Nat /\ Len(draws) \in Nat
  BY DEF Consume, TypeOK
<1>2. /\ Accepted' = Accepted
      /\ \A k : (\A j : j = k => Rank(j)' = Rank(k))
  BY <1>1 DEF Accepted, Rank
<1>3. CASE ~ Accept(draws[pos + 1])
  <2>1. from' = from /\ Rank(pos + 1) = Rank(pos)
    BY <1>1, <1>3, RankNext DEF Consume
  <2> QED BY <1>1, <1>2, <2>1 DEF FromRanked, Rank
<1>4. CASE Accept(draws[pos + 1])
  <2>1. /\ from' = Append(from, pos + 1)
        /\ Len(from') = Len(from) + 1
        /\ from'[Len(from) + 1] = pos + 1
        /\ \A i \in 1 .. Len(from) : from'[i] = from[i]
    BY <1>1, <1>4 DEF Consume
  <2>2. pos + 1 \in Accepted /\ Rank(pos + 1) = Len(from) + 1
    BY <1>1, <1>4, RankNext DEF FromRanked
  <2>3. \A i \in 1 .. Len(from') : from'[i] \in Accepted /\ Rank(from'[i]) = i
    <3> SUFFICES ASSUME NEW i \in 1 .. Len(from')
                 PROVE  from'[i] \in Accepted /\ Rank(from'[i]) = i
      OBVIOUS
    <3>1. CASE i = Len(from) + 1
      BY <2>1, <2>2, <3>1
    <3>2. CASE i # Len(from) + 1
      <4>1. i \in 1 .. Len(from)
        BY <1>1, <2>1, <3>2
      <4> QED BY <2>1, <4>1 DEF FromRanked
    <3> QED BY <3>1, <3>2
  <2> QED BY <1>1, <1>2, <2>1, <2>2, <2>3 DEF FromRanked, Rank
<1> QED BY <1>3, <1>4

\* At every moment the recorded positions are exactly the accepted positions
\* of the consumed prefix, a success holds their images and a failure means
\* the source ran out: the promise the samplers of src/online refine.
THEOREM SamplingIsCorrect == Spec => []SamplingCorrect
<1>1. Init => SamplingCorrect
  <2> SUFFICES ASSUME Init PROVE SamplingCorrect
    OBVIOUS
  <2>1. FromExact /\ ResultExact /\ ExhaustedExact
    BY DEF Init, FromExact, ResultExact, ExhaustedExact
  <2>2. FromRanked
    <3>1. pos = 0 /\ from = <<>>
      BY DEF Init
    <3>2. {j \in Accepted : j <= 0} = {}
      BY DEF Accepted
    <3>3. Rank(0) = 0
      BY <3>2, FS_EmptySet DEF Rank
    <3> QED BY <3>1, <3>3 DEF FromRanked
  <2> QED BY <2>1, <2>2 DEF SamplingCorrect
<1>2. TypeOK /\ SamplingCorrect /\ [Next]_vars => SamplingCorrect'
  <2> SUFFICES ASSUME TypeOK, SamplingCorrect, [Next]_vars
               PROVE  SamplingCorrect'
    OBVIOUS
  <2>0. FromExact /\ FromRanked /\ ResultExact /\ ExhaustedExact
    BY DEF SamplingCorrect
  <2>1. CASE Consume
    <3>1. FromExact' /\ FromRanked'
      BY <2>0, <2>1, ConsumeExact, ConsumeRanked
    <3>2. status' = "sampling"
      BY <2>1 DEF Consume
    <3> QED BY <3>1, <3>2 DEF SamplingCorrect, ResultExact, ExhaustedExact
  <2>2. CASE Finish
    <3>1. FromExact' /\ FromRanked'
      BY <2>0, <2>2 DEF Finish, FromExact, FromRanked, Rank, Accepted
    <3>2. ResultExact' /\ ExhaustedExact'
      BY <2>2 DEF Finish, ResultExact, ExhaustedExact
    <3> QED BY <3>1, <3>2 DEF SamplingCorrect
  <2>3. CASE Exhaust
    <3>1. FromExact' /\ FromRanked'
      BY <2>0, <2>3 DEF Exhaust, FromExact, FromRanked, Rank, Accepted
    <3>2. ResultExact' /\ ExhaustedExact'
      BY <2>3 DEF Exhaust, ResultExact, ExhaustedExact
    <3> QED BY <3>1, <3>2 DEF SamplingCorrect
  <2>4. CASE UNCHANGED vars
    BY <2>0, <2>4 DEF vars, SamplingCorrect, FromExact, FromRanked, Rank, Accepted,
                      ResultExact, ExhaustedExact
  <2> QED BY <2>1, <2>2, <2>3, <2>4 DEF Next
<1> QED BY <1>1, <1>2, TypeCorrect, PTL DEF Spec

\* The promise as a caller reads it: whichever loop ran, a success holds in
\* order the images of the first n accepted draws of the source, and a failure
\* is reported only when the source holds fewer.
THEOREM PromiseKept == Spec => []ResultPromised
<1>1. TypeOK /\ SamplingCorrect => ResultPromised
  <2> SUFFICES ASSUME TypeOK, SamplingCorrect PROVE ResultPromised
    OBVIOUS
  <2>1. Len(draws) \in Nat
    BY DEF TypeOK
  <2>2. ASSUME status = "ok" PROVE HoldsFirst(result, n)
    <3>1. Len(from) = n /\ result = [i \in 1 .. n |-> Image(draws[from[i]])]
      BY <2>2 DEF SamplingCorrect, ResultExact
    <3>2. \A i \in 1 .. n : from[i] \in Accepted /\ Rank(from[i]) = i
      BY <3>1 DEF SamplingCorrect, FromRanked
    <3> QED BY <3>1, <3>2 DEF HoldsFirst
  <2>3. ASSUME status = "exhausted" PROVE HoldsFewer(n)
    <3>1. pos = Len(draws) /\ Len(from) < n /\ Rank(pos) = Len(from)
      BY <2>3 DEF SamplingCorrect, ExhaustedExact, FromRanked
    <3> QED BY <2>1, <3>1, RankBound DEF HoldsFewer
  <2> QED BY <2>2, <2>3 DEF ResultPromised
<1> QED BY <1>1, TypeCorrect, SamplingIsCorrect, PTL
=============================================================================
