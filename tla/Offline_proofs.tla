--------------------------- MODULE Offline_proofs ---------------------------
(***************************************************************************)
(* The offline programs: what the enumeration of one epsilon finds         *)
(* (LinfSearch), what the generation of the tables writes and what its     *)
(* verification accepts (TableGeneration), and what the candidate search   *)
(* keeps and its verification accepts (CandidateSearch), for every input,  *)
(* every answer of the solver and every value of the constants.            *)
(***************************************************************************)
EXTENDS LinfSearch, TableGeneration, CandidateSearch,
        FiniteSetTheorems, SequenceTheorems, WellFoundedInduction, TLAPS

(***************************************************************************)
(* LinfSearch: the shrinking bound never cuts off a shorter vector.        *)
(***************************************************************************)

\* Division with remainder by the unit.
LEMMA UnitDivision ==
  ASSUME NEW x \in Nat
  PROVE  /\ x \div Scale \in Nat /\ x % Scale \in 0 .. Scale - 1
         /\ x = Scale * (x \div Scale) + (x % Scale)
  BY LinfAssumption, SMT

\* The enumeration bound computed from a norm: every denominator at or past it
\* is at least as long as the norm.
LEMMA LimitCovers ==
  ASSUME NEW x \in Nat
  PROVE  /\ LimitFor(x) \in Nat
         /\ x <= LimitFor(x) * Scale
         /\ x >= 1 => LimitFor(x) >= 1
<1> DEFINE d == x \div Scale
           r == x % Scale
<1>1. d \in Nat /\ r \in 0 .. Scale - 1 /\ x = Scale * d + r /\ Scale \in Nat
  BY UnitDivision, LinfAssumption
<1>2. LimitFor(x) = IF r = 0 THEN d ELSE d + 2
  BY DEF LimitFor
<1> HIDE DEF d, r
<1>3. CASE r = 0
  <2>1. x = Scale * d /\ LimitFor(x) = d
    BY <1>1, <1>2, <1>3
  <2>2. d = 0 => x = 0
    BY <1>1, <2>1
  <2> QED BY <1>1, <2>1, <2>2
<1>4. CASE r # 0
  <2>1. LimitFor(x) = d + 2
    BY <1>2, <1>4
  <2>2. (d + 2) * Scale = Scale * d + 2 * Scale
    BY <1>1
  <2> QED BY <1>1, <2>1, <2>2
<1> QED BY <1>3, <1>4

\* Longer denominators are longer vectors.
LEMMA ScaleMonotone ==
  ASSUME NEW k \in Nat, NEW l \in Nat, l <= k
  PROVE  l * Scale <= k * Scale
  BY LinfAssumption, SMT

\* In a state of the invariant, the numbers the loop compares.
LEMMA LoopFacts ==
  ASSUME LoopInv
  PROVE  /\ MaxQ \in Nat /\ MaxQ >= 1 /\ Scale \in Nat /\ Scale >= 1
         /\ \A k \in 0 .. MaxQ : lo[k] \in Nat /\ hi[k] \in Nat /\ lo[k] <= hi[k]
         /\ \A k \in 1 .. MaxQ : k * Scale <= hi[k] /\ 1 <= hi[k]
         /\ best.q \in 0 .. MaxQ /\ best.lo = lo[best.q] /\ best.hi = hi[best.q]
         /\ best.lo \in Nat /\ best.hi \in Nat /\ best.lo <= best.hi
<1>1. MaxQ \in Nat /\ MaxQ >= 1 /\ Scale \in Nat /\ Scale >= 1
  BY LinfAssumption
<1>2. \A k \in 0 .. MaxQ : lo[k] \in Nat /\ hi[k] \in Nat /\ lo[k] <= hi[k]
  BY DEF LoopInv, TypeOK, Enclosures
<1>3. \A k \in 1 .. MaxQ : k * Scale <= hi[k] /\ 1 <= hi[k]
  <2> SUFFICES ASSUME NEW k \in 1 .. MaxQ PROVE k * Scale <= hi[k] /\ 1 <= hi[k]
    OBVIOUS
  <2>1. k * Scale <= lo[k] /\ k \in 0 .. MaxQ /\ k \in Nat /\ 1 <= k
    BY <1>1 DEF LoopInv, Enclosures
  <2>2. 1 * Scale <= k * Scale /\ k * Scale \in Nat
    BY <1>1, <2>1, ScaleMonotone
  <2> QED BY <1>1, <1>2, <2>1, <2>2
<1>4. best.q \in 0 .. MaxQ /\ best.lo \in Nat /\ best.hi \in Nat
  BY DEF LoopInv, TypeOK
<1>5. best.lo = lo[best.q] /\ best.hi = hi[best.q]
  BY DEF LoopInv
<1> QED BY <1>1, <1>2, <1>3, <1>4, <1>5

\* A tabulated candidate is a vector record.
LEMMA CandidateType ==
  ASSUME lo \in [0 .. MaxQ -> Nat], hi \in [0 .. MaxQ -> Nat], NEW k \in 0 .. MaxQ
  PROVE  /\ VectorOf(k) \in [q : 0 .. MaxQ, lo : Nat, hi : Nat]
         /\ VectorOf(k).q = k /\ VectorOf(k).lo = lo[k] /\ VectorOf(k).hi = hi[k]
<1>1. lo[k] \in Nat /\ hi[k] \in Nat
  OBVIOUS
<1> QED BY <1>1 DEF VectorOf

LEMMA LoopInit == LinfInit => LoopInv
<1> SUFFICES ASSUME LinfInit PROVE LoopInv
  OBVIOUS
<1> USE LinfAssumption
<1>1. PICK c \in Scale + 1 .. MaxC,
           excess \in [1 .. MaxQ -> 0 .. MaxExcess],
           width \in [1 .. MaxQ -> 0 .. MaxWidth] :
        /\ lo = [k \in 0 .. MaxQ |-> IF k = 0 THEN c ELSE k * Scale + excess[k]]
        /\ hi = [k \in 0 .. MaxQ |-> IF k = 0 THEN c ELSE k * Scale + excess[k] + width[k]]
  BY DEF LinfInit
<1>2. \A k \in 1 .. MaxQ : k * Scale \in Nat /\ excess[k] \in Nat /\ width[k] \in Nat
  OBVIOUS
<1>a. /\ \A k \in 0 .. MaxQ : lo[k] \in Nat /\ hi[k] \in Nat /\ lo[k] <= hi[k]
      /\ \A k \in 1 .. MaxQ : k * Scale <= lo[k]
  <2> SUFFICES ASSUME NEW k \in 0 .. MaxQ
               PROVE  /\ lo[k] \in Nat /\ hi[k] \in Nat /\ lo[k] <= hi[k]
                      /\ k # 0 => k * Scale <= lo[k]
    OBVIOUS
  <2>1. CASE k = 0
    <3>1. lo[k] = c /\ hi[k] = c
      BY <1>1, <2>1
    <3>2. c \in Nat
      OBVIOUS
    <3> QED BY <2>1, <3>1, <3>2
  <2>2. CASE k # 0
    <3>1. lo[k] = k * Scale + excess[k] /\ hi[k] = k * Scale + excess[k] + width[k]
      BY <1>1, <2>2
    <3>2. k * Scale \in Nat /\ excess[k] \in Nat /\ width[k] \in Nat
      BY <1>2, <2>2
    <3> DEFINE x == k * Scale
               y == excess[k]
               z == width[k]
    <3>3. x \in Nat /\ y \in Nat /\ z \in Nat /\ lo[k] = x + y /\ hi[k] = x + y + z
      BY <3>1, <3>2
    <3> HIDE DEF x, y, z
    <3>4. lo[k] \in Nat /\ hi[k] \in Nat /\ lo[k] <= hi[k] /\ x <= lo[k]
      BY <3>3
    <3> QED BY <3>4 DEF x
  <2> QED BY <2>1, <2>2
<1>3. lo \in [0 .. MaxQ -> Nat] /\ hi \in [0 .. MaxQ -> Nat]
  <2>1. \A k \in 0 .. MaxQ : lo[k] \in Nat /\ hi[k] \in Nat
    BY <1>a
  <2>2. /\ lo = [k \in 0 .. MaxQ |-> lo[k]]
        /\ hi = [k \in 0 .. MaxQ |-> hi[k]]
    BY <1>1, Zenon
  <2> QED BY <2>1, <2>2
<1>4. /\ \A k \in 0 .. MaxQ : lo[k] <= hi[k]
      /\ \A k \in 1 .. MaxQ : k * Scale <= lo[k]
  BY <1>a
<1>5. best = VectorOf(0) /\ best.q = 0 /\ best.lo = lo[best.q] /\ best.hi = hi[best.q]
  BY DEF LinfInit, VectorOf
<1>6. best \in [q : 0 .. MaxQ, lo : Nat, hi : Nat]
  <2>1. 0 \in 0 .. MaxQ
    OBVIOUS
  <2> QED BY <1>3, <1>5, <2>1, CandidateType
<1>7. /\ hi[1] < lo[0] /\ initialQ \in 0 .. MaxQ /\ LimitFor(hi[initialQ]) <= MaxQ + 1
      /\ q = 0 /\ limit = 0 /\ enumerated = 0 /\ upper = 0 /\ step = "start" /\ rc = 0
  BY DEF LinfInit
<1>8. TypeOK
  <2>1. 0 \in 0 .. MaxQ /\ 0 \in 0 .. MaxQ + 1
    OBVIOUS
  <2> QED BY <1>3, <1>6, <1>7, <2>1 DEF TypeOK
<1>9. Enclosures
  BY <1>4, <1>7 DEF Enclosures
<1> QED BY <1>5, <1>7, <1>8, <1>9 DEF LoopInv

\* The first bound: it covers the vector the search starts from, is tabulated,
\* and lets denominator 1 be visited.
LEMMA FirstLimitFacts ==
  ASSUME LoopInv
  PROVE  /\ FirstLimit \in 2 .. MaxQ + 1
         /\ hi[initialQ] <= FirstLimit * Scale
<1> DEFINE l == LimitFor(hi[initialQ])
<1>1. initialQ \in 0 .. MaxQ /\ hi[initialQ] \in Nat /\ l <= MaxQ + 1
  BY LoopFacts DEF LoopInv, TypeOK, Enclosures
<1>2. l \in Nat /\ hi[initialQ] <= l * Scale
  BY <1>1, LimitCovers
<1>3. FirstLimit = IF l < 2 THEN 2 ELSE l
  BY DEF FirstLimit
<1> HIDE DEF l
<1>4. FirstLimit \in 2 .. MaxQ + 1 /\ l <= FirstLimit
  BY <1>1, <1>2, <1>3, LoopFacts
<1>5. l * Scale <= FirstLimit * Scale
  BY <1>2, <1>4, ScaleMonotone
<1>6. l * Scale \in Nat /\ FirstLimit * Scale \in Nat
  BY <1>2, <1>4, LoopFacts
<1> QED BY <1>1, <1>2, <1>4, <1>5, <1>6

\* Starting from a given vector establishes the loop's part of the invariant.
LEMMA StartKeeps ==
  ASSUME LoopInv, Start
  PROVE  LoopInv'
<1>1. UNCHANGED input /\ step = "start"
  BY DEF Start
<1>2. lo' = lo /\ hi' = hi /\ initialQ' = initialQ /\ enumerated' = enumerated
  BY DEF Start, input
<1>3. best' = VectorOf(initialQ) /\ limit' = FirstLimit
  BY DEF Start
<1>4. initialQ \in 0 .. MaxQ /\ q = 0 /\ enumerated = 0 /\ upper \in 0 .. MaxQ
  BY <1>1, LoopFacts DEF LoopInv, TypeOK
<1>5. /\ best'.q = initialQ /\ best'.lo = lo[initialQ] /\ best'.hi = hi[initialQ]
      /\ best' \in [q : 0 .. MaxQ, lo : Nat, hi : Nat]
  BY <1>3, <1>4, CandidateType DEF LoopInv, TypeOK
<1>6. Enclosures' /\ best'.lo = lo'[best'.q] /\ best'.hi = hi'[best'.q]
  <2>1. Enclosures'
    BY <1>2 DEF LoopInv, Enclosures, LimitFor
  <2> QED BY <1>2, <1>5, <2>1
<1>7. FirstLimit \in 2 .. MaxQ + 1 /\ hi[initialQ] <= FirstLimit * Scale
  BY FirstLimitFacts
<1>8. CASE FirstLimit > MaxLimit
  <2>1. step' = "done" /\ rc' = -2 /\ q' = q /\ upper' = upper
    BY <1>8 DEF Start
  <2>2. q' \in 0 .. MaxQ + 1 /\ limit' \in 0 .. MaxQ + 1
        /\ enumerated' \in 0 .. MaxQ /\ upper' \in 0 .. MaxQ
    BY <1>2, <1>3, <1>4, <1>7, <2>1, LoopFacts
  <2>3. TypeOK'
    BY <1>2, <1>4, <1>5, <2>1, <2>2 DEF LoopInv, TypeOK
  <2>4. limit' >= 1 /\ best'.hi <= limit' * Scale
    BY <1>3, <1>5, <1>7, LoopFacts
  <2> QED BY <1>6, <2>1, <2>3, <2>4 DEF LoopInv
<1>9. CASE ~ (FirstLimit > MaxLimit)
  <2>1. step' = "loop" /\ rc' = rc /\ q' = 1 /\ upper' = FirstLimit - 1
    BY <1>9 DEF Start
  <2>2. q' \in 0 .. MaxQ + 1 /\ limit' \in 0 .. MaxQ + 1
        /\ enumerated' \in 0 .. MaxQ /\ upper' \in 0 .. MaxQ
    BY <1>2, <1>3, <1>4, <1>7, <2>1, LoopFacts
  <2>3. TypeOK'
    <3>1. step' \in {"start", "loop", "done"} /\ rc' \in {0, -2}
      BY <2>1 DEF LoopInv, TypeOK
    <3> QED BY <1>2, <1>4, <1>5, <3>1, <2>2 DEF LoopInv, TypeOK
  <2>4. limit' >= 2 /\ best'.hi <= limit' * Scale
    BY <1>3, <1>5, <1>7, LoopFacts
  <2>5. \A k \in 1 .. q' - 1 : best'.lo <= hi'[k]
    BY <2>1
  <2>6. q' >= 1 /\ limit' >= 1 /\ upper' = limit' - 1 /\ enumerated' = q' - 1
    BY <1>2, <1>3, <1>4, <1>7, <2>1, LoopFacts
  <2> QED BY <1>6, <2>1, <2>3, <2>4, <2>5, <2>6 DEF LoopInv
<1> QED BY <1>8, <1>9

\* One denominator keeps the invariant: a replacement is below everything seen
\* before, and the bound shrinks no further than the new norm allows.
LEMMA TryKeeps ==
  ASSUME LoopInv, Try
  PROVE  LoopInv'
<1>1. /\ step = "loop" /\ step' = "loop" /\ q < limit /\ q' = q + 1
      /\ enumerated' = enumerated + 1 /\ rc' = rc
      /\ lo' = lo /\ hi' = hi /\ initialQ' = initialQ
  BY DEF Try, input
<1>2. /\ q \in 1 .. MaxQ /\ limit \in 1 .. MaxQ + 1 /\ limit \in Nat
      /\ enumerated = q - 1 /\ upper = limit - 1
      /\ best.hi <= limit * Scale
      /\ \A k \in 1 .. q - 1 : best.lo <= hi[k]
  BY <1>1, LoopFacts DEF LoopInv, TypeOK
<1>3. lo[q] \in Nat /\ hi[q] \in Nat /\ lo[q] <= hi[q] /\ 1 <= hi[q]
  BY <1>2, LoopFacts
<1>4. Enclosures'
  BY <1>1 DEF LoopInv, Enclosures
<1> DEFINE l == LimitFor(hi[q])
<1>5. l \in Nat /\ hi[q] <= l * Scale /\ l >= 1
  BY <1>3, LimitCovers
<1>6. /\ best' = IF Improves THEN VectorOf(q) ELSE best
      /\ IF Improves /\ l < limit THEN limit' = l /\ upper' = l - 1
         ELSE limit' = limit /\ upper' = upper
  BY DEF Try
<1>7. /\ best'.lo = lo'[best'.q] /\ best'.hi = hi'[best'.q]
      /\ best' \in [q : 0 .. MaxQ, lo : Nat, hi : Nat]
      /\ Improves => best'.lo = lo[q] /\ best'.hi = hi[q]
  <2>1. /\ lo \in [0 .. MaxQ -> Nat] /\ hi \in [0 .. MaxQ -> Nat]
        /\ best \in [q : 0 .. MaxQ, lo : Nat, hi : Nat]
        /\ best.lo = lo[best.q] /\ best.hi = hi[best.q]
    BY DEF LoopInv, TypeOK
  <2>q. q \in 0 .. MaxQ
    BY <1>2, LoopFacts
  <2>2. /\ VectorOf(q) \in [q : 0 .. MaxQ, lo : Nat, hi : Nat]
        /\ VectorOf(q).q = q /\ VectorOf(q).lo = lo[q] /\ VectorOf(q).hi = hi[q]
    BY <2>1, <2>q, CandidateType
  <2>3. CASE Improves
    <3>1. best' = VectorOf(q)
      BY <1>6, <2>3
    <3> QED BY <1>1, <2>2, <3>1
  <2>4. CASE ~ Improves
    <3>1. best' = best
      BY <1>6, <2>4
    <3> QED BY <1>1, <2>1, <2>4, <3>1
  <2> QED BY <2>3, <2>4
<1> HIDE DEF l
<1>8. limit' \in 1 .. MaxQ + 1 /\ upper' = limit' - 1
  BY <1>2, <1>5, <1>6, LoopFacts
<1>9. best'.hi <= limit' * Scale
  <2>1. CASE Improves /\ l < limit
    BY <2>1, <1>5, <1>6, <1>7
  <2>2. CASE Improves /\ ~ (l < limit)
    <3>1. hi[q] < best.lo /\ best.lo <= best.hi /\ best.hi \in Nat /\ best.lo \in Nat
      BY <2>2, LoopFacts DEF Improves
    <3>2. limit' = limit /\ best'.hi = hi[q] /\ limit * Scale \in Nat
      BY <2>2, <1>2, <1>6, <1>7, LoopFacts
    <3> QED BY <1>2, <1>3, <3>1, <3>2
  <2>3. CASE ~ Improves
    BY <2>3, <1>2, <1>6
  <2> QED BY <2>1, <2>2, <2>3
<1>10. \A k \in 1 .. q' - 1 : best'.lo <= hi'[k]
  <2> SUFFICES ASSUME NEW k \in 1 .. q PROVE best'.lo <= hi[k]
    BY <1>1, <1>2
  <2>1. hi[k] \in Nat /\ best.lo \in Nat /\ k <= MaxQ
    BY <1>2, LoopFacts
  <2>2. k # q => best.lo <= hi[k]
    BY <1>2
  <2>3. CASE Improves
    BY <2>1, <2>2, <2>3, <1>3, <1>7 DEF Improves
  <2>4. CASE ~ Improves
    BY <2>1, <2>2, <2>4, <1>3, <1>6 DEF Improves
  <2> QED BY <2>3, <2>4
<1>11. /\ q' \in 0 .. MaxQ + 1 /\ limit' \in 0 .. MaxQ + 1
       /\ enumerated' \in 0 .. MaxQ /\ upper' \in 0 .. MaxQ
       /\ q' >= 2 /\ limit' >= 1 /\ enumerated' = q' - 1
  <2>1. MaxQ \in Nat
    BY LoopFacts
  <2>2. q' = q + 1 /\ enumerated' = q
    <3>1. q \in Int /\ enumerated = q - 1 /\ enumerated' = enumerated + 1 /\ q' = q + 1
      BY <1>1, <1>2, <2>1
    <3> QED BY <3>1
  <2>3. q' \in 0 .. MaxQ + 1 /\ enumerated' \in 0 .. MaxQ /\ q' >= 2 /\ enumerated' = q' - 1
    BY <1>2, <2>1, <2>2
  <2>4. limit' \in 0 .. MaxQ + 1 /\ upper' \in 0 .. MaxQ /\ limit' >= 1
    <3>1. limit' \in 0 .. MaxQ + 1 /\ limit' >= 1
      BY <1>8, <2>1
    <3>2. \A x \in 1 .. MaxQ + 1 : x - 1 \in 0 .. MaxQ
      BY <2>1
    <3>3. upper' \in 0 .. MaxQ
      BY <1>8, <3>2, Zenon
    <3> QED BY <3>1, <3>3
  <2> QED BY <2>3, <2>4
<1>12. TypeOK'
  BY <1>1, <1>7, <1>11 DEF LoopInv, TypeOK
<1> QED BY <1>1, <1>4, <1>7, <1>8, <1>9, <1>10, <1>11, <1>12 DEF LoopInv

LEMMA LoopStep == LoopInv /\ [LinfNext]_linfVars => LoopInv'
<1> SUFFICES ASSUME LoopInv, [LinfNext]_linfVars PROVE LoopInv'
  OBVIOUS
<1>1. CASE Start
  BY <1>1, StartKeeps
<1>2. CASE Try
  BY <1>2, TryKeeps
<1>3. CASE Finish
  <2>1. /\ step = "loop" /\ step' = "done" /\ q >= limit
        /\ UNCHANGED <<lo, hi, initialQ, best, q, limit, enumerated, upper, rc>>
    BY <1>3 DEF Finish, input
  <2>2. TypeOK' /\ Enclosures'
    BY <2>1 DEF LoopInv, TypeOK, Enclosures, LimitFor
  <2> QED BY <2>1, <2>2 DEF LoopInv
<1>4. CASE UNCHANGED linfVars
  <2>1. UNCHANGED <<lo, hi, initialQ, best, q, limit, enumerated, upper, step, rc>>
    BY <1>4 DEF linfVars, input
  <2>2. TypeOK' /\ Enclosures'
    BY <2>1 DEF LoopInv, TypeOK, Enclosures, LimitFor
  <2> QED BY <2>1, <2>2 DEF LoopInv
<1> QED BY <1>1, <1>2, <1>3, <1>4 DEF LinfNext

\* The inductive invariant of the search, for all of the constants.
THEOREM LoopInvariant == LinfSpec => []LoopInv
<1>1. LinfInit => LoopInv
  BY LoopInit
<1>2. LoopInv /\ [LinfNext]_linfVars => LoopInv'
  BY LoopStep
<1> QED BY <1>1, <1>2, PTL DEF LinfSpec

\* A finished search has visited denominator 1.
LEMMA LoopShortest == LoopInv => Shortest
<1> SUFFICES ASSUME LoopInv, step = "done", rc = 0
             PROVE  /\ best.q # 0
                    /\ \A k \in 0 .. MaxQ : best.lo <= hi[k]
                    /\ (\A k \in 0 .. MaxQ : lo[k] = hi[k])
                         => \A k \in 0 .. MaxQ : hi[best.q] <= hi[k]
                    /\ enumerated >= upper
                    /\ \A k \in upper + 1 .. MaxQ : best.hi <= lo[k]
  BY DEF Shortest
<1>1. /\ q \in Nat /\ limit \in Nat /\ q >= limit /\ limit >= 1
      /\ upper = limit - 1 /\ enumerated = q - 1
      /\ (q = 1 => limit >= 2)
      /\ best.hi <= limit * Scale
      /\ \A k \in 1 .. q - 1 : best.lo <= hi[k]
  BY LoopFacts DEF LoopInv, TypeOK
<1>2. best.lo <= hi[1] /\ hi[1] < lo[0] /\ hi[1] \in Nat /\ lo[0] \in Nat
  <2>1. 1 \in 1 .. q - 1
    BY <1>1
  <2>2. hi[1] < lo[0]
    BY DEF LoopInv, Enclosures
  <2> QED BY <1>1, <2>1, <2>2, LoopFacts
<1>3. best.q # 0
  BY <1>2, LoopFacts
<1>4. \A k \in limit .. MaxQ : best.hi <= lo[k]
  <2> SUFFICES ASSUME NEW k \in limit .. MaxQ PROVE best.hi <= lo[k]
    OBVIOUS
  <2>1. k \in 1 .. MaxQ /\ k \in Nat /\ limit <= k
    BY <1>1, LoopFacts
  <2>2. k * Scale <= lo[k]
    BY <2>1 DEF LoopInv, Enclosures
  <2>3. limit * Scale <= k * Scale
    BY <1>1, <2>1, ScaleMonotone
  <2>4. limit * Scale \in Nat /\ k * Scale \in Nat /\ lo[k] \in Nat /\ best.hi \in Nat
    BY <1>1, <2>1, LoopFacts
  <2> QED BY <1>1, <2>2, <2>3, <2>4
<1>5. \A k \in 0 .. MaxQ : best.lo <= hi[k]
  <2> SUFFICES ASSUME NEW k \in 0 .. MaxQ PROVE best.lo <= hi[k]
    OBVIOUS
  <2>1. lo[k] \in Nat /\ hi[k] \in Nat /\ lo[k] <= hi[k]
    BY LoopFacts
  <2>2. CASE k = 0
    BY <1>2, <2>1, <2>2, LoopFacts
  <2>3. CASE k \in 1 .. q - 1
    BY <1>1, <2>3
  <2>4. CASE k \in limit .. MaxQ
    BY <1>4, <2>1, <2>4, LoopFacts
  <2>5. k = 0 \/ k \in 1 .. q - 1 \/ k \in limit .. MaxQ
    BY <1>1, LoopFacts
  <2> QED BY <2>2, <2>3, <2>4, <2>5
<1>6. (\A k \in 0 .. MaxQ : lo[k] = hi[k]) => \A k \in 0 .. MaxQ : hi[best.q] <= hi[k]
  BY <1>5, LoopFacts
<1>7. enumerated >= upper /\ upper + 1 = limit
  BY <1>1
<1> QED BY <1>3, <1>4, <1>5, <1>6, <1>7

\* A certified result of sda_exact_linf_sda_solve is a shortest vector up to
\* the width of the enclosures, whatever vector the search started from.
THEOREM SearchFindsShortest == LinfSpec => []Shortest
<1>1. LinfSpec => []LoopInv
  BY LoopInvariant
<1>2. LoopInv => Shortest
  BY LoopShortest
<1> QED BY <1>1, <1>2, PTL

(***************************************************************************)
(* Numbers: induction over a set, least and greatest elements, powers.     *)
(***************************************************************************)

\* A set that holds 0 and the successor of every natural number it holds holds
\* them all.
LEMMA NatSetInduction ==
  ASSUME NEW T, 0 \in T, \A k \in T : k \in Nat => k + 1 \in T
  PROVE  Nat \subseteq T
<1> SUFFICES ASSUME Nat \ T # {} PROVE FALSE
  OBVIOUS
<1>1. PICK x \in Nat \ T : \A y \in Nat \ T : ~ (<<y, x>> \in OpToRel(<, Nat))
  <2>1. Nat \ T \subseteq Nat
    OBVIOUS
  <2> QED BY <2>1, NatLessThanWellFounded, WFMin
<1>2. x \in Nat /\ x \notin T /\ x # 0
  OBVIOUS
<1>3. x - 1 \in Nat /\ x - 1 < x /\ (x - 1) + 1 = x
  BY <1>2
<1>4. x - 1 \in T
  BY <1>1, <1>3 DEF OpToRel
<1> QED BY <1>2, <1>3, <1>4

\* A set of natural numbers has a least element, and Min is it.
LEMMA MinOfNats ==
  ASSUME NEW S \in SUBSET Nat, S # {}
  PROVE  Min(S) \in S /\ \A y \in S : Min(S) <= y
<1>1. PICK x \in S : \A y \in S : ~ (<<y, x>> \in OpToRel(<, Nat))
  BY NatLessThanWellFounded, WFMin
<1>2. \A y \in S : x <= y
  <2> SUFFICES ASSUME NEW y \in S PROVE x <= y
    OBVIOUS
  <2>1. ~ (y < x)
    BY <1>1 DEF OpToRel
  <2>2. x \in Nat /\ y \in Nat
    OBVIOUS
  <2> QED BY <2>1, <2>2
<1> QED BY <1>2 DEF Min

\* Powers of two count the subsets of an interval.
LEMMA PowerIsNat ==
  ASSUME NEW k \in Nat
  PROVE  2 ^ k \in Nat
<1>1. IsFiniteSet(1 .. k) /\ Cardinality(1 .. k) = k
  BY FS_Interval
<1>2. IsFiniteSet(SUBSET (1 .. k)) /\ Cardinality(SUBSET (1 .. k)) = 2 ^ k
  BY <1>1, FS_SUBSET
<1> QED BY <1>2, FS_CardinalityType

(***************************************************************************)
(* TableGeneration: the order of the candidates and what the grid selects. *)
(***************************************************************************)

\* The problem of a run of the two programs.
ProblemOK ==
  /\ mode \in {"grid", "all", "epsilon"}
  /\ requested \in Seq(Range(requested))
  /\ solve \in [Range(requested) -> [1 .. Trials -> SolverResults]]
  /\ quality \in [{s \in SolverResults : StructurallyValid(s)} -> Qualities]

\* a is at least as good as b: in its denominator, then its metrics, then its
\* epsilon.
AtLeastAsGood(a, b) ==
  /\ b.q >= a.q
  /\ b.q = a.q => b.sd >= a.sd
  /\ b.q = a.q /\ b.sd = a.sd => b.rd >= a.rd
  /\ b.q = a.q /\ b.sd = a.sd /\ b.rd = a.rd => b.err >= a.err
  /\ b.q = a.q /\ b.sd = a.sd /\ b.rd = a.rd /\ b.err = a.err => b.eps >= a.eps

\* The fields of a candidate that its place in the order depends on.
Ranked(c) ==
  /\ c.q \in Nat \ {0} /\ c.p \in Seq(Nat)
  /\ c.sd \in Nat /\ c.rd \in Nat /\ c.err \in Nat /\ c.eps \in Nat
  /\ 2 ^ DrawBits(c.q) - c.q \in Int

\* A denominator below 2^K is drawn with at most K bits.
LEMMA DrawBitsType ==
  ASSUME NEW x \in Nat, x < 2 ^ K
  PROVE  2 ^ DrawBits(x) \in Nat
<1> DEFINE S == {b \in 0 .. K : x <= 2 ^ b}
<1>1. K \in Nat /\ 2 ^ K \in Nat
  BY GenerationAssumption, PowerIsNat
<1>2. K \in S
  BY <1>1
<1>3. S \in SUBSET Nat /\ S # {}
  BY <1>1, <1>2
<1>4. Min(S) \in S
  BY <1>3, MinOfNats
<1>5. DrawBits(x) = Min(S)
  BY DEF DrawBits
<1>6. DrawBits(x) \in Nat
  BY <1>1, <1>4, <1>5
<1> QED BY <1>6, PowerIsNat

\* A valid vector makes a candidate, any other none.
LEMMA CandidateFacts ==
  ASSUME ProblemOK, NEW s \in SolverResults, NEW eps \in Nat
  PROVE  LET c == CandidateOf(s, eps) IN
           /\ StructurallyValid(s) => Ranked(c) /\ c.eps = eps
           /\ ~ StructurallyValid(s) => c = NoResult /\ c.q = 0
<1> DEFINE c == CandidateOf(s, eps)
           m == quality[s]
<1>1. CASE StructurallyValid(s)
  <2>1. s.q \in Nat /\ s.p \in Seq(Nat)
    BY GenerationAssumption
  <2>2. s.q > 0 /\ s.q < 2 ^ K
    BY <1>1 DEF StructurallyValid
  <2>3. m \in Qualities
    BY <1>1 DEF ProblemOK
  <2>4. m.sd \in Nat /\ m.rd \in Nat /\ m.err \in Nat
    BY <2>3, GenerationAssumption
  <2>5. c = [q |-> s.q, p |-> s.p, eps |-> eps, dominance |-> Dominates(s),
             sd |-> m.sd, rd |-> m.rd, err |-> m.err]
    BY <1>1 DEF CandidateOf
  <2>6. /\ c.q = s.q /\ c.p = s.p /\ c.eps = eps
        /\ c.sd = m.sd /\ c.rd = m.rd /\ c.err = m.err
    BY <2>5
  <2>7. 2 ^ DrawBits(s.q) \in Nat
    BY <2>1, <2>2, DrawBitsType
  <2>8. 2 ^ DrawBits(s.q) - s.q \in Int
    BY <2>1, <2>7
  <2>9. Ranked(c)
    BY <2>1, <2>2, <2>4, <2>6, <2>8 DEF Ranked
  <2> QED BY <1>1, <2>6, <2>9
<1>2. CASE ~ StructurallyValid(s)
  <2>1. c = NoResult
    BY <1>2 DEF CandidateOf
  <2>2. c.q = 0
    BY <2>1 DEF NoResult
  <2> QED BY <1>2, <2>1, <2>2
<1> QED BY <1>1, <1>2

\* The entries of a key that can differ: the masses come after the epsilon.
LEMMA KeyEntries ==
  ASSUME NEW c, Ranked(c)
  PROVE  /\ Key(c)[1] = c.q /\ Key(c)[2] = 2 ^ DrawBits(c.q) - c.q
         /\ Key(c)[3] = c.sd /\ Key(c)[4] = c.rd /\ Key(c)[5] = c.err /\ Key(c)[6] = c.eps
         /\ DOMAIN Key(c) \subseteq Nat \ {0} /\ 1 .. 6 \subseteq DOMAIN Key(c)
<1> DEFINE g == 2 ^ DrawBits(c.q) - c.q
           h == <<c.q, g, c.sd, c.rd, c.err, c.eps>>
<1>1. h \in Seq(Int) /\ Len(h) = 6 /\ c.p \in Seq(Int)
  BY DEF Ranked
<1>2. Key(c) = h \o c.p
  BY DEF Key
<1>3. /\ h[1] = c.q /\ h[2] = g /\ h[3] = c.sd /\ h[4] = c.rd /\ h[5] = c.err /\ h[6] = c.eps
  OBVIOUS
<1> DEFINE w == c.p
<1>4. w \in Seq(Int) /\ h \in Seq(Int) /\ Len(h) = 6 /\ Key(c) = h \o w
  BY <1>1, <1>2
<1> HIDE DEF h, w
<1>5. Len(w) \in Nat
  BY <1>4
<1>c. /\ h \o w \in Seq(Int) /\ Len(h \o w) = Len(h) + Len(w)
      /\ \A i \in 1 .. Len(h) + Len(w) :
           (h \o w)[i] = IF i <= Len(h) THEN h[i] ELSE w[i - Len(h)]
  BY <1>4, ConcatProperties
<1>6. DOMAIN Key(c) = 1 .. 6 + Len(w)
  BY <1>4, <1>c
<1>7. \A i \in 1 .. 6 : Key(c)[i] = h[i]
  BY <1>4, <1>5, <1>c
<1>8. DOMAIN Key(c) \subseteq Nat \ {0} /\ 1 .. 6 \subseteq DOMAIN Key(c)
  BY <1>5, <1>6
<1>9. /\ Key(c)[1] = h[1] /\ Key(c)[2] = h[2] /\ Key(c)[3] = h[3]
      /\ Key(c)[4] = h[4] /\ Key(c)[5] = h[5] /\ Key(c)[6] = h[6]
  BY <1>7
<1> QED BY <1>3, <1>8, <1>9

\* BetterMinQ decides which of two candidates of different epsilons is at least
\* as good as the other.
LEMMA BetterOrders ==
  ASSUME NEW c, NEW b, Ranked(c), Ranked(b), c.eps # b.eps
  PROVE  IF BetterMinQ(c, b) THEN AtLeastAsGood(c, b) ELSE AtLeastAsGood(b, c)
<1> DEFINE u == Key(c)
           v == Key(b)
<1>1. /\ u[1] = c.q /\ u[3] = c.sd /\ u[4] = c.rd /\ u[5] = c.err /\ u[6] = c.eps
      /\ v[1] = b.q /\ v[3] = b.sd /\ v[4] = b.rd /\ v[5] = b.err /\ v[6] = b.eps
      /\ u[2] = 2 ^ DrawBits(c.q) - c.q /\ v[2] = 2 ^ DrawBits(b.q) - b.q
      /\ DOMAIN u \subseteq Nat \ {0} /\ 1 .. 6 \subseteq DOMAIN u
  BY KeyEntries
<1>2. /\ u[1] \in Nat /\ u[3] \in Nat /\ u[4] \in Nat /\ u[5] \in Nat /\ u[6] \in Nat
      /\ v[1] \in Nat /\ v[3] \in Nat /\ v[4] \in Nat /\ v[5] \in Nat /\ v[6] \in Nat
      /\ u[2] \in Int /\ v[2] \in Int
  BY <1>1 DEF Ranked
<1>3. u[1] = v[1] => u[2] = v[2]
  BY <1>1
<1>4. BetterMinQ(c, b) <=> LexLess(u, v)
  BY DEF BetterMinQ, Ranked
<1>5. u[6] # v[6]
  BY <1>1
<1>6. LexLess(u, v) <=>
        \E j \in DOMAIN u : u[j] < v[j] /\ \A i \in 1 .. j - 1 : u[i] = v[i]
  BY DEF LexLess
<1>7. AtLeastAsGood(c, b) <=>
        /\ v[1] >= u[1]
        /\ v[1] = u[1] => v[3] >= u[3]
        /\ v[1] = u[1] /\ v[3] = u[3] => v[4] >= u[4]
        /\ v[1] = u[1] /\ v[3] = u[3] /\ v[4] = u[4] => v[5] >= u[5]
        /\ v[1] = u[1] /\ v[3] = u[3] /\ v[4] = u[4] /\ v[5] = u[5] => v[6] >= u[6]
  BY <1>1 DEF AtLeastAsGood
<1>8. AtLeastAsGood(b, c) <=>
        /\ u[1] >= v[1]
        /\ u[1] = v[1] => u[3] >= v[3]
        /\ u[1] = v[1] /\ u[3] = v[3] => u[4] >= v[4]
        /\ u[1] = v[1] /\ u[3] = v[3] /\ u[4] = v[4] => u[5] >= v[5]
        /\ u[1] = v[1] /\ u[3] = v[3] /\ u[4] = v[4] /\ u[5] = v[5] => u[6] >= v[6]
  BY <1>1 DEF AtLeastAsGood
<1> HIDE DEF u, v
<1>9. CASE LexLess(u, v)
  <2>1. PICK j \in DOMAIN u : u[j] < v[j] /\ \A i \in 1 .. j - 1 : u[i] = v[i]
    BY <1>6, <1>9
  <2>2. j \in Nat \ {0}
    BY <1>1
  <2>3. j <= 6
    BY <1>5, <2>1, <2>2
  <2>4. j \in {1, 2, 3, 4, 5, 6}
    BY <2>2, <2>3
  <2>5. \A i \in 1 .. 6 : i < j => u[i] = v[i]
    BY <2>1, <2>2
  <2>6. /\ 1 < j => u[1] = v[1]
        /\ 3 < j => u[3] = v[3]
        /\ 4 < j => u[4] = v[4]
        /\ 5 < j => u[5] = v[5]
    BY <2>5
  <2>7. j # 2
    BY <1>2, <1>3, <2>1, <2>6
  <2>8. AtLeastAsGood(c, b)
    BY <1>2, <1>7, <2>1, <2>4, <2>6, <2>7
  <2> QED BY <1>4, <1>9, <2>8
<1>10. CASE ~ LexLess(u, v)
  <2>1. \A j \in 1 .. 6 : ~ (u[j] < v[j] /\ \A i \in 1 .. j - 1 : u[i] = v[i])
    BY <1>1, <1>6, <1>10
  <2>2. ~ (u[1] < v[1])
    BY <2>1
  <2>3. ~ (u[1] = v[1] /\ u[3] < v[3])
    <3> SUFFICES ASSUME u[1] = v[1], u[3] < v[3] PROVE FALSE
      OBVIOUS
    <3>1. \A i \in 1 .. 3 - 1 : u[i] = v[i]
      <4>1. 1 .. 3 - 1 = {1, 2}
        OBVIOUS
      <4> QED BY <1>3, <4>1
    <3> QED BY <2>1, <3>1
  <2>4. ~ (u[1] = v[1] /\ u[3] = v[3] /\ u[4] < v[4])
    <3> SUFFICES ASSUME u[1] = v[1], u[3] = v[3], u[4] < v[4] PROVE FALSE
      OBVIOUS
    <3>1. \A i \in 1 .. 4 - 1 : u[i] = v[i]
      <4>1. 1 .. 4 - 1 = {1, 2, 3}
        OBVIOUS
      <4> QED BY <1>3, <4>1
    <3> QED BY <2>1, <3>1
  <2>5. ~ (u[1] = v[1] /\ u[3] = v[3] /\ u[4] = v[4] /\ u[5] < v[5])
    <3> SUFFICES ASSUME u[1] = v[1], u[3] = v[3], u[4] = v[4], u[5] < v[5] PROVE FALSE
      OBVIOUS
    <3>1. \A i \in 1 .. 5 - 1 : u[i] = v[i]
      <4>1. 1 .. 5 - 1 = {1, 2, 3, 4}
        OBVIOUS
      <4> QED BY <1>3, <4>1
    <3> QED BY <2>1, <3>1
  <2>6. ~ (u[1] = v[1] /\ u[3] = v[3] /\ u[4] = v[4] /\ u[5] = v[5] /\ u[6] < v[6])
    <3> SUFFICES ASSUME u[1] = v[1], u[3] = v[3], u[4] = v[4], u[5] = v[5], u[6] < v[6]
                 PROVE  FALSE
      OBVIOUS
    <3>1. \A i \in 1 .. 6 - 1 : u[i] = v[i]
      <4>1. 1 .. 6 - 1 = {1, 2, 3, 4, 5}
        OBVIOUS
      <4> QED BY <1>3, <4>1
    <3> QED BY <2>1, <3>1
  <2>7. AtLeastAsGood(b, c)
    BY <1>2, <1>8, <2>2, <2>3, <2>4, <2>5, <2>6
  <2> QED BY <1>4, <1>10, <2>7
<1> QED BY <1>9, <1>10

\* The order is transitive and reflexive.
LEMMA GoodTransitive ==
  ASSUME NEW a, NEW b, NEW c, Ranked(a), Ranked(b), Ranked(c),
         AtLeastAsGood(a, b), AtLeastAsGood(b, c)
  PROVE  AtLeastAsGood(a, c)
<1>1. /\ a.q \in Nat /\ a.sd \in Nat /\ a.rd \in Nat /\ a.err \in Nat /\ a.eps \in Nat
      /\ b.q \in Nat /\ b.sd \in Nat /\ b.rd \in Nat /\ b.err \in Nat /\ b.eps \in Nat
      /\ c.q \in Nat /\ c.sd \in Nat /\ c.rd \in Nat /\ c.err \in Nat /\ c.eps \in Nat
  BY DEF Ranked
<1> QED BY <1>1 DEF AtLeastAsGood

LEMMA GoodReflexive ==
  ASSUME NEW a, Ranked(a)
  PROVE  AtLeastAsGood(a, a)
BY DEF Ranked, AtLeastAsGood

\* The valid entries of a parameter set's grid, and the candidate of one.
GridValid(name) == {u \in 1 .. Trials : StructurallyValid(solve[name][u])}
GridCandidate(name, u) == CandidateOf(solve[name][u], u)

\* One turn of the loop, for any function in the place of the recursion.
KeptBody(name, f, t) ==
  IF t = 0 THEN NoResult
  ELSE LET c == CandidateOf(solve[name][t], t)
           b == f[t - 1] IN
         IF c.q # 0 /\ BetterMinQ(c, b) THEN c ELSE b

\* The recursion of the loop has a solution, extended one epsilon at a time.
LEMMA KeptExists ==
  ASSUME NEW name
  PROVE  \E f : f = [t \in 0 .. Trials |-> KeptBody(name, f, t)]
<1> DEFINE D == 0 .. Trials
           Solves(f, j) == f = [t \in D |-> f[t]]
                           /\ \A t \in D : t <= j => f[t] = KeptBody(name, f, t)
           T == {j \in Nat : \E f : Solves(f, j)}
<1>t. Trials \in Nat
  BY GenerationAssumption
<1>1. 0 \in T
  <2> DEFINE e == [t \in D |-> NoResult]
  <2>1. e = [t \in D |-> e[t]]
    OBVIOUS
  <2>2. \A t \in D : t <= 0 => e[t] = KeptBody(name, e, t)
    BY <1>t DEF KeptBody
  <2>3. Solves(e, 0)
    BY <2>1, <2>2
  <2> QED BY <2>3
<1>2. \A j \in T : j \in Nat => j + 1 \in T
  <2> SUFFICES ASSUME NEW j \in T PROVE \E f : Solves(f, j + 1)
    OBVIOUS
  <2>1. j \in Nat
    OBVIOUS
  <2>2. PICK f : Solves(f, j)
    OBVIOUS
  <2> DEFINE m == j + 1
             g == [t \in D |-> IF t = m THEN KeptBody(name, f, m) ELSE f[t]]
  <2>3. \A t \in D : t # m => g[t] = f[t]
    OBVIOUS
  <2>4. g = [t \in D |-> g[t]]
    OBVIOUS
  <2>5. \A t \in D : t <= m => g[t] = KeptBody(name, g, t)
    <3> SUFFICES ASSUME NEW t \in D, t <= m PROVE g[t] = KeptBody(name, g, t)
      OBVIOUS
    <3>1. t \in Nat /\ t <= Trials
      BY <1>t
    <3>2. KeptBody(name, g, t) = KeptBody(name, f, t)
      <4>1. CASE t = 0
        BY <4>1 DEF KeptBody
      <4>2. CASE t # 0
        <5>1. t - 1 \in D /\ t - 1 # m
          BY <1>t, <2>1, <3>1, <4>2
        <5>2. g[t - 1] = f[t - 1]
          BY <2>3, <5>1
        <5> HIDE DEF g
        <5> QED BY <5>2 DEF KeptBody
      <4> QED BY <4>1, <4>2
    <3>3. CASE t = m
      BY <3>2, <3>3
    <3>4. CASE t # m
      <4>1. t <= j
        BY <2>1, <3>1, <3>4
      <4>2. f[t] = KeptBody(name, f, t)
        BY <2>2, <4>1
      <4>3. g[t] = f[t]
        BY <2>3, <3>4
      <4> QED BY <3>2, <4>2, <4>3
    <3> QED BY <3>3, <3>4
  <2>6. Solves(g, m)
    BY <2>4, <2>5
  <2> HIDE DEF g, Solves
  <2> QED BY <2>6
<1>3. Trials \in T
  <2> HIDE DEF T
  <2> QED BY <1>t, <1>1, <1>2, NatSetInduction
<1>4. PICK f : Solves(f, Trials)
  BY <1>3
<1>5. \A t \in D : f[t] = KeptBody(name, f, t)
  BY <1>t, <1>4
<1>6. f = [t \in D |-> KeptBody(name, f, t)]
  BY <1>4, <1>5
<1> QED BY <1>6

LEMMA KeptStep ==
  ASSUME NEW name, NEW t \in 0 .. Trials
  PROVE  BestOf(name)[t] = KeptBody(name, BestOf(name), t)
<1>1. BestOf(name) = CHOOSE f : f = [u \in 0 .. Trials |-> KeptBody(name, f, u)]
  BY DEF BestOf, KeptBody
<1>2. BestOf(name) = [u \in 0 .. Trials |-> KeptBody(name, BestOf(name), u)]
  BY <1>1, KeptExists
<1> QED BY <1>2

\* What the loop keeps after t epsilons.
KeptFacts(name, t) ==
  LET r == BestOf(name)[t] IN
    \/ r = NoResult /\ GridValid(name) \intersect (1 .. t) = {}
    \/ \E u \in GridValid(name) \intersect (1 .. t) :
         /\ r = GridCandidate(name, u)
         /\ \A w \in GridValid(name) \intersect (1 .. t) :
              AtLeastAsGood(r, GridCandidate(name, w))

\* The candidates of a grid are ranked, and have an epsilon each.
LEMMA GridFacts ==
  ASSUME ProblemOK, NEW name \in Range(requested), NEW u \in 1 .. Trials
  PROVE  /\ solve[name][u] \in SolverResults /\ u \in Nat
         /\ u \in GridValid(name) =>
              Ranked(GridCandidate(name, u)) /\ GridCandidate(name, u).eps = u
         /\ u \notin GridValid(name) => GridCandidate(name, u) = NoResult
<1>1. solve[name][u] \in SolverResults
  BY DEF ProblemOK
<1>2. u \in Nat
  BY GenerationAssumption
<1> QED BY <1>1, <1>2, CandidateFacts DEF GridValid, GridCandidate

LEMMA KeptIsBest ==
  ASSUME ProblemOK, NEW name \in Range(requested)
  PROVE  \A t \in 0 .. Trials : KeptFacts(name, t)
<1> DEFINE V == GridValid(name)
           G(u) == GridCandidate(name, u)
           r(t) == BestOf(name)[t]
           T == {t \in Nat : t <= Trials => KeptFacts(name, t)}
<1>t. Trials \in Nat
  BY GenerationAssumption
<1>1. 0 \in T
  <2>1. r(0) = NoResult
    BY <1>t, KeptStep DEF KeptBody
  <2>2. V \intersect (1 .. 0) = {}
    OBVIOUS
  <2>3. KeptFacts(name, 0)
    BY <2>1, <2>2 DEF KeptFacts
  <2> QED BY <2>3
<1>2. \A j \in T : j \in Nat => j + 1 \in T
  <2> SUFFICES ASSUME NEW j \in T, j + 1 <= Trials PROVE KeptFacts(name, j + 1)
    OBVIOUS
  <2> DEFINE t == j + 1
  <2>1. j \in Nat /\ t \in Nat /\ t - 1 = j /\ t # 0 /\ t \in 1 .. Trials /\ t \in 0 .. Trials
    BY <1>t
  <2>2. KeptFacts(name, j)
    BY <2>1, <1>t
  <2>3. r(t) = IF G(t).q # 0 /\ BetterMinQ(G(t), r(j)) THEN G(t) ELSE r(j)
    BY <2>1, KeptStep DEF KeptBody, GridCandidate
  <2>4. V \intersect (1 .. t) = (V \intersect (1 .. j)) \union (V \intersect {t})
    <3>1. 1 .. t = 1 .. j \union {t}
      BY <2>1
    <3> QED BY <3>1
  <2>5. \A u \in V : u \in Nat /\ Ranked(G(u)) /\ G(u).eps = u
    BY GridFacts DEF GridValid
  <2>6. CASE t \notin V
    <3>1. G(t) = NoResult
      BY <2>1, <2>6, GridFacts
    <3>2. r(t) = r(j)
      BY <2>3, <3>1 DEF NoResult
    <3>3. V \intersect (1 .. t) = V \intersect (1 .. j)
      BY <2>4, <2>6
    <3> QED BY <2>2, <3>2, <3>3 DEF KeptFacts
  <2>7. CASE t \in V
    <3>1. Ranked(G(t)) /\ G(t).eps = t
      BY <2>5, <2>7
    <3>2. G(t).q # 0
      BY <3>1 DEF Ranked
    <3>3. AtLeastAsGood(G(t), G(t))
      BY <3>1, GoodReflexive
    <3>4. CASE r(j) = NoResult /\ V \intersect (1 .. j) = {}
      <4>1. BetterMinQ(G(t), r(j))
        BY <3>4 DEF BetterMinQ, NoResult
      <4>2. r(t) = G(t)
        BY <2>3, <3>2, <4>1
      <4>3. V \intersect (1 .. t) = {t}
        BY <2>4, <2>7, <3>4
      <4> QED BY <3>3, <4>2, <4>3 DEF KeptFacts
    <3>5. ASSUME NEW u \in V \intersect (1 .. j), r(j) = G(u),
                 \A w \in V \intersect (1 .. j) : AtLeastAsGood(r(j), G(w))
          PROVE  KeptFacts(name, t)
      <4>1. u # t /\ Ranked(G(u)) /\ G(u).eps = u
        BY <2>1, <2>5, <3>5
      <4>2. u \in V \intersect (1 .. t) /\ t \in V \intersect (1 .. t)
        BY <2>4, <2>7, <3>5
      <4>3. CASE BetterMinQ(G(t), G(u))
        <5>1. r(t) = G(t)
          BY <2>3, <3>2, <3>5, <4>3
        <5>2. AtLeastAsGood(G(t), G(u))
          BY <3>1, <4>1, <4>3, BetterOrders
        <5>3. \A w \in V \intersect (1 .. t) : AtLeastAsGood(G(t), G(w))
          <6> SUFFICES ASSUME NEW w \in V \intersect (1 .. t) PROVE AtLeastAsGood(G(t), G(w))
            OBVIOUS
          <6>1. CASE w = t
            BY <3>3, <6>1
          <6>2. CASE w # t
            <7>1. w \in V \intersect (1 .. j)
              BY <2>4, <6>2
            <7>2. AtLeastAsGood(G(u), G(w)) /\ Ranked(G(w))
              BY <2>5, <3>5, <7>1
            <7> QED BY <3>1, <4>1, <5>2, <7>2, GoodTransitive
          <6> QED BY <6>1, <6>2
        <5> QED BY <4>2, <5>1, <5>3 DEF KeptFacts
      <4>4. CASE ~ BetterMinQ(G(t), G(u))
        <5>1. r(t) = G(u)
          BY <2>3, <3>5, <4>4
        <5>2. AtLeastAsGood(G(u), G(t))
          BY <3>1, <4>1, <4>4, BetterOrders
        <5>3. \A w \in V \intersect (1 .. t) : AtLeastAsGood(G(u), G(w))
          BY <2>4, <3>5, <5>2
        <5> QED BY <4>2, <5>1, <5>3 DEF KeptFacts
      <4> QED BY <4>3, <4>4
    <3> QED BY <2>2, <3>4, <3>5 DEF KeptFacts
  <2> QED BY <2>6, <2>7
<1>3. Nat \subseteq T
  <2> HIDE DEF T
  <2> QED BY <1>1, <1>2, NatSetInduction
<1> QED BY <1>t, <1>3

\* The vectors of IsBestOf are the candidates of the grid's valid entries.
LEMMA EligibleIsGrid ==
  ASSUME NEW name
  PROVE  Eligible(name) = {GridCandidate(name, u) : u \in GridValid(name)}
BY DEF Eligible, GridCandidate, GridValid

\* A parameter set with an eligible vector gets its best one, and it is the
\* only one that is best; one without gets none.
LEMMA SelectIsBest ==
  ASSUME ProblemOK, NEW name \in Range(requested)
  PROVE  LET r == SelectFromGrid(name) IN
           /\ Eligible(name) = {} => r.q = 0
           /\ Eligible(name) # {} => r.q # 0 /\ IsBestOf(r, name)
           /\ \A b \in Eligible(name) : IsBestOf(b, name) => b = r
<1> DEFINE r == SelectFromGrid(name)
           V == GridValid(name)
           G(u) == GridCandidate(name, u)
<1>1. KeptFacts(name, Trials) /\ r = BestOf(name)[Trials]
  BY GenerationAssumption, KeptIsBest DEF SelectFromGrid
<1>2. Eligible(name) = {G(u) : u \in V}
  BY EligibleIsGrid
<1>3. V \intersect (1 .. Trials) = V
  BY DEF GridValid
<1>4. \A u \in V : u \in Nat /\ Ranked(G(u)) /\ G(u).eps = u /\ G(u).q # 0
  <2> SUFFICES ASSUME NEW u \in V PROVE u \in Nat /\ Ranked(G(u)) /\ G(u).eps = u /\ G(u).q # 0
    OBVIOUS
  <2>1. u \in Nat /\ Ranked(G(u)) /\ G(u).eps = u
    BY GridFacts DEF GridValid
  <2> QED BY <2>1 DEF Ranked
<1>5. CASE r = NoResult /\ V = {}
  <2>1. Eligible(name) = {}
    BY <1>2, <1>5
  <2>2. r.q = 0
    BY <1>5 DEF NoResult
  <2> QED BY <2>1, <2>2
<1>6. ASSUME NEW u \in V, r = G(u), \A w \in V : AtLeastAsGood(r, G(w))
      PROVE  /\ Eligible(name) # {} /\ r.q # 0 /\ IsBestOf(r, name)
             /\ \A b \in Eligible(name) : IsBestOf(b, name) => b = r
  <2>1. r \in Eligible(name) /\ r.q # 0
    BY <1>2, <1>4, <1>6
  <2>2. \A b \in Eligible(name) : IsBestOf(b, name) <=>
          \A c \in Eligible(name) : AtLeastAsGood(b, c)
    BY DEF IsBestOf, AtLeastAsGood
  <2>3. IsBestOf(r, name)
    BY <1>2, <1>6, <2>1, <2>2
  <2>4. ASSUME NEW b \in Eligible(name), IsBestOf(b, name) PROVE b = r
    <3>1. PICK w \in V : b = G(w)
      BY <1>2
    <3>2. AtLeastAsGood(b, r) /\ AtLeastAsGood(r, b)
      BY <1>6, <2>1, <2>2, <2>4, <3>1
    <3>3. Ranked(r) /\ Ranked(b) /\ r.eps = u /\ b.eps = w
      BY <1>4, <1>6, <3>1
    <3>4. r.eps = b.eps
      <4>1. /\ r.q \in Nat /\ r.sd \in Nat /\ r.rd \in Nat /\ r.err \in Nat /\ r.eps \in Nat
            /\ b.q \in Nat /\ b.sd \in Nat /\ b.rd \in Nat /\ b.err \in Nat /\ b.eps \in Nat
        BY <3>3 DEF Ranked
      <4> HIDE DEF r
      <4> QED BY <3>2, <4>1 DEF AtLeastAsGood
    <3> QED BY <1>6, <3>1, <3>3, <3>4
  <2> QED BY <2>1, <2>3, <2>4
<1>7. \/ r = NoResult /\ V = {}
      \/ \E u \in V : r = G(u) /\ \A w \in V : AtLeastAsGood(r, G(w))
  BY <1>1, <1>3 DEF KeptFacts
<1> QED BY <1>5, <1>6, <1>7

(***************************************************************************)
(* TableGeneration: the two programs.                                      *)
(***************************************************************************)

\* What the generation can put into a table.
Results == {NoResult} \union {CandidateOf(s, t) : s \in SolverResults, t \in 0 .. Trials}

\* The names a table can have, and the tables.
Names == Range(Params) \union {NoBaseline}
TableSet == [set : Range(requested), name : Names, r : Results]

\* What verify_one asks of a table.
Verified(t) ==
  LET r == SelectFromGrid(t.name) IN
    r.q = t.r.q /\ r.q # 0 /\ r.p = t.r.p /\ r.dominance

\* With --all a table bears the name of its set, and no other is verified.
Named ==
  /\ mode = "all" => requested = Params /\ \A k \in DOMAIN tables : tables[k].name = tables[k].set
  /\ pc = "verify" \/ verdict # -1 => mode = "all"

\* A parameter set that gets a table.
Gets(name) == name # NoBaseline /\ SelectFromGrid(name).q # 0

\* The inductive invariant: tables and failures account for what was tried, in
\* its order; a table of the grid holds what the grid selects; only the tables
\* of --all, which bear their sets' names, are verified; the flag is the
\* conjunction of the verdicts of the tables looked at.
GenerationInv ==
  /\ ProblemOK
  /\ next \in 0 .. Len(requested) /\ failures \in Nat
  /\ tables \in Seq(TableSet)
  /\ (mode = "all" \/ exit # 1) => Len(tables) + failures = next
  /\ \E at \in [DOMAIN tables -> 1 .. next] :
       /\ \A k, l \in DOMAIN tables : k < l => at[k] < at[l]
       /\ \A k \in DOMAIN tables : tables[k].set = requested[at[k]]
  /\ mode # "epsilon" =>
       /\ \A k \in DOMAIN tables :
            Gets(tables[k].set) /\ tables[k].r = SelectFromGrid(tables[k].set)
       /\ \A i \in 1 .. next :
            Gets(requested[i]) => \E k \in DOMAIN tables : tables[k].set = requested[i]
  /\ exit = 0 => Len(tables) = Len(requested)
  /\ Named
  /\ pc \in {"generate", "verify", "done"}
  /\ pc = "generate" => exit = -1 /\ checked = 0 /\ ok = TRUE
  /\ pc # "done" => verdict = -1
  /\ checked \in 0 .. Len(tables) /\ ok \in BOOLEAN
  /\ ok <=> \A k \in 1 .. checked : Verified(tables[k])
  /\ verdict # -1 => checked = Len(tables) /\ (verdict = 0 <=> ok /\ tables # <<>>)

LEMMA SelectStays ==
  ASSUME UNCHANGED problem
  PROVE  /\ \A name : SelectFromGrid(name)' = SelectFromGrid(name)
         /\ \A name : Gets(name)' <=> Gets(name)
         /\ \A t : Verified(t)' <=> Verified(t)
         /\ ProblemOK => ProblemOK'
<1> USE DEF problem
<1>1. \A s, e : CandidateOf(s, e)' = CandidateOf(s, e)
  BY DEF CandidateOf, Dominates
<1>2. \A name : SelectFromGrid(name)' = SelectFromGrid(name)
  BY <1>1 DEF SelectFromGrid, BestOf
<1>3. ProblemOK => ProblemOK'
  BY DEF ProblemOK
<1> QED BY <1>2, <1>3 DEF Gets, Verified

LEMMA SelectType ==
  ASSUME ProblemOK, NEW name \in Range(requested)
  PROVE  SelectFromGrid(name) \in Results
<1>1. KeptFacts(name, Trials) /\ Trials \in Nat
  BY GenerationAssumption, KeptIsBest
<1>2. \A u \in GridValid(name) : GridCandidate(name, u) \in Results
  <2> SUFFICES ASSUME NEW u \in GridValid(name) PROVE GridCandidate(name, u) \in Results
    OBVIOUS
  <2>1. solve[name][u] \in SolverResults /\ u \in 0 .. Trials
    BY <1>1, GridFacts DEF GridValid
  <2> QED BY <2>1 DEF GridCandidate, Results
<1> QED BY <1>1, <1>2 DEF KeptFacts, SelectFromGrid, Results

LEMMA GenerationInitially == GenerationInit => GenerationInv
<1> SUFFICES ASSUME GenerationInit PROVE GenerationInv
  OBVIOUS
<1>1. requested \in Seq(Range(requested))
  <2>1. CASE requested = Params
    BY <2>1, GenerationAssumption
  <2>2. ASSUME NEW x, requested = <<x>> PROVE requested \in Seq(Range(requested))
    <3>1. x \in Range(requested)
      BY <2>2 DEF Range
    <3> QED BY <2>2, <3>1
  <2> QED BY <2>1, <2>2 DEF GenerationInit
<1>2. ProblemOK
  BY <1>1 DEF GenerationInit, ProblemOK
<1>3. Len(requested) \in Nat
  BY <1>1
<1>4. /\ next = 0 /\ tables = <<>> /\ failures = 0 /\ exit = -1
      /\ checked = 0 /\ ok = TRUE /\ verdict = -1 /\ pc = "generate"
  BY DEF GenerationInit
<1>5. DOMAIN tables = {} /\ Len(tables) = 0 /\ 1 .. checked = {} /\ 1 .. next = {}
  BY <1>4
<1>6. tables \in Seq(TableSet)
  BY <1>4
<1>12. Named
  BY <1>4, <1>5 DEF GenerationInit, Named
<1>7. \E at \in [DOMAIN tables -> 1 .. next] :
        /\ \A k, l \in DOMAIN tables : k < l => at[k] < at[l]
        /\ \A k \in DOMAIN tables : tables[k].set = requested[at[k]]
  <2> DEFINE e == [k \in DOMAIN tables |-> 1]
  <2>1. e \in [DOMAIN tables -> 1 .. next]
    BY <1>5
  <2> HIDE DEF e
  <2> QED BY <1>5, <2>1
<1>8. ok \in BOOLEAN /\ (ok <=> \A k \in 1 .. checked : Verified(tables[k]))
  BY <1>4, <1>5, Zenon
<1>9. checked \in 0 .. Len(tables) /\ next \in 0 .. Len(requested)
  BY <1>3, <1>4, <1>5
<1>10. mode # "epsilon" =>
         /\ \A k \in DOMAIN tables :
              Gets(tables[k].set) /\ tables[k].r = SelectFromGrid(tables[k].set)
         /\ \A i \in 1 .. next :
              Gets(requested[i]) => \E k \in DOMAIN tables : tables[k].set = requested[i]
  BY <1>5
<1>11. verdict = -1 /\ exit # 0 /\ Len(tables) + failures = next /\ failures \in Nat
  BY <1>4, <1>5
<1> QED BY <1>2, <1>4, <1>6, <1>7, <1>8, <1>9, <1>10, <1>11, <1>12, Zenon DEF GenerationInv

\* What a table can be depends on the problem only.
LEMMA TableSetStays ==
  ASSUME UNCHANGED problem
  PROVE  TableSet' = TableSet
<1>1. UNCHANGED <<mode, requested, solve, quality>>
  BY DEF problem
<1>2. \A s, e : CandidateOf(s, e)' = CandidateOf(s, e)
  BY <1>1 DEF CandidateOf, Dominates
<1>3. Results' = Results
  BY <1>2 DEF Results
<1> QED BY <1>1, <1>3 DEF TableSet, Names

\* The names stay too, as long as only the tables of --all are verified.
LEMMA NamedStays ==
  ASSUME GenerationInv, UNCHANGED <<problem, tables>>,
         pc' = "verify" \/ verdict' # -1 => mode = "all"
  PROVE  Named'
BY DEF GenerationInv, Named, problem

\* A step that keeps the problem, the tables, the tries and the verification so
\* far keeps the conjuncts of the invariant that speak of nothing else.
LEMMA TablesStay ==
  ASSUME GenerationInv, UNCHANGED <<problem, next, tables, failures>>
  PROVE  /\ ProblemOK'
         /\ (next \in 0 .. Len(requested) /\ failures \in Nat)'
         /\ (tables \in Seq(TableSet))'
         /\ (\E at \in [DOMAIN tables -> 1 .. next] :
               /\ \A k, l \in DOMAIN tables : k < l => at[k] < at[l]
               /\ \A k \in DOMAIN tables : tables[k].set = requested[at[k]])'
         /\ (mode # "epsilon" =>
               /\ \A k \in DOMAIN tables :
                    Gets(tables[k].set) /\ tables[k].r = SelectFromGrid(tables[k].set)
               /\ \A i \in 1 .. next :
                    Gets(requested[i]) => \E k \in DOMAIN tables : tables[k].set = requested[i])'
<1>1. UNCHANGED <<mode, requested, solve, quality, next, tables, failures>>
  BY DEF problem
<1>2. TableSet' = TableSet
  BY TableSetStays
<1>3. /\ \A name : SelectFromGrid(name)' = SelectFromGrid(name)
      /\ \A name : Gets(name)' <=> Gets(name)
      /\ ProblemOK'
  BY SelectStays DEF GenerationInv
<1>4. (next \in 0 .. Len(requested) /\ failures \in Nat)'
  BY <1>1 DEF GenerationInv
<1>5. (tables \in Seq(TableSet))'
  BY <1>1, <1>2 DEF GenerationInv
<1>6. (\E at \in [DOMAIN tables -> 1 .. next] :
         /\ \A k, l \in DOMAIN tables : k < l => at[k] < at[l]
         /\ \A k \in DOMAIN tables : tables[k].set = requested[at[k]])'
  <2>1. \E at \in [DOMAIN tables -> 1 .. next] :
          /\ \A k, l \in DOMAIN tables : k < l => at[k] < at[l]
          /\ \A k \in DOMAIN tables : tables[k].set = requested[at[k]]
    BY DEF GenerationInv
  <2>2. tables' = tables /\ next' = next /\ requested' = requested
    BY <1>1
  <2> QED BY <2>1, <2>2
<1>7. (mode # "epsilon" =>
         /\ \A k \in DOMAIN tables :
              Gets(tables[k].set) /\ tables[k].r = SelectFromGrid(tables[k].set)
         /\ \A i \in 1 .. next :
              Gets(requested[i]) => \E k \in DOMAIN tables : tables[k].set = requested[i])'
  BY <1>1, <1>3 DEF GenerationInv
<1> QED BY <1>3, <1>4, <1>5, <1>6, <1>7

\* What a try of the next parameter set leaves when it got no table.
LEMMA TryFails ==
  ASSUME GenerationInv, UNCHANGED <<problem, tables>>, next' = next + 1,
         next < Len(requested), mode # "epsilon" => ~ Gets(requested[next + 1])
  PROVE  /\ (\E at \in [DOMAIN tables -> 1 .. next] :
               /\ \A k, l \in DOMAIN tables : k < l => at[k] < at[l]
               /\ \A k \in DOMAIN tables : tables[k].set = requested[at[k]])'
         /\ (mode # "epsilon" =>
               /\ \A k \in DOMAIN tables :
                    Gets(tables[k].set) /\ tables[k].r = SelectFromGrid(tables[k].set)
               /\ \A i \in 1 .. next :
                    Gets(requested[i]) => \E k \in DOMAIN tables : tables[k].set = requested[i])'
<1>1. UNCHANGED <<mode, requested, solve, quality, tables>> /\ next \in Nat
  <2>1. next \in 0 .. Len(requested)
    BY DEF GenerationInv
  <2> QED BY <2>1 DEF problem
<1>2. /\ \A name : SelectFromGrid(name)' = SelectFromGrid(name)
      /\ \A name : Gets(name)' <=> Gets(name)
  BY SelectStays
<1>3. 1 .. next' = 1 .. next \union {next + 1}
  BY <1>1
<1>4. (\E at \in [DOMAIN tables -> 1 .. next] :
         /\ \A k, l \in DOMAIN tables : k < l => at[k] < at[l]
         /\ \A k \in DOMAIN tables : tables[k].set = requested[at[k]])'
  <2>1. PICK at \in [DOMAIN tables -> 1 .. next] :
          /\ \A k, l \in DOMAIN tables : k < l => at[k] < at[l]
          /\ \A k \in DOMAIN tables : tables[k].set = requested[at[k]]
    BY DEF GenerationInv
  <2>2. at \in [DOMAIN tables' -> 1 .. next']
    BY <1>1, <1>3
  <2> QED BY <1>1, <2>1, <2>2
<1>5. (mode # "epsilon" =>
         /\ \A k \in DOMAIN tables :
              Gets(tables[k].set) /\ tables[k].r = SelectFromGrid(tables[k].set)
         /\ \A i \in 1 .. next :
              Gets(requested[i]) => \E k \in DOMAIN tables : tables[k].set = requested[i])'
  BY <1>1, <1>2, <1>3 DEF GenerationInv
<1> QED BY <1>4, <1>5

\* And what it leaves when it got one.
LEMMA TrySucceeds ==
  ASSUME GenerationInv, UNCHANGED problem, next' = next + 1, next < Len(requested),
         NEW r \in Results, r.q # 0, NEW name \in NamesOf(requested[next + 1]),
         mode # "epsilon" => requested[next + 1] # NoBaseline /\ r = SelectFromGrid(requested[next + 1]),
         tables' = Append(tables, [set |-> requested[next + 1], name |-> name, r |-> r])
  PROVE  /\ (tables \in Seq(TableSet))'
         /\ Len(tables') = Len(tables) + 1
         /\ (mode = "all" =>
               requested = Params /\ \A k \in DOMAIN tables : tables[k].name = tables[k].set)'
         /\ (\E at \in [DOMAIN tables -> 1 .. next] :
               /\ \A k, l \in DOMAIN tables : k < l => at[k] < at[l]
               /\ \A k \in DOMAIN tables : tables[k].set = requested[at[k]])'
         /\ (mode # "epsilon" =>
               /\ \A k \in DOMAIN tables :
                    Gets(tables[k].set) /\ tables[k].r = SelectFromGrid(tables[k].set)
               /\ \A i \in 1 .. next :
                    Gets(requested[i]) => \E k \in DOMAIN tables : tables[k].set = requested[i])'
<1> DEFINE set == requested[next + 1]
           t == [set |-> set, name |-> name, r |-> r]
           m == Len(tables)
           S == TableSet
<1>1. UNCHANGED <<mode, requested, solve, quality>> /\ next \in Nat /\ m \in Nat
      /\ next + 1 \in DOMAIN requested
  <2>1. next \in 0 .. Len(requested) /\ tables \in Seq(S) /\ requested \in Seq(Range(requested))
    BY DEF GenerationInv, ProblemOK
  <2>2. next \in Nat /\ m \in Nat
    BY <2>1
  <2>3. next + 1 \in DOMAIN requested
    BY <2>1, <2>2
  <2> QED BY <2>2, <2>3 DEF problem
<1>2. /\ \A x : SelectFromGrid(x)' = SelectFromGrid(x)
      /\ \A x : Gets(x)' <=> Gets(x)
  BY SelectStays
<1>3. 1 .. next' = 1 .. next \union {next + 1}
  BY <1>1
<1>4. /\ t \in S /\ t.set = set /\ t.name = name /\ t.r = r
      /\ mode = "all" => requested = Params /\ name = set
  <2>1. mode = "all" => requested = Params
    BY DEF GenerationInv, Named
  <2>2. mode = "all" => name = set
    BY DEF NamesOf
  <2>3. set \in Range(requested)
    BY <1>1 DEF Range
  <2>4. name \in Names
    BY <2>1, <2>2, <2>3 DEF NamesOf, Names
  <2> QED BY <2>1, <2>2, <2>3, <2>4 DEF TableSet
<1>5. /\ tables' \in Seq(S) /\ Len(tables') = m + 1
      /\ DOMAIN tables = 1 .. m /\ DOMAIN tables' = 1 .. m + 1
      /\ \A k \in 1 .. m : tables'[k] = tables[k]
      /\ tables'[m + 1] = t
  <2>1. tables \in Seq(S) /\ tables' = Append(tables, t)
    BY DEF GenerationInv
  <2> HIDE DEF t, S
  <2> QED BY <1>4, <2>1
<1>6. 1 .. m + 1 = 1 .. m \union {m + 1}
  BY <1>1
<1>7. TableSet' = TableSet
  BY TableSetStays
<1>8. (tables \in Seq(TableSet))'
  BY <1>5, <1>7
<1>11. (mode = "all" =>
          requested = Params /\ \A k \in DOMAIN tables : tables[k].name = tables[k].set)'
  <2> SUFFICES ASSUME mode = "all"
               PROVE  requested = Params
                      /\ \A k \in DOMAIN tables' : tables'[k].name = tables'[k].set
    BY <1>1
  <2>1. requested = Params /\ \A k \in 1 .. m : tables[k].name = tables[k].set
    BY <1>5 DEF GenerationInv, Named
  <2>2. \A k \in 1 .. m + 1 : tables'[k].name = tables'[k].set
    <3> SUFFICES ASSUME NEW k \in 1 .. m + 1 PROVE tables'[k].name = tables'[k].set
      OBVIOUS
    <3>1. CASE k = m + 1
      BY <1>4, <1>5, <3>1
    <3>2. CASE k # m + 1
      <4>1. k \in 1 .. m
        BY <1>6, <3>2
      <4> QED BY <1>5, <2>1, <4>1
    <3> QED BY <3>1, <3>2
  <2> QED BY <1>5, <2>1, <2>2
<1>9. (\E at \in [DOMAIN tables -> 1 .. next] :
         /\ \A k, l \in DOMAIN tables : k < l => at[k] < at[l]
         /\ \A k \in DOMAIN tables : tables[k].set = requested[at[k]])'
  <2>1. PICK at \in [1 .. m -> 1 .. next] :
          /\ \A k, l \in 1 .. m : k < l => at[k] < at[l]
          /\ \A k \in 1 .. m : tables[k].set = requested[at[k]]
    <3>1. \E at \in [DOMAIN tables -> 1 .. next] :
            /\ \A k, l \in DOMAIN tables : k < l => at[k] < at[l]
            /\ \A k \in DOMAIN tables : tables[k].set = requested[at[k]]
      BY DEF GenerationInv
    <3> HIDE DEF m
    <3> QED BY <1>5, <3>1
  <2> DEFINE bt == [k \in 1 .. m + 1 |-> IF k = m + 1 THEN next + 1 ELSE at[k]]
  <2>2. /\ \A k \in 1 .. m : bt[k] = at[k] /\ at[k] \in 1 .. next
        /\ bt[m + 1] = next + 1
    BY <1>1, <1>6
  <2>3. bt \in [1 .. m + 1 -> 1 .. next']
    BY <1>1, <1>3, <1>6
  <2> HIDE DEF bt
  <2>4. \A k, l \in 1 .. m + 1 : k < l => bt[k] < bt[l]
    <3> SUFFICES ASSUME NEW k \in 1 .. m + 1, NEW l \in 1 .. m + 1, k < l
                 PROVE  bt[k] < bt[l]
      OBVIOUS
    <3>1. k \in 1 .. m
      BY <1>1
    <3>2. CASE l = m + 1
      BY <1>1, <2>2, <3>1, <3>2
    <3>3. CASE l # m + 1
      <4>1. l \in 1 .. m
        BY <1>6, <3>3
      <4> QED BY <2>1, <2>2, <3>1, <4>1
    <3> QED BY <3>2, <3>3
  <2>5. \A k \in 1 .. m + 1 : tables'[k].set = requested'[bt[k]]
    <3> SUFFICES ASSUME NEW k \in 1 .. m + 1 PROVE tables'[k].set = requested[bt[k]]
      BY <1>1
    <3>1. CASE k = m + 1
      BY <1>4, <1>5, <2>2, <3>1
    <3>2. CASE k # m + 1
      <4>1. k \in 1 .. m
        BY <1>6, <3>2
      <4> QED BY <1>5, <2>1, <2>2, <4>1
    <3> QED BY <3>1, <3>2
  <2>6. \E ct \in [DOMAIN tables' -> 1 .. next'] :
          /\ \A k, l \in DOMAIN tables' : k < l => ct[k] < ct[l]
          /\ \A k \in DOMAIN tables' : tables'[k].set = requested'[ct[k]]
    <3>1. DOMAIN tables' = 1 .. m + 1
      BY <1>5
    <3> HIDE DEF m
    <3>2. bt \in [DOMAIN tables' -> 1 .. next']
      BY <2>3, <3>1
    <3> QED BY <2>4, <2>5, <3>1, <3>2
  <2> QED BY <2>6
<1>10. ASSUME mode # "epsilon"
       PROVE  /\ \A k \in DOMAIN tables' :
                   Gets(tables'[k].set) /\ tables'[k].r = SelectFromGrid(tables'[k].set)
              /\ \A i \in 1 .. next' :
                   Gets(requested[i]) => \E k \in DOMAIN tables' : tables'[k].set = requested[i]
  <2>1. Gets(set) /\ r = SelectFromGrid(set)
    BY <1>10 DEF Gets
  <2>2. \A k \in 1 .. m : Gets(tables[k].set) /\ tables[k].r = SelectFromGrid(tables[k].set)
    BY <1>5, <1>10 DEF GenerationInv
  <2>3. \A i \in 1 .. next : Gets(requested[i]) => \E k \in 1 .. m : tables[k].set = requested[i]
    BY <1>5, <1>10 DEF GenerationInv
  <2>4. \A k \in 1 .. m + 1 :
          Gets(tables'[k].set) /\ tables'[k].r = SelectFromGrid(tables'[k].set)
    <3> SUFFICES ASSUME NEW k \in 1 .. m + 1
                 PROVE  Gets(tables'[k].set) /\ tables'[k].r = SelectFromGrid(tables'[k].set)
      OBVIOUS
    <3>1. CASE k = m + 1
      BY <1>4, <1>5, <2>1, <3>1
    <3>2. CASE k # m + 1
      <4>1. k \in 1 .. m
        BY <1>6, <3>2
      <4> QED BY <1>5, <2>2, <4>1
    <3> QED BY <3>1, <3>2
  <2>5. \A i \in 1 .. next' :
          Gets(requested[i]) => \E k \in 1 .. m + 1 : tables'[k].set = requested[i]
    <3> SUFFICES ASSUME NEW i \in 1 .. next', Gets(requested[i])
                 PROVE  \E k \in 1 .. m + 1 : tables'[k].set = requested[i]
      OBVIOUS
    <3>1. CASE i = next + 1
      BY <1>4, <1>5, <1>6, <3>1
    <3>2. CASE i # next + 1
      <4>1. PICK k \in 1 .. m : tables[k].set = requested[i]
        BY <1>3, <2>3, <3>2
      <4> QED BY <1>5, <1>6, <4>1
    <3> QED BY <3>1, <3>2
  <2> QED BY <1>5, <2>4, <2>5
<1> QED BY <1>1, <1>2, <1>5, <1>8, <1>9, <1>10, <1>11

\* A result of the generation is one of Results, and of the grid the selected.
LEMMA ResultsFacts ==
  ASSUME ProblemOK, NEW name \in Range(requested), NEW r \in ResultsOf(name)
  PROVE  /\ r \in Results
         /\ mode # "epsilon" /\ r.q # 0 => name # NoBaseline /\ r = SelectFromGrid(name)
         /\ mode # "epsilon" /\ r.q = 0 => ~ Gets(name)
<1>1. NoResult.q = 0 /\ NoResult \in Results
  BY DEF NoResult, Results
<1>2. SelectFromGrid(name) \in Results
  BY SelectType
<1>3. Trials \in Nat /\ 0 \in 0 .. Trials
  BY GenerationAssumption
<1>4. CASE name = NoBaseline
  <2>1. r = NoResult
    BY <1>4 DEF ResultsOf
  <2> QED BY <1>1, <1>4, <2>1 DEF Gets
<1>5. CASE name # NoBaseline /\ mode = "epsilon"
  <2>1. r \in {CandidateOf(s, 0) : s \in SolverResults}
    BY <1>5 DEF ResultsOf
  <2> QED BY <1>3, <1>5, <2>1 DEF Results
<1>6. CASE name # NoBaseline /\ mode # "epsilon"
  <2>1. r = SelectFromGrid(name)
    BY <1>6 DEF ResultsOf
  <2> QED BY <1>2, <1>6, <2>1 DEF Gets
<1> QED BY <1>4, <1>5, <1>6

\* The verification so far is about tables that do not change.
LEMMA VerdictsStay ==
  ASSUME GenerationInv, UNCHANGED <<problem, checked, ok>>,
         \A k \in 1 .. Len(tables) : tables'[k] = tables[k]
  PROVE  (ok \in BOOLEAN /\ (ok <=> \A k \in 1 .. checked : Verified(tables[k])))'
<1>1. ok \in BOOLEAN /\ (ok <=> \A k \in 1 .. checked : Verified(tables[k]))
  BY DEF GenerationInv
<1>2. \A k \in 1 .. checked : k \in 1 .. Len(tables)
  <2>1. checked \in 0 .. Len(tables)
    BY DEF GenerationInv
  <2>2. tables \in Seq(TableSet)
    BY DEF GenerationInv
  <2> QED BY <2>1, <2>2
<1>3. \A t : Verified(t)' <=> Verified(t)
  BY SelectStays
<1>4. \A k \in 1 .. checked : Verified(tables[k])' <=> Verified(tables[k])
  <2> SUFFICES ASSUME NEW k \in 1 .. checked PROVE Verified(tables[k])' <=> Verified(tables[k])
    OBVIOUS
  <2>1. tables'[k] = tables[k]
    BY <1>2
  <2> QED BY <2>1, SelectStays DEF Verified
<1>5. checked' = checked /\ ok' = ok
  OBVIOUS
<1>6. ok' \in BOOLEAN
  BY <1>1, <1>5, Zenon
<1>7. ok' <=> \A k \in 1 .. checked' : Verified(tables[k])'
  <2>1. ok <=> \A k \in 1 .. checked : Verified(tables[k])'
    BY <1>1, <1>4, Zenon
  <2> DEFINE V == \A k \in 1 .. checked : Verified(tables[k])'
  <2>2. ok' <=> V
    <3>1. ok <=> V
      BY <2>1
    <3> HIDE DEF V
    <3> QED BY <1>1, <1>5, <1>6, <3>1
  <2>3. 1 .. checked' = 1 .. checked
    BY <1>5
  <2>4. \A k : k \in 1 .. checked' <=> k \in 1 .. checked
    BY <2>3, Zenon
  <2> QED BY <2>2, <2>4, Zenon
<1> QED BY <1>6, <1>7

LEMMA GenerateKeeps == GenerationInv /\ GenerateOne => GenerationInv'
<1> SUFFICES ASSUME GenerationInv, GenerateOne PROVE GenerationInv'
  OBVIOUS
<1> DEFINE set == requested[next + 1]
<1>1. /\ pc = "generate" /\ next < Len(requested) /\ next' = next + 1
      /\ UNCHANGED <<problem, checked, ok, verdict>>
  BY DEF GenerateOne
<1>2. PICK r \in ResultsOf(set), name \in NamesOf(set) :
        IF r.q # 0
        THEN /\ tables' = Append(tables, [set |-> set, name |-> name, r |-> r])
             /\ UNCHANGED <<failures, exit, pc>>
        ELSE /\ IF mode = "all"
                THEN failures' = failures + 1 /\ UNCHANGED <<exit, pc>>
                ELSE exit' = 1 /\ pc' = "done" /\ UNCHANGED failures
             /\ UNCHANGED tables
  BY DEF GenerateOne
<1>3. /\ ProblemOK /\ next \in Nat /\ Len(requested) \in Nat /\ failures \in Nat
      /\ tables \in Seq(TableSet) /\ Len(tables) \in Nat
      /\ exit = -1 /\ checked = 0 /\ ok = TRUE /\ verdict = -1
      /\ Len(tables) + failures = next
  <2>1. ProblemOK /\ next \in 0 .. Len(requested) /\ failures \in Nat
        /\ tables \in Seq(TableSet)
    BY DEF GenerationInv
  <2>2. Len(requested) \in Nat /\ Len(tables) \in Nat
    BY <2>1 DEF ProblemOK
  <2>3. exit = -1 /\ checked = 0 /\ ok = TRUE /\ verdict = -1
    BY <1>1 DEF GenerationInv
  <2>4. Len(tables) + failures = next
    BY <2>3 DEF GenerationInv
  <2> QED BY <2>1, <2>2, <2>3, <2>4
<1>4. set \in Range(requested)
  <2>1. next + 1 \in DOMAIN requested
    BY <1>1, <1>3 DEF ProblemOK
  <2> QED BY <2>1 DEF Range
<1>5. /\ r \in Results
      /\ mode # "epsilon" /\ r.q # 0 => set # NoBaseline /\ r = SelectFromGrid(set)
      /\ mode # "epsilon" /\ r.q = 0 => ~ Gets(set)
  BY <1>3, <1>4, ResultsFacts
<1>6. /\ ProblemOK'
      /\ \A x : Gets(x)' <=> Gets(x)
      /\ requested' = requested /\ mode' = mode
  BY <1>1, <1>3, SelectStays DEF problem
<1>7. next' \in 0 .. Len(requested')
  BY <1>1, <1>3, <1>6
<1>8. CASE r.q # 0
  <2>1. /\ tables' = Append(tables, [set |-> set, name |-> name, r |-> r])
        /\ UNCHANGED <<failures, exit, pc>>
    BY <1>2, <1>8
  <2>2. /\ (tables \in Seq(TableSet))'
        /\ Len(tables') = Len(tables) + 1
        /\ (mode = "all" =>
              requested = Params /\ \A k \in DOMAIN tables : tables[k].name = tables[k].set)'
        /\ (\E at \in [DOMAIN tables -> 1 .. next] :
              /\ \A k, l \in DOMAIN tables : k < l => at[k] < at[l]
              /\ \A k \in DOMAIN tables : tables[k].set = requested[at[k]])'
        /\ (mode # "epsilon" =>
              /\ \A k \in DOMAIN tables :
                   Gets(tables[k].set) /\ tables[k].r = SelectFromGrid(tables[k].set)
              /\ \A i \in 1 .. next :
                   Gets(requested[i]) => \E k \in DOMAIN tables : tables[k].set = requested[i])'
    BY <1>1, <1>5, <1>8, <2>1, TrySucceeds
  <2>3. \A k \in 1 .. Len(tables) : tables'[k] = tables[k]
    BY <1>3, <2>1
  <2>4. (ok \in BOOLEAN /\ (ok <=> \A k \in 1 .. checked : Verified(tables[k])))'
    BY <1>1, <2>3, VerdictsStay
  <2>5. /\ Len(tables') + failures' = next' /\ checked' \in 0 .. Len(tables')
        /\ failures' \in Nat /\ exit' = -1 /\ pc' = "generate" /\ verdict' = -1
        /\ checked' = 0 /\ ok' = TRUE
    BY <1>1, <1>3, <2>1, <2>2
  <2>6. exit' # 0 /\ exit' # 1 /\ pc' # "verify"
    BY <2>5
  <2>7. Named'
    BY <2>2, <2>5, <2>6, Zenon DEF Named
  <2> QED BY <1>6, <1>7, <2>2, <2>4, <2>5, <2>6, <2>7, Zenon DEF GenerationInv
<1>9. CASE r.q = 0
  <2>1. /\ UNCHANGED tables
        /\ IF mode = "all"
           THEN failures' = failures + 1 /\ UNCHANGED <<exit, pc>>
           ELSE exit' = 1 /\ pc' = "done" /\ UNCHANGED failures
    BY <1>2, <1>9
  <2>2. /\ (\E at \in [DOMAIN tables -> 1 .. next] :
              /\ \A k, l \in DOMAIN tables : k < l => at[k] < at[l]
              /\ \A k \in DOMAIN tables : tables[k].set = requested[at[k]])'
        /\ (mode # "epsilon" =>
              /\ \A k \in DOMAIN tables :
                   Gets(tables[k].set) /\ tables[k].r = SelectFromGrid(tables[k].set)
              /\ \A i \in 1 .. next :
                   Gets(requested[i]) => \E k \in DOMAIN tables : tables[k].set = requested[i])'
    BY <1>1, <1>5, <1>9, <2>1, TryFails
  <2>3. (ok \in BOOLEAN /\ (ok <=> \A k \in 1 .. checked : Verified(tables[k])))'
    BY <1>1, <2>1, VerdictsStay
  <2>4. (tables \in Seq(TableSet))'
    <3>1. TableSet' = TableSet
      BY <1>1, TableSetStays
    <3> QED BY <1>3, <2>1, <3>1
  <2>5. /\ checked' \in 0 .. Len(tables') /\ verdict' = -1 /\ checked' = 0 /\ ok' = TRUE
    BY <1>1, <1>3, <2>1
  <2>8. Named'
    <3>1. pc' # "verify"
      BY <1>1, <2>1
    <3> QED BY <1>1, <2>1, <2>5, <3>1, NamedStays
  <2>6. CASE mode = "all"
    <3>1. Len(tables') + failures' = next' /\ failures' \in Nat
      BY <1>1, <1>3, <2>1, <2>6
    <3>2. exit' = -1 /\ pc' = "generate" /\ exit' # 0
      BY <1>1, <1>3, <2>1, <2>6
    <3> QED BY <1>6, <1>7, <2>2, <2>3, <2>4, <2>5, <2>8, <3>1, <3>2, Zenon DEF GenerationInv
  <2>7. CASE mode # "all"
    <3>1. failures' \in Nat /\ exit' = 1 /\ pc' = "done" /\ exit' # 0
      BY <1>3, <2>1, <2>7
    <3>2. pc' # "generate" /\ mode' # "all" /\ ~ (mode' = "all" \/ exit' # 1)
      BY <1>6, <2>7, <3>1
    <3> QED BY <1>6, <1>7, <2>2, <2>3, <2>4, <2>5, <2>8, <3>1, <3>2, Zenon DEF GenerationInv
  <2> QED BY <2>6, <2>7
<1> QED BY <1>8, <1>9

LEMMA WriteKeeps == GenerationInv /\ Write => GenerationInv'
<1> SUFFICES ASSUME GenerationInv, Write PROVE GenerationInv'
  OBVIOUS
<1>1. /\ pc = "generate" /\ next = Len(requested)
      /\ UNCHANGED <<problem, next, tables, failures, checked, ok, verdict>>
      /\ \/ exit' \in {0, 2} /\ (exit' = 0 => ~ failures > 0) /\ pc' \in {"verify", "done"}
         \/ exit' = 1 /\ pc' = "done"
      /\ pc' = "verify" => mode = "all"
  BY DEF Write
<1>2. /\ ProblemOK'
      /\ (next \in 0 .. Len(requested) /\ failures \in Nat)'
      /\ (tables \in Seq(TableSet))'
      /\ (\E at \in [DOMAIN tables -> 1 .. next] :
            /\ \A k, l \in DOMAIN tables : k < l => at[k] < at[l]
            /\ \A k \in DOMAIN tables : tables[k].set = requested[at[k]])'
      /\ (mode # "epsilon" =>
            /\ \A k \in DOMAIN tables :
                 Gets(tables[k].set) /\ tables[k].r = SelectFromGrid(tables[k].set)
            /\ \A i \in 1 .. next :
                 Gets(requested[i]) => \E k \in DOMAIN tables : tables[k].set = requested[i])'
  BY <1>1, TablesStay
<1>3. (ok \in BOOLEAN /\ (ok <=> \A k \in 1 .. checked : Verified(tables[k])))'
  BY <1>1, VerdictsStay
<1>4. exit = -1 /\ Len(tables) + failures = next
      /\ checked' \in 0 .. Len(tables') /\ verdict' = -1
  <2>1. exit = -1 /\ verdict = -1 /\ checked \in 0 .. Len(tables)
    BY <1>1 DEF GenerationInv
  <2>2. exit # 1
    BY <2>1
  <2> QED BY <1>1, <2>1, <2>2 DEF GenerationInv
<1>5. Len(tables') + failures' = next'
  BY <1>1, <1>4
<1>6. exit' = 0 => Len(tables') = Len(requested')
  <2>1. failures \in Nat /\ tables \in Seq(TableSet)
        /\ requested' = requested
    BY <1>1 DEF GenerationInv, problem
  <2>2. Len(tables) \in Nat
    BY <2>1
  <2> QED BY <1>1, <1>4, <2>1, <2>2
<1>7. pc' \in {"verify", "done"} /\ pc' # "generate"
  BY <1>1
<1>8. Named'
  BY <1>1, <1>4, NamedStays
<1> QED BY <1>2, <1>3, <1>4, <1>5, <1>6, <1>7, <1>8, Zenon DEF GenerationInv

LEMMA VerifyKeeps == GenerationInv /\ VerifyOne => GenerationInv'
<1> SUFFICES ASSUME GenerationInv, VerifyOne PROVE GenerationInv'
  OBVIOUS
<1>1. /\ pc = "verify" /\ checked < Len(tables) /\ checked' = checked + 1
      /\ UNCHANGED <<problem, next, tables, failures, exit, verdict, pc>>
      /\ ok' = (ok /\ Verified(tables[checked + 1]))
  BY DEF VerifyOne, Verified
<1>2. /\ ProblemOK'
      /\ (next \in 0 .. Len(requested) /\ failures \in Nat)'
      /\ (tables \in Seq(TableSet))'
      /\ (\E at \in [DOMAIN tables -> 1 .. next] :
            /\ \A k, l \in DOMAIN tables : k < l => at[k] < at[l]
            /\ \A k \in DOMAIN tables : tables[k].set = requested[at[k]])'
      /\ (mode # "epsilon" =>
            /\ \A k \in DOMAIN tables :
                 Gets(tables[k].set) /\ tables[k].r = SelectFromGrid(tables[k].set)
            /\ \A i \in 1 .. next :
                 Gets(requested[i]) => \E k \in DOMAIN tables : tables[k].set = requested[i])'
  BY <1>1, TablesStay
<1>3. checked \in Nat /\ Len(tables) \in Nat
  <2>1. checked \in 0 .. Len(tables) /\ tables \in Seq(TableSet)
    BY DEF GenerationInv
  <2> QED BY <2>1
<1>4. 1 .. checked' = 1 .. checked \union {checked + 1} /\ checked' \in 0 .. Len(tables')
  BY <1>1, <1>3
<1>5. \A k : Verified(tables[k])' <=> Verified(tables[k])
  <2>1. \A name : SelectFromGrid(name)' = SelectFromGrid(name)
    BY <1>1, SelectStays
  <2> QED BY <1>1, <2>1 DEF Verified
<1>6. ok \in BOOLEAN /\ (ok <=> \A k \in 1 .. checked : Verified(tables[k]))
  BY DEF GenerationInv
<1>7. (\A k \in 1 .. checked : Verified(tables[k]))' <=>
        (\A k \in 1 .. checked : Verified(tables[k])) /\ Verified(tables[checked + 1])
  BY <1>4, <1>5, Zenon
<1>8. ok' \in BOOLEAN
  BY <1>1, <1>6, Zenon
<1>9. ok' <=> (\A k \in 1 .. checked : Verified(tables[k]))'
  BY <1>1, <1>6, <1>7, Zenon
<1>10. /\ verdict' = -1 /\ pc' \in {"generate", "verify", "done"} /\ pc' # "generate"
       /\ (mode' = "all" \/ exit' # 1 => Len(tables') + failures' = next')
       /\ (exit' = 0 => Len(tables') = Len(requested'))
  <2>1. verdict = -1
    BY <1>1 DEF GenerationInv
  <2> QED BY <1>1, <2>1 DEF GenerationInv, problem
<1>11. Named'
  <2>1. mode = "all"
    BY <1>1 DEF GenerationInv, Named
  <2> QED BY <1>1, <2>1, NamedStays
<1> QED BY <1>2, <1>4, <1>8, <1>9, <1>10, <1>11, Zenon DEF GenerationInv

LEMMA ReportKeeps == GenerationInv /\ Report => GenerationInv'
<1> SUFFICES ASSUME GenerationInv, Report PROVE GenerationInv'
  OBVIOUS
<1>1. /\ pc = "verify" /\ checked = Len(tables) /\ pc' = "done"
      /\ verdict' = (IF ok /\ tables # <<>> THEN 0 ELSE 1)
      /\ UNCHANGED <<problem, next, tables, failures, exit, checked, ok>>
  BY DEF Report
<1>2. /\ ProblemOK'
      /\ (next \in 0 .. Len(requested) /\ failures \in Nat)'
      /\ (tables \in Seq(TableSet))'
      /\ (\E at \in [DOMAIN tables -> 1 .. next] :
            /\ \A k, l \in DOMAIN tables : k < l => at[k] < at[l]
            /\ \A k \in DOMAIN tables : tables[k].set = requested[at[k]])'
      /\ (mode # "epsilon" =>
            /\ \A k \in DOMAIN tables :
                 Gets(tables[k].set) /\ tables[k].r = SelectFromGrid(tables[k].set)
            /\ \A i \in 1 .. next :
                 Gets(requested[i]) => \E k \in DOMAIN tables : tables[k].set = requested[i])'
  BY <1>1, TablesStay
<1>3. (ok \in BOOLEAN /\ (ok <=> \A k \in 1 .. checked : Verified(tables[k])))'
  BY <1>1, VerdictsStay
<1>4. /\ pc' \in {"generate", "verify", "done"} /\ pc' = "done" /\ pc' # "generate"
      /\ (mode' = "all" \/ exit' # 1 => Len(tables') + failures' = next')
      /\ (exit' = 0 => Len(tables') = Len(requested'))
      /\ checked' \in 0 .. Len(tables') /\ checked' = Len(tables')
  BY <1>1 DEF GenerationInv, problem
<1>5. verdict' = 0 <=> ok' /\ tables' # <<>>
  <2>1. 0 # 1 /\ ok' = ok /\ tables' = tables
    BY <1>1
  <2>2. CASE ok /\ tables # <<>>
    BY <1>1, <2>1, <2>2
  <2>3. CASE ~ (ok /\ tables # <<>>)
    <3>1. verdict' # 0
      BY <1>1, <2>1, <2>3
    <3>2. ~ (ok' /\ tables' # <<>>)
      BY <2>1, <2>3, Zenon
    <3> QED BY <3>1, <3>2, Zenon
  <2> QED BY <2>2, <2>3
<1>6. Named'
  <2>1. mode = "all"
    BY <1>1 DEF GenerationInv, Named
  <2> QED BY <1>1, <2>1, NamedStays
<1> QED BY <1>2, <1>3, <1>4, <1>5, <1>6, Zenon DEF GenerationInv

LEMMA GenerationStutters == GenerationInv /\ UNCHANGED generationVars => GenerationInv'
<1> SUFFICES ASSUME GenerationInv, UNCHANGED generationVars PROVE GenerationInv'
  OBVIOUS
<1>1. UNCHANGED <<problem, next, tables, failures, exit, checked, ok, verdict, pc>>
  BY DEF generationVars
<1>2. /\ ProblemOK'
      /\ (next \in 0 .. Len(requested) /\ failures \in Nat)'
      /\ (tables \in Seq(TableSet))'
      /\ (\E at \in [DOMAIN tables -> 1 .. next] :
            /\ \A k, l \in DOMAIN tables : k < l => at[k] < at[l]
            /\ \A k \in DOMAIN tables : tables[k].set = requested[at[k]])'
      /\ (mode # "epsilon" =>
            /\ \A k \in DOMAIN tables :
                 Gets(tables[k].set) /\ tables[k].r = SelectFromGrid(tables[k].set)
            /\ \A i \in 1 .. next :
                 Gets(requested[i]) => \E k \in DOMAIN tables : tables[k].set = requested[i])'
  BY <1>1, TablesStay
<1>3. (ok \in BOOLEAN /\ (ok <=> \A k \in 1 .. checked : Verified(tables[k])))'
  BY <1>1, VerdictsStay
<1>4. /\ pc' \in {"generate", "verify", "done"}
      /\ pc' = "generate" => exit' = -1 /\ checked' = 0 /\ ok' = TRUE
      /\ pc' # "done" => verdict' = -1
      /\ (mode' = "all" \/ exit' # 1 => Len(tables') + failures' = next')
      /\ (exit' = 0 => Len(tables') = Len(requested'))
      /\ checked' \in 0 .. Len(tables')
      /\ verdict' # -1 => checked' = Len(tables') /\ (verdict' = 0 <=> ok' /\ tables' # <<>>)
  BY <1>1 DEF GenerationInv, problem
<1>5. Named'
  <2>1. pc = "verify" \/ verdict # -1 => mode = "all"
    BY DEF GenerationInv, Named
  <2> QED BY <1>1, <2>1, NamedStays
<1> QED BY <1>2, <1>3, <1>4, <1>5, Zenon DEF GenerationInv

LEMMA GenerationStep == GenerationInv /\ [GenerationNext]_generationVars => GenerationInv'
BY GenerateKeeps, WriteKeeps, VerifyKeeps, ReportKeeps, GenerationStutters DEF GenerationNext

(***************************************************************************)
(* Every table of the grid holds the best vector of its grid, in the order *)
(* asked for, and what is missing are the failures (better_min_q and the   *)
(* loop of sda_generate_for_config, all_configs of generate_sdat).         *)
(***************************************************************************)

LEMMA TablesBest == GenerationInv => TablesAreBest
<1> SUFFICES ASSUME GenerationInv PROVE TablesAreBest
  OBVIOUS
<1>1. mode = "all" =>
        /\ Len(tables) + failures = next
        /\ \A k \in DOMAIN tables : tables[k].name = tables[k].set
  BY DEF GenerationInv, Named
<1>2. \E at \in [DOMAIN tables -> 1 .. next] :
        /\ \A k, l \in DOMAIN tables : k < l => at[k] < at[l]
        /\ \A k \in DOMAIN tables : tables[k].set = requested[at[k]]
  BY DEF GenerationInv
<1>3. ASSUME mode # "epsilon", NEW i \in 1 .. next
      PROVE  LET set == requested[i] IN
               IF set = NoBaseline \/ Eligible(set) = {}
               THEN \A k \in DOMAIN tables : tables[k].set # set
               ELSE \E k \in DOMAIN tables : tables[k].set = set /\ IsBestOf(tables[k].r, set)
  <2> DEFINE set == requested[i]
  <2>1. set \in Range(requested) /\ ProblemOK
    <3>1. requested \in Seq(Range(requested)) /\ next \in 0 .. Len(requested) /\ ProblemOK
      BY DEF GenerationInv, ProblemOK
    <3>2. i \in DOMAIN requested
      BY <3>1
    <3> QED BY <3>1, <3>2 DEF Range
  <2>2. /\ Eligible(set) = {} => SelectFromGrid(set).q = 0
        /\ Eligible(set) # {} => SelectFromGrid(set).q # 0 /\ IsBestOf(SelectFromGrid(set), set)
    BY <2>1, SelectIsBest
  <2>3. /\ \A k \in DOMAIN tables :
             Gets(tables[k].set) /\ tables[k].r = SelectFromGrid(tables[k].set)
        /\ Gets(set) => \E k \in DOMAIN tables : tables[k].set = set
    BY <1>3 DEF GenerationInv
  <2>4. CASE set = NoBaseline \/ Eligible(set) = {}
    <3>1. ~ Gets(set)
      BY <2>2, <2>4 DEF Gets
    <3>2. \A k \in DOMAIN tables : tables[k].set # set
      BY <2>3, <3>1
    <3> QED BY <2>4, <3>2
  <2>5. CASE ~ (set = NoBaseline \/ Eligible(set) = {})
    <3>1. Gets(set)
      BY <2>2, <2>5 DEF Gets
    <3>2. PICK k \in DOMAIN tables : tables[k].set = set
      BY <2>3, <3>1
    <3>3. tables[k].r = SelectFromGrid(set)
      BY <2>3, <3>2
    <3> QED BY <2>2, <2>5, <3>2, <3>3
  <2> QED BY <2>4, <2>5
<1>4. exit = 0 => Len(tables) = Len(requested)
  BY DEF GenerationInv
<1> QED BY <1>1, <1>2, <1>3, <1>4 DEF TablesAreBest

\* A table passes verify_one exactly when it holds the numbers of a best vector
\* of its grid that dominates the baseline.
LEMMA VerifiedExact ==
  ASSUME ProblemOK, NEW t, t.name \in Range(requested)
  PROVE  Verified(t) <=>
           \E b \in Eligible(t.name) :
             IsBestOf(b, t.name) /\ b.p = t.r.p /\ b.q = t.r.q /\ b.dominance
<1> DEFINE name == t.name
           r == SelectFromGrid(name)
<1>1. /\ Eligible(name) = {} => r.q = 0
      /\ Eligible(name) # {} => r.q # 0 /\ IsBestOf(r, name)
      /\ \A b \in Eligible(name) : IsBestOf(b, name) => b = r
  BY SelectIsBest
<1>2. Verified(t) <=> r.q = t.r.q /\ r.q # 0 /\ r.p = t.r.p /\ r.dominance
  BY DEF Verified
<1> HIDE DEF r
<1>3. CASE Eligible(name) = {}
  BY <1>1, <1>2, <1>3
<1>4. CASE Eligible(name) # {}
  <2>1. r \in Eligible(name) /\ IsBestOf(r, name) /\ r.q # 0
    BY <1>1, <1>4 DEF IsBestOf
  <2> QED BY <1>1, <1>2, <2>1
<1> QED BY <1>3, <1>4

LEMMA VerificationIsExact == GenerationInv => VerificationExact
<1> SUFFICES ASSUME GenerationInv, verdict # -1
             PROVE  verdict = 0 <=>
                      /\ tables # <<>>
                      /\ \A k \in DOMAIN tables :
                           LET t == tables[k] IN
                             \E b \in Eligible(t.name) :
                               IsBestOf(b, t.name) /\ b.p = t.r.p /\ b.q = t.r.q /\ b.dominance
  BY DEF VerificationExact
<1>1. checked = Len(tables) /\ (verdict = 0 <=> ok /\ tables # <<>>)
  BY DEF GenerationInv
<1>2. ok <=> \A k \in 1 .. checked : Verified(tables[k])
  BY DEF GenerationInv
<1>3. tables \in Seq(TableSet) /\ ProblemOK
  BY DEF GenerationInv
<1>4. DOMAIN tables = 1 .. Len(tables)
  BY <1>3
<1>5. \A k \in DOMAIN tables : tables[k].name \in Range(requested)
  <2> SUFFICES ASSUME NEW k \in DOMAIN tables PROVE tables[k].name \in Range(requested)
    OBVIOUS
  <2>1. tables[k] \in TableSet
    <3> DEFINE S == TableSet
    <3>1. tables \in Seq(S)
      BY <1>3
    <3> HIDE DEF S
    <3>2. tables[k] \in S
      BY <3>1
    <3> QED BY <3>2 DEF S
  <2>2. tables[k].name = tables[k].set
    BY DEF GenerationInv, Named
  <2> QED BY <2>1, <2>2 DEF TableSet
<1>6. \A k \in DOMAIN tables :
        Verified(tables[k]) <=>
          \E b \in Eligible(tables[k].name) :
            /\ IsBestOf(b, tables[k].name)
            /\ b.p = tables[k].r.p /\ b.q = tables[k].r.q /\ b.dominance
  BY <1>3, <1>5, VerifiedExact
<1> QED BY <1>1, <1>2, <1>4, <1>6, Zenon

\* generate_sdat writes, for every parameter set it tried that has an eligible
\* vector and no other, the best vector of its grid in the order of
\* better_min_q, whatever the solver's results and the metrics, and with --all
\* under the set's name; with --epsilon only the sets and their order are
\* compared, as the one vector is not the choice of a grid.
THEOREM GenerationIsBest == GenerationSpec => []TablesAreBest
<1>1. GenerationSpec => []GenerationInv
  BY GenerationInitially, GenerationStep, PTL DEF GenerationSpec
<1> QED BY <1>1, TablesBest, PTL

\* verify_sdat --all passes exactly when every table holds the best vector of
\* the grid its name stands for and dominates the baseline.
THEOREM VerificationSeparates == GenerationSpec => []VerificationExact
<1>1. GenerationSpec => []GenerationInv
  BY GenerationInitially, GenerationStep, PTL DEF GenerationSpec
<1> QED BY <1>1, VerificationIsExact, PTL

(***************************************************************************)
(* CandidateSearch: what the candidate set keeps of a search.              *)
(***************************************************************************)

IsLeast(x, S) == x \in S /\ \A y \in S : x <= y
IsGreatest(x, S) == x \in S /\ \A y \in S : y <= x

LEMMA LeastIsMin ==
  ASSUME NEW S \in SUBSET Nat, NEW x, IsLeast(x, S)
  PROVE  Min(S) = x
<1>1. x \in S /\ \A y \in S : x <= y
  BY DEF IsLeast
<1>2. Min(S) \in S /\ \A y \in S : Min(S) <= y
  BY <1>1, MinOfNats
<1>3. Min(S) <= x /\ x <= Min(S) /\ x \in Nat /\ Min(S) \in Nat
  BY <1>1, <1>2
<1> QED BY <1>3

LEMMA GreatestIsMax ==
  ASSUME NEW S \in SUBSET Nat, NEW x, IsGreatest(x, S)
  PROVE  Max(S) = x
<1>1. x \in S /\ \A y \in S : y <= x
  BY DEF IsGreatest
<1>2. \A y \in S : x >= y
  BY <1>1
<1>3. Max(S) \in S /\ \A y \in S : Max(S) >= y
  BY <1>1, <1>2 DEF Max
<1>4. Max(S) >= x /\ x >= Max(S) /\ x \in Nat /\ Max(S) \in Nat
  BY <1>1, <1>2, <1>3
<1> QED BY <1>4

\* Types of a candidate and of an entry of the search's history.
ItemSet == [v : Vectors, first : Nat, last : Nat, occurrences : Nat, runs : Nat,
            firstStage : Nat, lastStage : Nat, inside : BOOLEAN, epsMin : Nat, epsMax : Nat]
EntrySet == [v : Vectors, stage : Nat, gi : Nat, eps : Cells]

\* Where a vector occurs in a history, and where its runs begin.
Occurs(h, v) == {j \in DOMAIN h : h[j].v = v}
RunStarts(at) == {j \in at : j - 1 \notin at}

\* A candidate is what its occurrences in the history amount to.
Describes(x, h) ==
  LET at == Occurs(h, x.v) IN
    /\ IsLeast(x.first, at) /\ IsGreatest(x.last, at)
    /\ x.occurrences = Cardinality(at)
    /\ x.runs = Cardinality(RunStarts(at))
    /\ x.firstStage = h[x.first].stage /\ x.lastStage = h[x.last].stage
    /\ x.inside <=> h[x.first].eps \in Paper
    /\ \E j \in at : x.epsMin = h[j].eps
    /\ \E j \in at : x.epsMax = h[j].eps
    /\ \A j \in at : x.epsMin <= h[j].eps /\ h[j].eps <= x.epsMax

\* The candidates of a history, in the order they were first seen.
CandidatesOf(s, h) ==
  /\ s \in Seq(ItemSet) /\ h \in Seq(EntrySet)
  /\ \A j \in DOMAIN h : \E k \in DOMAIN s : s[k].v = h[j].v
  /\ \A k \in DOMAIN s : Describes(s[k], h)
  /\ \A k, l \in DOMAIN s : l < k => s[l].first < s[k].first

\* One more entry of the history.
LEMMA HistoryGrows ==
  ASSUME NEW h \in Seq(EntrySet), NEW e \in EntrySet
  PROVE  LET g == Append(h, e)
             n == Len(h) + 1 IN
           /\ g \in Seq(EntrySet) /\ n \in Nat /\ DOMAIN h = 1 .. n - 1 /\ DOMAIN g = 1 .. n
           /\ g[n] = e /\ \A j \in 1 .. n - 1 : g[j] = h[j]
           /\ Occurs(g, e.v) = Occurs(h, e.v) \union {n}
           /\ \A v : v # e.v => Occurs(g, v) = Occurs(h, v)
           /\ \A v : Occurs(h, v) \subseteq 1 .. n - 1
<1> DEFINE g == Append(h, e)
           n == Len(h) + 1
<1>1. /\ g \in Seq(EntrySet) /\ n \in Nat /\ DOMAIN h = 1 .. n - 1 /\ DOMAIN g = 1 .. n
      /\ g[n] = e /\ \A j \in 1 .. n - 1 : g[j] = h[j]
  OBVIOUS
<1>2. 1 .. n = 1 .. n - 1 \union {n} /\ n \notin 1 .. n - 1
  BY <1>1
<1> HIDE DEF g, n
<1>3. \A v : Occurs(h, v) \subseteq 1 .. n - 1
  BY <1>1 DEF Occurs
<1>4. Occurs(g, e.v) = Occurs(h, e.v) \union {n}
  <2>1. \A j : j \in Occurs(g, e.v) <=> j \in Occurs(h, e.v) \union {n}
    BY <1>1, <1>2 DEF Occurs
  <2> QED BY <2>1
<1>5. \A v : v # e.v => Occurs(g, v) = Occurs(h, v)
  <2> SUFFICES ASSUME NEW v, v # e.v PROVE Occurs(g, v) = Occurs(h, v)
    OBVIOUS
  <2>1. \A j : j \in Occurs(g, v) <=> j \in Occurs(h, v)
    BY <1>1, <1>2 DEF Occurs
  <2> QED BY <2>1
<1> QED BY <1>1, <1>3, <1>4, <1>5 DEF g, n

\* The positions of a history are finitely many.
LEMMA OccursFinite ==
  ASSUME NEW h \in Seq(EntrySet), NEW v
  PROVE  /\ Occurs(h, v) \subseteq 1 .. Len(h) /\ Occurs(h, v) \in SUBSET Nat
         /\ IsFiniteSet(Occurs(h, v)) /\ IsFiniteSet(RunStarts(Occurs(h, v)))
<1>1. Occurs(h, v) \subseteq 1 .. Len(h) /\ Len(h) \in Nat
  BY DEF Occurs
<1>2. IsFiniteSet(1 .. Len(h))
  BY <1>1, FS_Interval
<1>3. IsFiniteSet(Occurs(h, v))
  BY <1>1, <1>2, FS_Subset
<1>4. RunStarts(Occurs(h, v)) \subseteq Occurs(h, v)
  BY DEF RunStarts
<1> QED BY <1>1, <1>3, <1>4, FS_Subset

\* An entry of another vector leaves a candidate's description true.
LEMMA OthersStay ==
  ASSUME NEW h \in Seq(EntrySet), NEW e \in EntrySet, NEW x \in ItemSet,
         x.v # e.v, Describes(x, h)
  PROVE  Describes(x, Append(h, e))
<1> DEFINE g == Append(h, e)
           n == Len(h) + 1
           at == Occurs(h, x.v)
<1>1. /\ \A j \in 1 .. n - 1 : g[j] = h[j]
      /\ Occurs(g, x.v) = at /\ at \subseteq 1 .. n - 1
  BY HistoryGrows
<1> HIDE DEF g
<1>2. \A j \in at : g[j] = h[j]
  BY <1>1
<1>3. x.first \in at /\ x.last \in at
  BY DEF Describes, IsLeast, IsGreatest
<1>4. Describes(x, g)
  BY <1>1, <1>2, <1>3 DEF Describes
<1> QED BY <1>4 DEF g

\* The candidate made of a vector's first entry describes it.
LEMMA FirstDescribed ==
  ASSUME NEW h \in Seq(EntrySet), NEW e \in EntrySet, NEW x \in ItemSet,
         Occurs(h, e.v) = {}, x.v = e.v,
         x.first = Len(h) + 1, x.last = Len(h) + 1, x.occurrences = 1, x.runs = 1,
         x.firstStage = e.stage, x.lastStage = e.stage, x.inside <=> e.eps \in Paper,
         x.epsMin = e.eps, x.epsMax = e.eps
  PROVE  Describes(x, Append(h, e))
<1> DEFINE g == Append(h, e)
           n == Len(h) + 1
<1>1. n \in Nat /\ g[n] = e /\ Occurs(g, x.v) = {n}
  <2>1. n \in Nat /\ g[n] = e /\ Occurs(g, e.v) = Occurs(h, e.v) \union {n}
    BY HistoryGrows
  <2> HIDE DEF g, n
  <2>2. Occurs(g, e.v) = {n}
    BY <2>1
  <2> QED BY <2>1, <2>2
<1> HIDE DEF g, n
<1>2. IsLeast(n, {n}) /\ IsGreatest(n, {n})
  BY <1>1 DEF IsLeast, IsGreatest
<1>3. RunStarts({n}) = {n}
  BY <1>1 DEF RunStarts
<1>4. Cardinality({n}) = 1
  BY FS_Singleton
<1>5. e.eps \in Nat
  BY SearchAssumption DEF EntrySet
<1>6. x.first = n /\ x.last = n
  BY DEF n
<1>7. x.inside <=> g[x.first].eps \in Paper
  BY <1>1, <1>6, Zenon
<1>8. /\ x.occurrences = Cardinality({n}) /\ x.runs = Cardinality(RunStarts({n}))
      /\ IsLeast(x.first, {n}) /\ IsGreatest(x.last, {n})
  BY <1>2, <1>3, <1>4, <1>6
<1>9. /\ x.firstStage = g[x.first].stage /\ x.lastStage = g[x.last].stage
      /\ \E j \in {n} : x.epsMin = g[j].eps
      /\ \E j \in {n} : x.epsMax = g[j].eps
      /\ \A j \in {n} : x.epsMin <= g[j].eps /\ g[j].eps <= x.epsMax
  BY <1>1, <1>5, <1>6
<1>10. Describes(x, g)
  BY <1>1, <1>7, <1>8, <1>9, Zenon DEF Describes
<1> QED BY <1>10 DEF g

\* The candidate of a vector seen again, updated, still describes it.
LEMMA AgainDescribed ==
  ASSUME NEW h \in Seq(EntrySet), NEW e \in EntrySet, NEW x \in ItemSet, NEW y \in ItemSet,
         Describes(x, h), x.v = e.v, y.v = e.v,
         y.first = x.first, y.last = Len(h) + 1, y.occurrences = x.occurrences + 1,
         y.runs = (IF x.last + 1 # Len(h) + 1 THEN x.runs + 1 ELSE x.runs),
         y.firstStage = x.firstStage, y.lastStage = e.stage, y.inside <=> x.inside,
         y.epsMin = Min({x.epsMin, e.eps}), y.epsMax = Max({x.epsMax, e.eps})
  PROVE  Describes(y, Append(h, e))
<1> DEFINE g == Append(h, e)
           n == Len(h) + 1
           at == Occurs(h, e.v)
           to == Occurs(g, e.v)
<1>1. /\ n \in Nat /\ g[n] = e /\ \A j \in 1 .. n - 1 : g[j] = h[j]
      /\ to = at \union {n} /\ at \subseteq 1 .. n - 1
  BY HistoryGrows
<1>2. /\ IsLeast(x.first, at) /\ IsGreatest(x.last, at)
      /\ x.occurrences = Cardinality(at)
      /\ x.runs = Cardinality(RunStarts(at))
      /\ x.firstStage = h[x.first].stage
      /\ x.inside <=> h[x.first].eps \in Paper
      /\ \E j \in at : x.epsMin = h[j].eps
      /\ \E j \in at : x.epsMax = h[j].eps
      /\ \A j \in at : x.epsMin <= h[j].eps /\ h[j].eps <= x.epsMax
  BY DEF Describes
<1>3. IsFiniteSet(at) /\ IsFiniteSet(RunStarts(at))
  BY OccursFinite
<1>4. y.last = n /\ y.runs = (IF x.last + 1 # n THEN x.runs + 1 ELSE x.runs)
  OBVIOUS
<1>e. e.eps \in Nat /\ x.epsMin \in Nat /\ x.epsMax \in Nat /\ \A j \in 1 .. n - 1 : h[j].eps \in Nat
  <2>1. \A j \in 1 .. n - 1 : h[j] \in EntrySet
    OBVIOUS
  <2> QED BY <2>1, SearchAssumption DEF EntrySet, ItemSet
<1> HIDE DEF g, n, at, to
<1>5. n \notin at /\ \A j \in at : j \in Nat /\ j < n /\ g[j] = h[j]
  BY <1>1
<1>6. x.first \in at /\ x.last \in at
  BY <1>2 DEF IsLeast, IsGreatest
<1>7. IsLeast(y.first, to) /\ IsGreatest(y.last, to)
  <2>1. y.first \in to /\ n \in to
    BY <1>1, <1>6
  <2>2. x.first \in Nat /\ x.first < n /\ \A j \in at : x.first <= j
    BY <1>2, <1>5, <1>6 DEF IsLeast
  <2>3. \A j \in to : y.first <= j
    BY <1>1, <2>2
  <2>4. \A j \in to : j <= n
    BY <1>1, <1>5
  <2> QED BY <1>4, <2>1, <2>3, <2>4 DEF IsLeast, IsGreatest
<1>8. y.occurrences = Cardinality(to)
  <2>1. Cardinality(at \union {n}) = Cardinality(at) + 1
    BY <1>3, <1>5, FS_AddElement
  <2> QED BY <1>1, <1>2, <2>1
<1>9. y.runs = Cardinality(RunStarts(to))
  <2>1. n - 1 \in at <=> x.last + 1 = n
    <3>1. x.last \in Nat /\ x.last < n /\ \A j \in at : j <= x.last
      BY <1>2, <1>5, <1>6 DEF IsGreatest
    <3>2. ASSUME n - 1 \in at PROVE x.last + 1 = n
      <4>1. n - 1 <= x.last
        BY <3>1, <3>2
      <4> QED BY <1>1, <3>1, <4>1
    <3>3. ASSUME x.last + 1 = n PROVE n - 1 \in at
      <4>1. n - 1 = x.last
        BY <1>1, <3>1, <3>3
      <4> QED BY <1>6, <4>1
    <3> QED BY <3>2, <3>3
  <2>2. RunStarts(to) = RunStarts(at) \union (IF n - 1 \in at THEN {} ELSE {n})
    <3>1. n - 1 # n /\ n - 1 \in Int
      BY <1>1
    <3>2. \A j \in at : j - 1 # n
      BY <1>1, <1>5
    <3>3. \A j : j \in RunStarts(to) <=> j \in RunStarts(at) \/ (n - 1 \notin at /\ j = n)
      BY <1>1, <1>5, <3>1, <3>2 DEF RunStarts
    <3> QED BY <3>3
  <2>3. n \notin RunStarts(at)
    BY <1>5 DEF RunStarts
  <2>4. CASE n - 1 \in at
    BY <1>2, <1>4, <2>1, <2>2, <2>4
  <2>5. CASE n - 1 \notin at
    <3>1. RunStarts(to) = RunStarts(at) \union {n}
      BY <2>2, <2>5
    <3>2. Cardinality(RunStarts(to)) = Cardinality(RunStarts(at)) + 1
      BY <1>3, <2>3, <3>1, FS_AddElement
    <3> QED BY <1>2, <1>4, <2>1, <2>5, <3>2
  <2> QED BY <2>4, <2>5
<1>10. /\ y.firstStage = g[y.first].stage /\ y.lastStage = g[y.last].stage
  BY <1>1, <1>2, <1>4, <1>5, <1>6
<1>11. y.inside <=> g[y.first].eps \in Paper
  <2>1. g[y.first] = h[x.first]
    BY <1>5, <1>6
  <2> QED BY <1>2, <2>1, Zenon
<1>12. /\ y.epsMin \in {x.epsMin, e.eps} /\ y.epsMin <= x.epsMin /\ y.epsMin <= e.eps
  <2>1. {x.epsMin, e.eps} \in SUBSET Nat
    BY <1>e
  <2> QED BY <2>1, MinOfNats
<1>13. /\ y.epsMax \in {x.epsMax, e.eps} /\ x.epsMax <= y.epsMax /\ e.eps <= y.epsMax
  <2>1. x.epsMax <= e.eps \/ e.eps <= x.epsMax
    BY <1>e
  <2>2. \E m \in {x.epsMax, e.eps} : IsGreatest(m, {x.epsMax, e.eps})
    BY <1>e, <2>1 DEF IsGreatest
  <2>3. {x.epsMax, e.eps} \in SUBSET Nat
    BY <1>e
  <2>4. IsGreatest(y.epsMax, {x.epsMax, e.eps})
    BY <2>2, <2>3, GreatestIsMax
  <2> QED BY <2>4 DEF IsGreatest
<1>14. /\ \E j \in to : y.epsMin = g[j].eps
       /\ \E j \in to : y.epsMax = g[j].eps
  BY <1>1, <1>2, <1>5, <1>12, <1>13
<1>15. \A j \in to : y.epsMin <= g[j].eps /\ g[j].eps <= y.epsMax
  <2> SUFFICES ASSUME NEW j \in to PROVE y.epsMin <= g[j].eps /\ g[j].eps <= y.epsMax
    OBVIOUS
  <2>1. CASE j = n
    BY <1>1, <1>12, <1>13, <2>1
  <2>2. CASE j # n
    <3>1. j \in at /\ g[j] = h[j] /\ h[j].eps \in Nat
      BY <1>1, <1>5, <1>e, <2>2
    <3>2. x.epsMin <= h[j].eps /\ h[j].eps <= x.epsMax
      BY <1>2, <3>1
    <3>3. y.epsMin \in Nat /\ y.epsMax \in Nat
      BY <1>e, <1>12, <1>13
    <3> QED BY <1>e, <1>12, <1>13, <3>1, <3>2, <3>3
  <2> QED BY <2>1, <2>2
<1>16. to = Occurs(g, y.v)
  BY DEF to
<1>17. Describes(y, g)
  BY <1>7, <1>8, <1>9, <1>10, <1>11, <1>14, <1>15, <1>16, Zenon DEF Describes
<1> QED BY <1>17 DEF g

\* The entry of the n-th valid vector of a search.
Entry(v, z, i, eps) == [v |-> v, stage |-> z, gi |-> i, eps |-> eps]

\* y is the candidate x, seen again as the n-th vector.
Updates(y, x, n, z, eps) ==
  /\ y \in ItemSet
  /\ y.v = x.v /\ y.first = x.first /\ y.last = n /\ y.occurrences = x.occurrences + 1
  /\ y.runs = (IF x.last + 1 # n THEN x.runs + 1 ELSE x.runs)
  /\ y.firstStage = x.firstStage /\ y.lastStage = z /\ y.inside = x.inside
  /\ y.epsMin = Min({x.epsMin, eps}) /\ y.epsMax = Max({x.epsMax, eps})

LEMMA AgainFacts ==
  ASSUME NEW x \in ItemSet, NEW n \in Nat, NEW z \in Nat, NEW eps \in Nat,
         NEW y, y = Again(x, n, z, eps)
  PROVE  Updates(y, x, n, z, eps)
<1>1. Min({x.epsMin, eps}) \in Nat
  <2>1. {x.epsMin, eps} \in SUBSET Nat
    BY DEF ItemSet
  <2> QED BY <2>1, MinOfNats
<1>2. Max({x.epsMax, eps}) \in Nat
  <2>1. {x.epsMax, eps} \in SUBSET Nat
    BY DEF ItemSet
  <2>2. \E a \in {x.epsMax, eps} : IsGreatest(a, {x.epsMax, eps})
    <3>1. x.epsMax <= eps \/ eps <= x.epsMax
      BY <2>1
    <3> QED BY <2>1, <3>1 DEF IsGreatest
  <2> QED BY <2>1, <2>2, GreatestIsMax
<1> DEFINE a == x.occurrences + 1
           b == IF x.last + 1 # n THEN x.runs + 1 ELSE x.runs
           c == Min({x.epsMin, eps})
           d == Max({x.epsMax, eps})
<1>3. a \in Nat /\ b \in Nat
  BY DEF ItemSet
<1>4. Again(x, n, z, eps) =
        [x EXCEPT !.last = n, !.occurrences = a, !.lastStage = z, !.runs = b,
                  !.epsMin = c, !.epsMax = d]
  BY DEF Again
<1> HIDE DEF a, b, c, d
<1>5. /\ y \in ItemSet
      /\ y.v = x.v /\ y.first = x.first /\ y.last = n /\ y.occurrences = a
      /\ y.runs = b /\ y.firstStage = x.firstStage /\ y.lastStage = z
      /\ y.inside = x.inside /\ y.epsMin = c /\ y.epsMax = d
  BY <1>1, <1>2, <1>3, <1>4 DEF ItemSet, c, d
<1> QED BY <1>5 DEF Updates, a, b, c, d

\* One valid vector: sda_candidate_set_observe turns the candidates of a
\* history into those of the history with one more entry.
LEMMA ObserveKeeps ==
  ASSUME NEW s, NEW h, CandidatesOf(s, h),
         NEW v \in Vectors, NEW z \in Nat, NEW i \in Nat, NEW eps \in Cells
  PROVE  CandidatesOf(Observe(s, v, Len(h) + 1, z, eps), Append(h, Entry(v, z, i, eps)))
<1> DEFINE e == Entry(v, z, i, eps)
           g == Append(h, e)
           n == Len(h) + 1
           o == Observe(s, v, n, z, eps)
           m == Len(s)
<1>1. s \in Seq(ItemSet) /\ h \in Seq(EntrySet) /\ m \in Nat /\ DOMAIN s = 1 .. m
  BY DEF CandidatesOf
<1>2. e \in EntrySet /\ e.v = v /\ e.stage = z /\ e.eps = eps /\ eps \in Nat
  BY SearchAssumption DEF Entry, EntrySet
<1>3. /\ g \in Seq(EntrySet) /\ n \in Nat /\ DOMAIN h = 1 .. n - 1 /\ DOMAIN g = 1 .. n
      /\ g[n] = e /\ \A j \in 1 .. n - 1 : g[j] = h[j]
      /\ \A w : Occurs(h, w) \subseteq 1 .. n - 1
  <2> HIDE DEF e
  <2> QED BY <1>1, <1>2, HistoryGrows
<1>4. \A j \in 1 .. n : j = n \/ j \in 1 .. n - 1
  BY <1>3
<1>5. \A k \in 1 .. m : s[k] \in ItemSet /\ Describes(s[k], h)
  BY <1>1 DEF CandidatesOf
<1>6. \A k \in 1 .. m : s[k].first \in 1 .. n - 1 /\ h[s[k].first].v = s[k].v
  <2> SUFFICES ASSUME NEW k \in 1 .. m PROVE s[k].first \in 1 .. n - 1 /\ h[s[k].first].v = s[k].v
    OBVIOUS
  <2>1. s[k].first \in Occurs(h, s[k].v)
    BY <1>5 DEF Describes, IsLeast
  <2> QED BY <1>3, <2>1 DEF Occurs
<1>7. \A k, l \in 1 .. m : l < k => s[l].first < s[k].first
  BY <1>1 DEF CandidatesOf
<1>8. \A j \in 1 .. n - 1 : \E k \in 1 .. m : s[k].v = h[j].v
  BY <1>1, <1>3 DEF CandidatesOf
<1>9. \A k \in 1 .. m : s[k].v # v => Describes(s[k], g)
  <2> HIDE DEF e
  <2> QED BY <1>1, <1>2, <1>5, OthersStay
<1> HIDE DEF e, g, n, m
<1>10. CASE Matching(s, v) = {}
  <2> DEFINE x == [v |-> v, first |-> n, last |-> n, occurrences |-> 1, runs |-> 1,
                   firstStage |-> z, lastStage |-> z, inside |-> eps \in Paper,
                   epsMin |-> eps, epsMax |-> eps]
  <2>1. o = Append(s, x)
    BY <1>10 DEF Observe
  <2>2. x \in ItemSet /\ x.v = v
    BY <1>2, <1>3 DEF ItemSet
  <2>3. \A k \in 1 .. m : s[k].v # v
    BY <1>1, <1>10 DEF Matching
  <2>4. Occurs(h, v) = {}
    <3>1. \A j \in 1 .. n - 1 : h[j].v # v
      BY <1>8, <2>3
    <3> QED BY <1>3, <3>1 DEF Occurs
  <2>5. Describes(x, g)
    <3>1. /\ x.first = Len(h) + 1 /\ x.last = Len(h) + 1 /\ x.occurrences = 1 /\ x.runs = 1
          /\ x.firstStage = e.stage /\ x.lastStage = e.stage /\ x.epsMin = e.eps /\ x.epsMax = e.eps
      BY <1>2 DEF n
    <3>2. x.inside <=> e.eps \in Paper
      BY <1>2
    <3> HIDE DEF x
    <3> QED BY <1>1, <1>2, <2>2, <2>4, <3>1, <3>2, FirstDescribed DEF g
  <2>6. /\ o \in Seq(ItemSet) /\ DOMAIN o = 1 .. m + 1
        /\ \A k \in 1 .. m : o[k] = s[k]
        /\ o[m + 1] = x
    <3> HIDE DEF x
    <3> QED BY <1>1, <2>1, <2>2 DEF m
  <2>7. \A k \in 1 .. m + 1 : k = m + 1 \/ k \in 1 .. m
    BY <1>1
  <2>8. 1 .. m \subseteq 1 .. m + 1 /\ m + 1 \in 1 .. m + 1
    BY <1>1
  <2>9. x.first = n
    OBVIOUS
  <2> HIDE DEF x, o
  <2>10. \A k \in 1 .. m + 1 : Describes(o[k], g)
    BY <1>9, <2>3, <2>5, <2>6, <2>7
  <2>11. \A k, l \in 1 .. m + 1 : l < k => o[l].first < o[k].first
    <3> SUFFICES ASSUME NEW k \in 1 .. m + 1, NEW l \in 1 .. m + 1, l < k
                 PROVE  o[l].first < o[k].first
      OBVIOUS
    <3>1. l \in 1 .. m
      BY <1>1
    <3>2. CASE k = m + 1
      BY <1>3, <1>6, <2>6, <2>9, <3>1, <3>2
    <3>3. CASE k # m + 1
      BY <1>7, <2>6, <2>7, <3>1, <3>3
    <3> QED BY <3>2, <3>3
  <2>12. \A j \in 1 .. n : \E k \in 1 .. m + 1 : o[k].v = g[j].v
    <3> SUFFICES ASSUME NEW j \in 1 .. n PROVE \E k \in 1 .. m + 1 : o[k].v = g[j].v
      OBVIOUS
    <3>1. CASE j = n
      BY <1>2, <1>3, <2>2, <2>6, <2>8, <3>1
    <3>2. CASE j # n
      <4>1. j \in 1 .. n - 1
        BY <1>4, <3>2
      <4>2. PICK k \in 1 .. m : s[k].v = h[j].v
        BY <1>8, <4>1
      <4> QED BY <1>3, <2>6, <2>8, <4>1, <4>2
    <3> QED BY <3>1, <3>2
  <2>13. CandidatesOf(o, g)
    BY <1>3, <2>6, <2>10, <2>11, <2>12 DEF CandidatesOf
  <2> QED BY <2>13 DEF o, g, e, n
<1>11. CASE Matching(s, v) # {}
  <2> DEFINE w == Min(Matching(s, v))
             x == s[w]
             y == Again(x, n, z, eps)
  <2>1. w \in 1 .. m /\ x.v = v
    <3>1. Matching(s, v) \in SUBSET Nat
      BY <1>1 DEF Matching
    <3>2. w \in Matching(s, v)
      BY <1>11, <3>1, MinOfNats
    <3> QED BY <1>1, <3>2 DEF Matching
  <2>2. o = [s EXCEPT ![w] = y]
    BY <1>11 DEF Observe
  <2>4. x \in ItemSet /\ Describes(x, h)
    BY <1>5, <2>1
  <2>5. \A k \in 1 .. m : k # w => o[k] = s[k]
    BY <1>1, <2>2
  <2>6. DOMAIN o = 1 .. m
    BY <1>1, <2>2
  <2>3. o[w] = y
    <3> HIDE DEF o, y, w
    <3> QED BY <1>1, <2>1, <2>2
  <2> HIDE DEF o, x, w
  <2>7. /\ y.v = v /\ y.first = x.first /\ y.last = n /\ y.occurrences = x.occurrences + 1
        /\ y.runs = (IF x.last + 1 # n THEN x.runs + 1 ELSE x.runs)
        /\ y.firstStage = x.firstStage /\ y.lastStage = z /\ y.inside = x.inside
        /\ y.epsMin = Min({x.epsMin, eps}) /\ y.epsMax = Max({x.epsMax, eps})
        /\ y \in ItemSet
    <3>1. x \in ItemSet /\ n \in Nat /\ z \in Nat /\ eps \in Nat
      BY <1>2, <1>3, <2>4
    <3>2. y = Again(x, n, z, eps)
      OBVIOUS
    <3> HIDE DEF y
    <3>4. Updates(y, x, n, z, eps)
      BY <3>1, <3>2, AgainFacts
    <3>3. x.v = v
      BY <2>1
    <3> QED BY <3>3, <3>4, Zenon DEF Updates
  <2> HIDE DEF y
  <2>9. Describes(y, g)
    <3>1. /\ y.last = Len(h) + 1 /\ y.lastStage = e.stage /\ y.v = e.v /\ x.v = e.v
          /\ y.runs = (IF x.last + 1 # Len(h) + 1 THEN x.runs + 1 ELSE x.runs)
          /\ y.epsMin = Min({x.epsMin, e.eps}) /\ y.epsMax = Max({x.epsMax, e.eps})
      BY <1>2, <2>1, <2>7 DEF n, x
    <3>2. y.inside <=> x.inside
      BY <2>7
    <3> QED BY <1>1, <1>2, <2>4, <2>7, <3>1, <3>2, AgainDescribed DEF g
  <2>10. \A k \in 1 .. m : k # w => s[k].v # v
    <3> SUFFICES ASSUME NEW k \in 1 .. m, s[k].v = v, k # w PROVE FALSE
      OBVIOUS
    <3>1. IsLeast(s[k].first, Occurs(h, v)) /\ IsLeast(s[w].first, Occurs(h, v))
      BY <1>5, <2>1 DEF Describes, x
    <3>2. s[k].first \in Nat /\ s[w].first \in Nat
      BY <1>3, <1>6, <2>1
    <3>3. s[k].first = s[w].first
      BY <3>1, <3>2 DEF IsLeast
    <3>4. k < w \/ w < k
      BY <1>1, <2>1
    <3> QED BY <1>7, <2>1, <3>2, <3>3, <3>4
  <2>11. \A k \in 1 .. m : Describes(o[k], g) /\ o[k] \in ItemSet
                           /\ o[k].first = s[k].first /\ o[k].v = s[k].v
    <3> SUFFICES ASSUME NEW k \in 1 .. m
                 PROVE  Describes(o[k], g) /\ o[k] \in ItemSet
                        /\ o[k].first = s[k].first /\ o[k].v = s[k].v
      OBVIOUS
    <3>1. CASE k = w
      BY <2>1, <2>3, <2>7, <2>9, <3>1 DEF x
    <3>2. CASE k # w
      BY <1>5, <1>9, <2>5, <2>10, <3>2
    <3> QED BY <3>1, <3>2
  <2>12. o \in Seq(ItemSet)
    <3>1. w \in 1 .. Len(s) /\ y \in ItemSet
      BY <2>1, <2>7 DEF m
    <3> QED BY <1>1, <2>2, <3>1, ExceptSeq
  <2>13. \A k, l \in 1 .. m : l < k => o[l].first < o[k].first
    BY <1>7, <2>11
  <2>14. \A j \in 1 .. n : \E k \in 1 .. m : o[k].v = g[j].v
    <3> SUFFICES ASSUME NEW j \in 1 .. n PROVE \E k \in 1 .. m : o[k].v = g[j].v
      OBVIOUS
    <3>1. CASE j = n
      <4>1. o[w].v = v /\ g[j].v = v
        BY <1>2, <1>3, <2>1, <2>11, <3>1 DEF x
      <4> QED BY <2>1, <4>1
    <3>2. CASE j # n
      <4>1. j \in 1 .. n - 1
        BY <1>4, <3>2
      <4>2. PICK k \in 1 .. m : s[k].v = h[j].v
        BY <1>8, <4>1
      <4> QED BY <1>3, <2>11, <4>1, <4>2
    <3> QED BY <3>1, <3>2
  <2>15. CandidatesOf(o, g)
    BY <1>3, <2>6, <2>11, <2>12, <2>13, <2>14 DEF CandidatesOf
  <2> QED BY <2>15 DEF o, g, e, n
<1> QED BY <1>10, <1>11

(***************************************************************************)
(* CandidateSearch: the vectors of one point.                              *)
(***************************************************************************)

\* One turn of the loop, for any function in the place of the recursion.
ObservedBody(f, rows, eps, i) ==
  IF i = 0 THEN items ELSE Observe(f[i - 1], rows[i], seq + i, stage, eps)

\* The recursion of the loop has a solution, extended one vector at a time.
LEMMA ObservedExists ==
  ASSUME NEW rows, NEW eps, NEW n \in Nat
  PROVE  \E f : f = [i \in 0 .. n |-> ObservedBody(f, rows, eps, i)]
<1> DEFINE D == 0 .. n
           B(f, i) == ObservedBody(f, rows, eps, i)
           Solves(f, j) == f = [i \in D |-> f[i]] /\ \A i \in D : i <= j => f[i] = B(f, i)
           T == {j \in Nat : \E f : Solves(f, j)}
<1>1. 0 \in T
  <2> DEFINE e == [i \in D |-> items]
  <2>1. e = [i \in D |-> e[i]]
    OBVIOUS
  <2>2. \A i \in D : i <= 0 => e[i] = B(e, i)
    BY DEF ObservedBody
  <2>3. Solves(e, 0)
    BY <2>1, <2>2
  <2> QED BY <2>3
<1>2. \A j \in T : j \in Nat => j + 1 \in T
  <2> SUFFICES ASSUME NEW j \in T PROVE \E f : Solves(f, j + 1)
    OBVIOUS
  <2>1. j \in Nat
    OBVIOUS
  <2>2. PICK f : Solves(f, j)
    OBVIOUS
  <2> DEFINE m == j + 1
             g == [i \in D |-> IF i = m THEN B(f, m) ELSE f[i]]
  <2>3. \A i \in D : i # m => g[i] = f[i]
    OBVIOUS
  <2>4. g = [i \in D |-> g[i]]
    OBVIOUS
  <2>5. \A i \in D : i <= m => g[i] = B(g, i)
    <3> SUFFICES ASSUME NEW i \in D, i <= m PROVE g[i] = B(g, i)
      OBVIOUS
    <3>1. i \in Nat /\ i <= n
      OBVIOUS
    <3>2. B(g, i) = B(f, i)
      <4>1. CASE i = 0
        BY <4>1 DEF ObservedBody
      <4>2. CASE i # 0
        <5>1. i - 1 \in D /\ i - 1 # m
          BY <2>1, <3>1, <4>2
        <5>2. g[i - 1] = f[i - 1]
          BY <2>3, <5>1
        <5> HIDE DEF g
        <5> QED BY <5>2 DEF ObservedBody
      <4> QED BY <4>1, <4>2
    <3>3. CASE i = m
      BY <3>2, <3>3
    <3>4. CASE i # m
      <4>1. i <= j
        BY <2>1, <3>1, <3>4
      <4>2. f[i] = B(f, i)
        BY <2>2, <4>1
      <4>3. g[i] = f[i]
        BY <2>3, <3>4
      <4> QED BY <3>2, <4>2, <4>3
    <3> QED BY <3>3, <3>4
  <2>6. Solves(g, m)
    BY <2>4, <2>5
  <2> HIDE DEF g, Solves
  <2> QED BY <2>6
<1>3. n \in T
  <2> HIDE DEF T
  <2> QED BY <1>1, <1>2, NatSetInduction
<1>4. PICK f : Solves(f, n)
  BY <1>3
<1>5. \A i \in D : f[i] = B(f, i)
  BY <1>4
<1>6. f = [i \in D |-> B(f, i)]
  BY <1>4, <1>5
<1> QED BY <1>6

\* The history after the first i rows of a point.
RowEntries(rows, eps, i) == [j \in 1 .. i |-> Entry(rows[j], stage, gi, eps)]
SeenTo(rows, eps, i) == seen \o RowEntries(rows, eps, i)

\* The elements of a concatenation.
LEMMA Joined ==
  ASSUME NEW S, NEW s \in Seq(S), NEW t \in Seq(S), NEW n, Len(t) = n
  PROVE  /\ s \o t \in Seq(S) /\ Len(s \o t) = Len(s) + n
         /\ \A j \in 1 .. Len(s) : (s \o t)[j] = s[j]
         /\ \A j \in 1 .. n : (s \o t)[Len(s) + j] = t[j]
<1>1. Len(s) \in Nat /\ n \in Nat
  OBVIOUS
<1>2. /\ s \o t \in Seq(S) /\ Len(s \o t) = Len(s) + n
      /\ \A j \in 1 .. Len(s) + n : (s \o t)[j] = IF j <= Len(s) THEN s[j] ELSE t[j - Len(s)]
  BY ConcatProperties
<1>3. \A j \in 1 .. Len(s) : j <= Len(s) /\ j \in 1 .. Len(s) + n
  BY <1>1
<1>4. \A j \in 1 .. n : /\ ~ (Len(s) + j <= Len(s)) /\ Len(s) + j \in 1 .. Len(s) + n
                       /\ (Len(s) + j) - Len(s) = j
  BY <1>1
<1> QED BY <1>2, <1>3, <1>4

\* A point's rows are entries, and the history grows by one of them at a time.
LEMMA SeenToFacts ==
  ASSUME seen \in Seq(EntrySet), stage \in Nat, gi \in Nat,
         NEW rows \in Seq(Vectors), NEW eps \in Cells, NEW i \in 0 .. Len(rows)
  PROVE  /\ SeenTo(rows, eps, i) \in Seq(EntrySet)
         /\ Len(SeenTo(rows, eps, i)) = Len(seen) + i
         /\ \A j \in 1 .. Len(seen) : SeenTo(rows, eps, i)[j] = seen[j]
         /\ \A j \in 1 .. i : SeenTo(rows, eps, i)[Len(seen) + j] = Entry(rows[j], stage, gi, eps)
         /\ i = 0 => SeenTo(rows, eps, i) = seen
         /\ i # 0 => SeenTo(rows, eps, i) =
                       Append(SeenTo(rows, eps, i - 1), Entry(rows[i], stage, gi, eps))
<1> DEFINE R(k) == RowEntries(rows, eps, k)
           e == Entry(rows[i], stage, gi, eps)
<1>1. \A k \in 1 .. Len(rows) : Entry(rows[k], stage, gi, eps) \in EntrySet
  BY DEF Entry, EntrySet
<1>2. i \in Nat /\ i <= Len(rows) /\ Len(rows) \in Nat /\ Len(seen) \in Nat
  OBVIOUS
<1>3. \A k \in 0 .. i : R(k) \in Seq(EntrySet) /\ Len(R(k)) = k
                        /\ \A j \in 1 .. k : R(k)[j] = Entry(rows[j], stage, gi, eps)
  <2> SUFFICES ASSUME NEW k \in 0 .. i
               PROVE  R(k) \in Seq(EntrySet) /\ Len(R(k)) = k
                      /\ \A j \in 1 .. k : R(k)[j] = Entry(rows[j], stage, gi, eps)
    OBVIOUS
  <2>1. \A j \in 1 .. k : j \in 1 .. Len(rows)
    BY <1>2
  <2>2. k \in Nat /\ \A j \in 1 .. k : R(k)[j] \in EntrySet /\ R(k)[j] = Entry(rows[j], stage, gi, eps)
    BY <1>1, <1>2, <2>1 DEF RowEntries
  <2>3. R(k) = [j \in 1 .. k |-> R(k)[j]]
    BY DEF RowEntries
  <2> HIDE DEF R
  <2>4. R(k) \in Seq(EntrySet) /\ Len(R(k)) = k
    BY <2>2, <2>3
  <2> QED BY <2>2, <2>4
<1>4. i \in 0 .. i
  BY <1>2
<1> HIDE DEF R, e
<1>5. /\ seen \o R(i) \in Seq(EntrySet) /\ Len(seen \o R(i)) = Len(seen) + i
      /\ \A j \in 1 .. Len(seen) : (seen \o R(i))[j] = seen[j]
      /\ \A j \in 1 .. i : (seen \o R(i))[Len(seen) + j] = Entry(rows[j], stage, gi, eps)
  <2>1. R(i) \in Seq(EntrySet) /\ Len(R(i)) = i
        /\ \A j \in 1 .. i : R(i)[j] = Entry(rows[j], stage, gi, eps)
    BY <1>3, <1>4
  <2>2. /\ seen \o R(i) \in Seq(EntrySet) /\ Len(seen \o R(i)) = Len(seen) + i
        /\ \A j \in 1 .. Len(seen) : (seen \o R(i))[j] = seen[j]
        /\ \A j \in 1 .. i : (seen \o R(i))[Len(seen) + j] = R(i)[j]
    BY <2>1, Joined
  <2> QED BY <2>1, <2>2
<1>6. ASSUME i = 0 PROVE seen \o R(i) = seen
  <2>1. R(i) = <<>>
    BY <1>3, <1>4, <1>6
  <2> QED BY <2>1, ConcatEmptySeq
<1>7. ASSUME i # 0 PROVE seen \o R(i) = Append(seen \o R(i - 1), e)
  <2>1. i - 1 \in 0 .. i /\ i - 1 \in Nat /\ i \in 1 .. Len(rows)
    BY <1>2, <1>7
  <2>2. e \in EntrySet
    BY <1>1, <2>1 DEF e
  <2>3. R(i - 1) \in Seq(EntrySet) /\ Len(R(i - 1)) = i - 1
        /\ \A j \in 1 .. i - 1 : R(i - 1)[j] = Entry(rows[j], stage, gi, eps)
    BY <1>3, <2>1
  <2>4. /\ seen \o R(i - 1) \in Seq(EntrySet) /\ Len(seen \o R(i - 1)) = Len(seen) + (i - 1)
        /\ \A j \in 1 .. Len(seen) : (seen \o R(i - 1))[j] = seen[j]
        /\ \A j \in 1 .. i - 1 : (seen \o R(i - 1))[Len(seen) + j] = R(i - 1)[j]
    <3> DEFINE k == i - 1
               r == R(k)
    <3>1. r \in Seq(EntrySet) /\ Len(r) = k
      BY <2>3
    <3> HIDE DEF k, r
    <3>2. /\ seen \o r \in Seq(EntrySet) /\ Len(seen \o r) = Len(seen) + k
          /\ \A j \in 1 .. Len(seen) : (seen \o r)[j] = seen[j]
          /\ \A j \in 1 .. k : (seen \o r)[Len(seen) + j] = r[j]
      BY <3>1, Joined
    <3> QED BY <3>2 DEF k, r
  <2> DEFINE a == seen \o R(i - 1)
             b == seen \o R(i)
             m == Len(seen)
  <2>5. /\ Append(a, e) \in Seq(EntrySet) /\ Len(Append(a, e)) = m + i
        /\ \A j \in 1 .. m + (i - 1) : Append(a, e)[j] = a[j]
        /\ Append(a, e)[m + i] = e
    <3>1. a \in Seq(EntrySet) /\ Len(a) = m + (i - 1)
      BY <2>4
    <3>2. (m + (i - 1)) + 1 = m + i
      BY <1>2
    <3> HIDE DEF a
    <3> QED BY <2>2, <3>1, <3>2, AppendProperties
  <2>6. \A j \in 1 .. m + i : b[j] = Append(a, e)[j]
    <3> SUFFICES ASSUME NEW j \in 1 .. m + i PROVE b[j] = Append(a, e)[j]
      OBVIOUS
    <3>1. CASE j <= m
      <4>1. j \in 1 .. m /\ j \in 1 .. m + (i - 1)
        BY <1>2, <1>7, <3>1
      <4>2. b[j] = seen[j]
        BY <1>5, <4>1
      <4>3. a[j] = seen[j]
        BY <2>4, <4>1
      <4> QED BY <2>5, <4>1, <4>2, <4>3
    <3>2. CASE m < j /\ j # m + i
      <4>1. j - m \in 1 .. i - 1 /\ j - m \in 1 .. i /\ m + (j - m) = j /\ j \in 1 .. m + (i - 1)
        BY <1>2, <3>2
      <4>2. b[j] = Entry(rows[j - m], stage, gi, eps)
        BY <1>5, <4>1
      <4>3. a[j] = Entry(rows[j - m], stage, gi, eps)
        <5>1. a[m + (j - m)] = R(i - 1)[j - m]
          BY <2>4, <4>1
        <5> QED BY <2>3, <4>1, <5>1
      <4> QED BY <2>5, <4>1, <4>2, <4>3
    <3>3. CASE j = m + i
      <4>1. i \in 1 .. i
        BY <1>2, <1>7
      <4>2. b[j] = e
        BY <1>5, <3>3, <4>1 DEF e
      <4> QED BY <2>5, <3>3, <4>2
    <3>4. j <= m \/ (m < j /\ j # m + i) \/ j = m + i
      BY <1>2
    <3> HIDE DEF a, b, m
    <3> QED BY <3>1, <3>2, <3>3, <3>4
  <2> HIDE DEF a, b
  <2>7. b \in Seq(EntrySet) /\ Len(b) = m + i
    BY <1>5 DEF b
  <2>8. b = Append(a, e)
    BY <2>5, <2>6, <2>7, SeqEqual
  <2> QED BY <2>8 DEF a, b
<1> QED BY <1>5, <1>6, <1>7 DEF SeenTo, R, e

\* After the rows of a point the candidates are those of the longer history.
LEMMA RowsObserved ==
  ASSUME CandidatesOf(items, seen), seq = Len(seen), stage \in Nat, gi \in Nat,
         NEW rows \in Seq(Vectors), NEW eps \in Cells,
         NEW f, f = CHOOSE g : g = [i \in 0 .. Len(rows) |-> ObservedBody(g, rows, eps, i)]
  PROVE  CandidatesOf(f[Len(rows)], SeenTo(rows, eps, Len(rows)))
<1> DEFINE n == Len(rows)
           T == {i \in Nat : i <= n => CandidatesOf(f[i], SeenTo(rows, eps, i))}
<1>1. n \in Nat /\ seen \in Seq(EntrySet)
  BY DEF CandidatesOf
<1>2. f = [i \in 0 .. n |-> ObservedBody(f, rows, eps, i)]
  <2>1. \E g : g = [i \in 0 .. Len(rows) |-> ObservedBody(g, rows, eps, i)]
    BY <1>1, ObservedExists
  <2> QED BY <2>1
<1>3. \A i \in 0 .. n : f[i] = ObservedBody(f, rows, eps, i)
  BY <1>2
<1>4. 0 \in T
  <2>1. 0 \in 0 .. n
    BY <1>1
  <2>2. SeenTo(rows, eps, 0) = seen
    BY <1>1, <2>1, SeenToFacts
  <2>3. f[0] = items
    BY <1>3, <2>1 DEF ObservedBody
  <2> QED BY <2>2, <2>3
<1>5. \A i \in T : i \in Nat => i + 1 \in T
  <2> SUFFICES ASSUME NEW i \in T, i + 1 <= n
               PROVE  CandidatesOf(f[i + 1], SeenTo(rows, eps, i + 1))
    OBVIOUS
  <2> DEFINE j == i + 1
             h == SeenTo(rows, eps, i)
             e == Entry(rows[j], stage, gi, eps)
  <2>1. i \in Nat /\ j # 0 /\ j - 1 = i /\ i \in 0 .. n /\ j \in 0 .. n /\ j \in 1 .. n
    BY <1>1
  <2>2. CandidatesOf(f[i], h)
    BY <1>1, <2>1
  <2>3. Len(h) = seq + i
    BY <1>1, <2>1, SeenToFacts
  <2>4. SeenTo(rows, eps, j) = Append(h, e)
    BY <1>1, <2>1, SeenToFacts
  <2>5. rows[j] \in Vectors
    BY <2>1
  <2>6. f[j] = Observe(f[i], rows[j], Len(h) + 1, stage, eps)
    <3>1. f[j] = ObservedBody(f, rows, eps, j)
      BY <1>3, <2>1
    <3>2. seq + j = Len(h) + 1
      BY <1>1, <2>1, <2>3
    <3> HIDE DEF h, j
    <3> QED BY <2>1, <3>1, <3>2 DEF ObservedBody
  <2> HIDE DEF h, j
  <2>7. CandidatesOf(Observe(f[i], rows[j], Len(h) + 1, stage, eps), Append(h, e))
    BY <2>2, <2>5, ObserveKeeps
  <2> QED BY <2>4, <2>6, <2>7 DEF j
<1>6. n \in T
  <2> HIDE DEF T
  <2> QED BY <1>1, <1>4, <1>5, NatSetInduction
<1> QED BY <1>1, <1>6

(***************************************************************************)
(* CandidateSearch: the inductive invariant.                               *)
(***************************************************************************)

\* The match is the last occurrence of the frozen table.
MatchOf(m, h) ==
  /\ m.found \in BOOLEAN
  /\ m.found <=> Occurs(h, Frozen) # {}
  /\ \A j : IsGreatest(j, Occurs(h, Frozen)) => m.stage = h[j].stage /\ m.gi = h[j].gi

\* The points visited before point i of stage z.
DoneBefore(z, i) ==
  [y \in DOMAIN Points |-> IF y < z THEN Points[y] ELSE IF y = z THEN i ELSE 0]

\* What has been kept of the vectors seen.
SetInv ==
  /\ CandidatesOf(items, seen) /\ seq = Len(seen)
  /\ MatchOf(match, seen)
  /\ hashes \in Seq(Int) /\ (items # <<>> => hashes # <<>>)

\* Where the search is in its stages, and what makes it leave them.
ProgressInv ==
  /\ stop \in BOOLEAN /\ phase \in {"exited", "search", "write", "summary", "complete"}
  /\ stage \in 1 .. Len(Points) /\ gi \in Nat
  /\ phase = "search" =>
       gi < Points[stage] /\ done = DoneBefore(stage, gi) /\ (match.found => ~ stop)
  /\ phase \in {"write", "summary", "complete"} /\ ~ (stop /\ match.found) => done = Points

\* The candidates written are in their files, unless these could not be opened.
FilesInv ==
  /\ IsFiniteSet(DOMAIN files) /\ written \in Nat
  /\ phase = "search" => written = 0
  /\ phase \in {"write", "summary", "complete"} =>
       /\ written <= Len(items)
       /\ \A i \in (1 .. written) \ skipped : i \in DOMAIN files /\ files[i] = items[i].v
  /\ phase \in {"summary", "complete"} => written = Len(items) /\ hashLines = Len(hashes)
  /\ phase = "complete" => summary = Len(items)

SearchInv == SetInv /\ ProgressInv /\ FilesInv

\* What the assumptions on the constants say of the points.
LEMMA PointsFacts ==
  /\ DOMAIN Points = 1 .. Len(Points) /\ Len(Points) \in Nat /\ 1 \in 1 .. Len(Points)
  /\ \A z \in 1 .. Len(Points) : Points[z] \in Nat /\ Points[z] # 0
  /\ Points = [z \in DOMAIN Points |-> Points[z]]
  BY SearchAssumption

\* A search that has seen nothing.
LEMMA NothingSeen ==
  ASSUME items = <<>>, seen = <<>>, seq = 0, match = NoMatch, hashes = <<>>
  PROVE  SetInv
<1>1. items \in Seq(ItemSet) /\ seen \in Seq(EntrySet) /\ DOMAIN seen = {} /\ DOMAIN items = {}
  OBVIOUS
<1>2. CandidatesOf(items, seen)
  BY <1>1 DEF CandidatesOf
<1>3. Occurs(seen, Frozen) = {}
  BY <1>1 DEF Occurs
<1>4. MatchOf(match, seen)
  BY <1>3 DEF MatchOf, IsGreatest, NoMatch
<1>5. seq = Len(seen) /\ hashes \in Seq(Int) /\ (items # <<>> => hashes # <<>>)
  OBVIOUS
<1> QED BY <1>2, <1>4, <1>5 DEF SetInv

\* The first point of the first stage.
LEMMA NothingDone ==
  /\ [z \in DOMAIN Points |-> 0] = DoneBefore(1, 0)
  /\ 0 < Points[1] /\ 1 \in 1 .. Len(Points)
<1>1. \A z \in DOMAIN Points : (IF z < 1 THEN Points[z] ELSE IF z = 1 THEN 0 ELSE 0) = 0
  BY PointsFacts
<1>2. [z \in DOMAIN Points |-> 0] = DoneBefore(1, 0)
  BY <1>1 DEF DoneBefore
<1> QED BY <1>2, PointsFacts

LEMMA SearchInitially == SearchInit => SearchInv
<1> SUFFICES ASSUME SearchInit PROVE SearchInv
  OBVIOUS
<1>1. SetInv
  BY NothingSeen DEF SearchInit
<1>2. ProgressInv
  BY PointsFacts DEF SearchInit, ProgressInv
<1>3. FilesInv
  <2>1. DOMAIN files = {}
    BY DEF SearchInit
  <2> QED BY <2>1, FS_EmptySet DEF SearchInit, FilesInv
<1> QED BY <1>1, <1>2, <1>3 DEF SearchInv

LEMMA BeginKeeps == SearchInv /\ Begin => SearchInv'
<1> SUFFICES ASSUME SearchInv, Begin PROVE SearchInv'
  OBVIOUS
<1>1. /\ stop' \in BOOLEAN /\ phase' = "search" /\ files' = files
      /\ stage' = 1 /\ gi' = 0 /\ done' = [z \in DOMAIN Points |-> 0]
      /\ items' = <<>> /\ hashes' = <<>> /\ seq' = 0 /\ match' = NoMatch /\ seen' = <<>>
      /\ written' = 0
  BY DEF Begin, Fresh, directory
<1>2. SetInv'
  <2>1. (items = <<>> /\ seen = <<>> /\ seq = 0 /\ match = NoMatch /\ hashes = <<>>)'
    BY <1>1
  <2> QED BY <2>1, NothingSeen, PTL
<1>3. ProgressInv'
  BY <1>1, NothingDone DEF ProgressInv, NoMatch
<1>4. FilesInv'
  BY <1>1 DEF FilesInv, SearchInv
<1> QED BY <1>2, <1>3, <1>4 DEF SearchInv

\* A step that leaves the search alone keeps what it has seen.
LEMMA SetStays ==
  ASSUME SetInv, UNCHANGED search
  PROVE  SetInv'
  BY DEF SetInv, search

LEMMA LeaveKeeps == SearchInv /\ (Fail \/ Die) => SearchInv'
<1> SUFFICES ASSUME SearchInv, Fail \/ Die PROVE SearchInv'
  OBVIOUS
<1>1. /\ phase' = "exited" /\ UNCHANGED search /\ UNCHANGED directory
      /\ stop' = stop /\ written' = written
  BY DEF Fail, Die
<1>2. SetInv'
  BY <1>1, SetStays DEF SearchInv
<1>3. ProgressInv'
  BY <1>1 DEF SearchInv, ProgressInv, search
<1>4. FilesInv'
  BY <1>1 DEF SearchInv, FilesInv, directory
<1> QED BY <1>2, <1>3, <1>4 DEF SearchInv

LEMMA WriteCandidateKeeps == SearchInv /\ WriteCandidate => SearchInv'
<1> SUFFICES ASSUME SearchInv, WriteCandidate PROVE SearchInv'
  OBVIOUS
<1>1. /\ phase = "write" /\ phase' = phase /\ UNCHANGED search /\ stop' = stop
      /\ written < Len(items) /\ written' = written + 1
  BY DEF WriteCandidate
<1>2. SetInv'
  BY <1>1, SetStays DEF SearchInv
<1>3. ProgressInv'
  BY <1>1 DEF SearchInv, ProgressInv, search
<1>4. FilesInv'
  <2> DEFINE w == written + 1
  <2>1. /\ IsFiniteSet(DOMAIN files) /\ written \in Nat /\ items' = items
        /\ \A i \in (1 .. written) \ skipped : i \in DOMAIN files /\ files[i] = items[i].v
    BY <1>1 DEF SearchInv, FilesInv, search
  <2>2. Len(items) \in Nat
    BY DEF SearchInv, SetInv, CandidatesOf
  <2>3. w \in Nat /\ w <= Len(items) /\ \A i \in 1 .. w : i = w \/ (i \in 1 .. written /\ i # w)
    BY <1>1, <2>1, <2>2
  <2>4. CASE files' = WithFile(w, items[w].v) /\ skipped' = skipped
    <3>1. /\ DOMAIN files' = DOMAIN files \union {w}
          /\ files'[w] = items[w].v
          /\ \A i \in DOMAIN files : i # w => files'[i] = files[i]
      <4> HIDE DEF w
      <4> QED BY <2>4 DEF WithFile
    <3>2. IsFiniteSet(DOMAIN files')
      BY <2>1, <3>1, FS_AddElement
    <3>3. \A i \in (1 .. w) \ skipped' : i \in DOMAIN files' /\ files'[i] = items[i].v
      <4> HIDE DEF w
      <4> QED BY <2>1, <2>3, <2>4, <3>1
    <3> QED BY <1>1, <2>1, <2>3, <3>2, <3>3 DEF FilesInv
  <2>5. CASE files' = files /\ skipped' = skipped \union {w}
    <3>1. \A i \in (1 .. w) \ skipped' : i \in DOMAIN files' /\ files'[i] = items[i].v
      <4> HIDE DEF w
      <4> QED BY <2>1, <2>3, <2>5
    <3> QED BY <1>1, <2>1, <2>3, <2>5, <3>1 DEF FilesInv
  <2> QED BY <1>1, <2>4, <2>5 DEF WriteCandidate
<1> QED BY <1>2, <1>3, <1>4 DEF SearchInv

LEMMA WriteHashesKeeps == SearchInv /\ WriteHashes => SearchInv'
<1> SUFFICES ASSUME SearchInv, WriteHashes PROVE SearchInv'
  OBVIOUS
<1>1. /\ phase = "write" /\ phase' = "summary" /\ UNCHANGED search /\ stop' = stop
      /\ files' = files /\ written' = written /\ skipped' = skipped
      /\ written = Len(items) /\ hashLines' = Len(hashes)
  BY DEF WriteHashes
<1>2. SetInv'
  BY <1>1, SetStays DEF SearchInv
<1>3. ProgressInv'
  BY <1>1 DEF SearchInv, ProgressInv, search
<1>4. FilesInv'
  BY <1>1 DEF SearchInv, FilesInv, search
<1> QED BY <1>2, <1>3, <1>4 DEF SearchInv

LEMMA WriteSummaryKeeps == SearchInv /\ WriteSummary => SearchInv'
<1> SUFFICES ASSUME SearchInv, WriteSummary PROVE SearchInv'
  OBVIOUS
<1>1. /\ phase = "summary" /\ phase' = "complete" /\ UNCHANGED search /\ stop' = stop
      /\ files' = files /\ written' = written /\ skipped' = skipped
      /\ hashLines' = hashLines /\ summary' = Len(items)
  BY DEF WriteSummary
<1>2. SetInv'
  BY <1>1, SetStays DEF SearchInv
<1>3. ProgressInv'
  BY <1>1 DEF SearchInv, ProgressInv, search
<1>4. FilesInv'
  BY <1>1 DEF SearchInv, FilesInv, search
<1> QED BY <1>2, <1>3, <1>4 DEF SearchInv

\* The history after a point: if the frozen table is among its rows, the last
\* occurrence of it is one of them.
LEMMA MatchKeeps ==
  ASSUME seen \in Seq(EntrySet), MatchOf(match, seen), stage \in Nat, gi \in Nat,
         NEW rows \in Seq(Vectors), NEW eps \in Cells, NEW m,
         m = IF Frozen \in Range(rows)
             THEN [found |-> TRUE, stage |-> stage, gi |-> gi, inside |-> eps \in Paper]
             ELSE match
  PROVE  MatchOf(m, SeenTo(rows, eps, Len(rows)))
<1> DEFINE n == Len(rows)
           l == Len(seen)
           g == SeenTo(rows, eps, n)
<1>1. /\ g \in Seq(EntrySet) /\ Len(g) = l + n /\ n \in Nat /\ l \in Nat
      /\ \A j \in 1 .. l : g[j] = seen[j]
      /\ \A j \in 1 .. n : g[l + j] = Entry(rows[j], stage, gi, eps)
  <2>1. n \in 0 .. Len(rows)
    OBVIOUS
  <2> QED BY <2>1, SeenToFacts
<1>2. DOMAIN g = 1 .. l + n /\ DOMAIN seen = 1 .. l /\ DOMAIN rows = 1 .. n
  BY <1>1
<1> HIDE DEF n, l, g
<1>3. \A j \in 1 .. l + n : j \in 1 .. l \/ (j - l \in 1 .. n /\ l + (j - l) = j)
  BY <1>1
<1>4. \A j \in 1 .. n : /\ l + j \in 1 .. l + n /\ g[l + j].v = rows[j]
                       /\ g[l + j].stage = stage /\ g[l + j].gi = gi
  <2> SUFFICES ASSUME NEW j \in 1 .. n
               PROVE  /\ l + j \in 1 .. l + n /\ g[l + j].v = rows[j]
                      /\ g[l + j].stage = stage /\ g[l + j].gi = gi
    OBVIOUS
  <2>1. l + j \in 1 .. l + n
    BY <1>1
  <2>2. g[l + j] = Entry(rows[j], stage, gi, eps)
    BY <1>1
  <2>3. g[l + j].v = rows[j] /\ g[l + j].stage = stage /\ g[l + j].gi = gi
    BY <2>2 DEF Entry
  <2> QED BY <2>1, <2>3
<1>5. CASE Frozen \in Range(rows)
  <2>1. PICK i \in 1 .. n : rows[i] = Frozen
    BY <1>2, <1>5 DEF Range
  <2>2. l + i \in Occurs(g, Frozen)
    BY <1>2, <1>4, <2>1 DEF Occurs
  <2>3. \A j : IsGreatest(j, Occurs(g, Frozen)) => g[j].stage = stage /\ g[j].gi = gi
    <3> SUFFICES ASSUME NEW j, IsGreatest(j, Occurs(g, Frozen))
                 PROVE  g[j].stage = stage /\ g[j].gi = gi
      OBVIOUS
    <3>1. j \in 1 .. l + n /\ l + i <= j
      BY <1>2, <2>2 DEF IsGreatest, Occurs
    <3>2. j \notin 1 .. l
      BY <1>1, <3>1
    <3>3. j - l \in 1 .. n /\ l + (j - l) = j
      BY <1>3, <3>1, <3>2
    <3>4. g[l + (j - l)].stage = stage /\ g[l + (j - l)].gi = gi
      BY <1>4, <3>3
    <3> QED BY <3>3, <3>4
  <2>4. m.found = TRUE /\ m.stage = stage /\ m.gi = gi
    BY <1>5
  <2> QED BY <2>2, <2>3, <2>4 DEF MatchOf, g, n
<1>6. CASE Frozen \notin Range(rows)
  <2>1. \A i \in 1 .. n : rows[i] # Frozen
    BY <1>2, <1>6 DEF Range
  <2>2. \A j \in 1 .. l : j \in 1 .. l + n
    BY <1>1
  <2>3. \A j : j \in Occurs(g, Frozen) <=> j \in Occurs(seen, Frozen)
    <3> SUFFICES ASSUME NEW j
                 PROVE  j \in Occurs(g, Frozen) <=> j \in Occurs(seen, Frozen)
      OBVIOUS
    <3>1. ASSUME j \in 1 .. l PROVE j \in Occurs(g, Frozen) <=> j \in Occurs(seen, Frozen)
      BY <1>1, <1>2, <2>2, <3>1 DEF Occurs
    <3>2. ASSUME j \notin 1 .. l PROVE j \notin Occurs(g, Frozen) /\ j \notin Occurs(seen, Frozen)
      <4>1. j \notin Occurs(seen, Frozen)
        BY <1>2, <3>2 DEF Occurs
      <4>2. SUFFICES ASSUME j \in Occurs(g, Frozen) PROVE FALSE
        BY <4>1
      <4>3. j \in 1 .. l + n /\ g[j].v = Frozen
        BY <1>2, <4>2 DEF Occurs
      <4>4. j - l \in 1 .. n /\ l + (j - l) = j
        BY <1>3, <3>2, <4>3
      <4>5. g[l + (j - l)].v = rows[j - l]
        BY <1>4, <4>4
      <4> QED BY <2>1, <4>3, <4>4, <4>5
    <3> QED BY <3>1, <3>2
  <2>4. Occurs(g, Frozen) = Occurs(seen, Frozen)
    BY <2>3
  <2>5. \A j \in Occurs(seen, Frozen) : g[j] = seen[j]
    BY <1>1, <1>2 DEF Occurs
  <2>6. \A j : IsGreatest(j, Occurs(seen, Frozen)) => j \in Occurs(seen, Frozen)
    BY DEF IsGreatest
  <2>7. m = match
    BY <1>6
  <2>8. /\ match.found \in BOOLEAN
        /\ match.found <=> Occurs(seen, Frozen) # {}
        /\ \A j : IsGreatest(j, Occurs(seen, Frozen)) =>
             match.stage = seen[j].stage /\ match.gi = seen[j].gi
    BY DEF MatchOf
  <2>9. MatchOf(match, g)
    <3>1. \A j : IsGreatest(j, Occurs(g, Frozen)) => match.stage = g[j].stage /\ match.gi = g[j].gi
      BY <2>4, <2>5, <2>6, <2>8
    <3>2. match.found <=> Occurs(g, Frozen) # {}
      BY <2>4, <2>8, Zenon
    <3> QED BY <2>8, <3>1, <3>2, Zenon DEF MatchOf
  <2> QED BY <2>7, <2>9 DEF g, n
<1> QED BY <1>5, <1>6

\* One more point done, where the search goes on and where it ends.
LEMMA DoneMore ==
  ASSUME stage \in 1 .. Len(Points), gi \in Nat, gi < Points[stage],
         done = DoneBefore(stage, gi)
  PROVE  LET d == [done EXCEPT ![stage] = @ + 1] IN
           /\ d = DoneBefore(stage, gi + 1)
           /\ gi + 1 >= Points[stage] /\ stage < Len(Points) => d = DoneBefore(stage + 1, 0)
           /\ gi + 1 >= Points[stage] /\ stage >= Len(Points) => d = Points
<1> DEFINE d == [done EXCEPT ![stage] = @ + 1]
<1>1. /\ DOMAIN Points = 1 .. Len(Points) /\ Len(Points) \in Nat /\ stage \in Nat
      /\ \A z \in 1 .. Len(Points) : Points[z] \in Nat
      /\ Points = [z \in DOMAIN Points |-> Points[z]]
  BY PointsFacts
<1>2. d = [z \in DOMAIN Points |-> IF z < stage THEN Points[z] ELSE IF z = stage THEN gi + 1 ELSE 0]
  BY <1>1 DEF DoneBefore
<1> HIDE DEF d
<1>3. d = DoneBefore(stage, gi + 1)
  BY <1>2 DEF DoneBefore
<1>4. ASSUME gi + 1 >= Points[stage] PROVE gi + 1 = Points[stage]
  BY <1>1, <1>4
<1>5. ASSUME gi + 1 >= Points[stage], stage < Len(Points) PROVE d = DoneBefore(stage + 1, 0)
  <2>1. \A z \in DOMAIN Points :
          (IF z < stage THEN Points[z] ELSE IF z = stage THEN gi + 1 ELSE 0)
            = (IF z < stage + 1 THEN Points[z] ELSE IF z = stage + 1 THEN 0 ELSE 0)
    BY <1>1, <1>4, <1>5
  <2> QED BY <1>2, <2>1 DEF DoneBefore
<1>6. ASSUME gi + 1 >= Points[stage], stage >= Len(Points) PROVE d = Points
  <2>1. \A z \in DOMAIN Points :
          (IF z < stage THEN Points[z] ELSE IF z = stage THEN gi + 1 ELSE 0) = Points[z]
    BY <1>1, <1>4, <1>6
  <2> QED BY <1>1, <1>2, <2>1
<1> QED BY <1>3, <1>5, <1>6 DEF d

LEMMA PointKeeps == SearchInv /\ Point => SearchInv'
<1> SUFFICES ASSUME SearchInv, Point PROVE SearchInv'
  OBVIOUS
<1>1. /\ phase = "search" /\ stop' = stop /\ written' = written /\ skipped' = skipped
      /\ UNCHANGED directory
  BY DEF Point
<1> DEFINE here(eps) == [found |-> TRUE, stage |-> stage, gi |-> gi, inside |-> eps \in Paper]
           Obs(rows, eps) == CHOOSE f : f = [i \in 0 .. Len(rows) |-> ObservedBody(f, rows, eps, i)]
<1>2. PICK eps \in Cells, rows \in BoundedSeq(Vectors, Rows) :
        /\ done' = [done EXCEPT ![stage] = @ + 1]
        /\ hashes' = IF Hash(eps) \in Range(hashes) THEN hashes ELSE Append(hashes, Hash(eps))
        /\ items' = Obs(rows, eps)[Len(rows)]
        /\ seq' = seq + Len(rows)
        /\ match' = IF Frozen \in Range(rows) THEN here(eps) ELSE match
        /\ seen' = SeenTo(rows, eps, Len(rows))
        /\ Advance(match'.found)
  BY DEF Point, ObservedBody, SeenTo, RowEntries, Entry
<1>3. rows \in Seq(Vectors)
  BY SearchAssumption DEF BoundedSeq, SeqOf
<1>4. /\ CandidatesOf(items, seen) /\ seq = Len(seen) /\ MatchOf(match, seen)
      /\ hashes \in Seq(Int) /\ seen \in Seq(EntrySet)
  BY DEF SearchInv, SetInv, CandidatesOf
<1>5. /\ stop \in BOOLEAN /\ stage \in 1 .. Len(Points) /\ gi \in Nat
      /\ gi < Points[stage] /\ done = DoneBefore(stage, gi) /\ (match.found => ~ stop)
  BY <1>1 DEF SearchInv, ProgressInv
<1>6. stage \in Nat /\ Len(Points) \in Nat /\ Points[stage] \in Nat
  BY <1>5, PointsFacts
<1>7. CandidatesOf(items', seen')
  <2> DEFINE f == Obs(rows, eps)
  <2>1. f = CHOOSE g : g = [i \in 0 .. Len(rows) |-> ObservedBody(g, rows, eps, i)]
    OBVIOUS
  <2> HIDE DEF f
  <2>2. CandidatesOf(f[Len(rows)], SeenTo(rows, eps, Len(rows)))
    BY <1>3, <1>4, <1>5, <1>6, <2>1, RowsObserved
  <2> QED BY <1>2, <2>2 DEF f
<1> HIDE DEF Obs
<1>8. seq' = Len(seen')
  <2>1. Len(rows) \in 0 .. Len(rows)
    BY <1>3
  <2> QED BY <1>2, <1>3, <1>4, <1>5, <1>6, <2>1, SeenToFacts
<1>9. MatchOf(match', seen')
  <2>1. match' = IF Frozen \in Range(rows) THEN here(eps) ELSE match
    BY <1>2
  <2>2. MatchOf(match', SeenTo(rows, eps, Len(rows)))
    BY <1>3, <1>4, <1>5, <1>6, <2>1, MatchKeeps
  <2> QED BY <1>2, <2>2
<1>10. hashes' \in Seq(Int) /\ hashes' # <<>>
  <2>1. Hash(eps) \in Int
    BY SearchAssumption DEF Hash
  <2>2. CASE Hash(eps) \in Range(hashes)
    <3>1. hashes # <<>>
      BY <1>4, <2>2 DEF Range
    <3> QED BY <1>2, <1>4, <2>2, <3>1
  <2>3. CASE Hash(eps) \notin Range(hashes)
    <3>1. hashes' = Append(hashes, Hash(eps))
      BY <1>2, <2>3
    <3> QED BY <1>4, <2>1, <3>1, AppendProperties
  <2> QED BY <2>2, <2>3
<1>11. SetInv'
  BY <1>7, <1>8, <1>9, <1>10 DEF SetInv
<1>12. match'.found \in BOOLEAN
  BY <1>9 DEF MatchOf
<1>13. /\ done' = DoneBefore(stage, gi + 1)
       /\ gi + 1 >= Points[stage] /\ stage < Len(Points) => done' = DoneBefore(stage + 1, 0)
       /\ gi + 1 >= Points[stage] /\ stage >= Len(Points) => done' = Points
  BY <1>2, <1>5, DoneMore
<1>14. \/ match'.found /\ stop /\ phase' = "write" /\ UNCHANGED <<stage, gi>>
       \/ ~ (match'.found /\ stop) /\ gi + 1 < Points[stage]
            /\ gi' = gi + 1 /\ UNCHANGED <<stage, phase>>
       \/ ~ (match'.found /\ stop) /\ ~ (gi + 1 < Points[stage]) /\ stage < Len(Points)
            /\ stage' = stage + 1 /\ gi' = 0 /\ UNCHANGED phase
       \/ ~ (match'.found /\ stop) /\ ~ (gi + 1 < Points[stage]) /\ ~ (stage < Len(Points))
            /\ phase' = "write" /\ UNCHANGED <<stage, gi>>
  <2>1. Advance(match'.found)
    BY <1>2
  <2> QED BY <2>1, Zenon DEF Advance
<1>15. ProgressInv'
  <2>1. CASE match'.found /\ stop /\ phase' = "write" /\ UNCHANGED <<stage, gi>>
    BY <1>1, <1>5, <2>1 DEF ProgressInv
  <2>2. CASE ~ (match'.found /\ stop) /\ gi + 1 < Points[stage]
               /\ gi' = gi + 1 /\ UNCHANGED <<stage, phase>>
    <3>1. stage' = stage /\ gi' = gi + 1 /\ gi' \in Nat /\ phase' = "search" /\ stop' \in BOOLEAN
      BY <1>1, <1>5, <2>2
    <3>2. match'.found => ~ stop'
      BY <1>1, <2>2, Zenon
    <3> QED BY <1>5, <1>13, <2>2, <3>1, <3>2 DEF ProgressInv
  <2>3. CASE ~ (match'.found /\ stop) /\ ~ (gi + 1 < Points[stage]) /\ stage < Len(Points)
               /\ stage' = stage + 1 /\ gi' = 0 /\ UNCHANGED phase
    <3>1. /\ stage' = stage + 1 /\ gi' = 0 /\ phase' = "search" /\ stop' \in BOOLEAN
          /\ stage' \in 1 .. Len(Points)
      BY <1>1, <1>5, <1>6, <2>3
    <3>2. match'.found => ~ stop'
      BY <1>1, <2>3, Zenon
    <3>3. gi' < Points[stage']
      BY <3>1, PointsFacts
    <3>4. done' = DoneBefore(stage', gi')
      BY <1>5, <1>6, <1>13, <2>3, <3>1
    <3> QED BY <3>1, <3>2, <3>3, <3>4 DEF ProgressInv
  <2>4. CASE ~ (match'.found /\ stop) /\ ~ (gi + 1 < Points[stage]) /\ ~ (stage < Len(Points))
               /\ phase' = "write" /\ UNCHANGED <<stage, gi>>
    <3>1. done' = Points
      BY <1>5, <1>6, <1>13, <2>4
    <3> QED BY <1>1, <1>5, <2>4, <3>1 DEF ProgressInv
  <2> QED BY <1>14, <2>1, <2>2, <2>3, <2>4
<1>16. FilesInv'
  <2>1. phase' \in {"search", "write"}
    BY <1>1, <1>14
  <2>2. IsFiniteSet(DOMAIN files') /\ written' = 0
    BY <1>1 DEF SearchInv, FilesInv, directory
  <2>3. Len(items') \in Nat
    BY <1>7 DEF CandidatesOf
  <2> QED BY <2>1, <2>2, <2>3 DEF FilesInv
<1> QED BY <1>11, <1>15, <1>16 DEF SearchInv

LEMMA SearchStep == SearchInv /\ [SearchNext]_searchVars => SearchInv'
<1> SUFFICES ASSUME SearchInv, [SearchNext]_searchVars PROVE SearchInv'
  OBVIOUS
<1>1. CASE Begin
  BY <1>1, BeginKeeps
<1>2. CASE Point
  BY <1>2, PointKeeps
<1>3. CASE Fail \/ Die
  BY <1>3, LeaveKeeps
<1>4. CASE WriteCandidate
  BY <1>4, WriteCandidateKeeps
<1>5. CASE WriteHashes
  BY <1>5, WriteHashesKeeps
<1>6. CASE WriteSummary
  BY <1>6, WriteSummaryKeeps
<1>7. CASE UNCHANGED searchVars
  <2>1. /\ UNCHANGED search /\ UNCHANGED directory
        /\ UNCHANGED <<stop, phase, written, skipped>>
    BY <1>7 DEF searchVars
  <2>2. SetInv'
    BY <2>1, SetStays DEF SearchInv
  <2>3. ProgressInv'
    BY <2>1 DEF SearchInv, ProgressInv, search
  <2>4. FilesInv'
    BY <2>1 DEF SearchInv, FilesInv, search, directory
  <2> QED BY <2>2, <2>3, <2>4 DEF SearchInv
<1> QED BY <1>1, <1>2, <1>3, <1>4, <1>5, <1>6, <1>7 DEF SearchNext

(***************************************************************************)
(* CandidateSearch: the theorems.                                          *)
(***************************************************************************)

LEMMA PlateausOfSet == SetInv /\ ProgressInv => PlateausExact
<1> SUFFICES ASSUME SetInv, ProgressInv PROVE PlateausExact
  OBVIOUS
<1>1. /\ items \in Seq(ItemSet) /\ seen \in Seq(EntrySet)
      /\ \A j \in DOMAIN seen : \E k \in DOMAIN items : items[k].v = seen[j].v
      /\ \A k \in DOMAIN items : Describes(items[k], seen)
      /\ \A k, l \in DOMAIN items : l < k => items[l].first < items[k].first
      /\ seq = Len(seen)
  BY DEF SetInv, CandidatesOf
<1>2. DOMAIN items = 1 .. Len(items) /\ DOMAIN seen = 1 .. Len(seen)
      /\ Len(items) \in Nat /\ Len(seen) \in Nat
  BY <1>1
<1>3. \A v : SeenAt(v) = Occurs(seen, v) /\ Occurs(seen, v) \in SUBSET Nat
  BY <1>1, OccursFinite DEF SeenAt, Occurs
<1>4. \A k \in DOMAIN items :
        /\ IsLeast(items[k].first, Occurs(seen, items[k].v))
        /\ IsGreatest(items[k].last, Occurs(seen, items[k].v))
  BY <1>1 DEF Describes
<1>5. \A k \in DOMAIN items :
        /\ Min(SeenAt(items[k].v)) = items[k].first
        /\ Max(SeenAt(items[k].v)) = items[k].last
        /\ items[k].first \in DOMAIN seen /\ seen[items[k].first].v = items[k].v
  <2> SUFFICES ASSUME NEW k \in DOMAIN items
               PROVE  /\ Min(SeenAt(items[k].v)) = items[k].first
                      /\ Max(SeenAt(items[k].v)) = items[k].last
                      /\ items[k].first \in DOMAIN seen /\ seen[items[k].first].v = items[k].v
    OBVIOUS
  <2>1. Min(SeenAt(items[k].v)) = items[k].first /\ Max(SeenAt(items[k].v)) = items[k].last
    BY <1>3, <1>4, LeastIsMin, GreatestIsMax
  <2>2. items[k].first \in Occurs(seen, items[k].v)
    BY <1>4 DEF IsLeast
  <2> QED BY <2>1, <2>2 DEF Occurs
<1>6. {items[k].v : k \in DOMAIN items} = {seen[j].v : j \in DOMAIN seen}
  <2>1. \A k \in DOMAIN items : \E j \in DOMAIN seen : seen[j].v = items[k].v
    BY <1>5
  <2>2. \A j \in DOMAIN seen : \E k \in DOMAIN items : items[k].v = seen[j].v
    BY <1>1
  <2>3. {items[k].v : k \in DOMAIN items} \subseteq {seen[j].v : j \in DOMAIN seen}
    BY <2>1
  <2>4. {seen[j].v : j \in DOMAIN seen} \subseteq {items[k].v : k \in DOMAIN items}
    BY <2>2
  <2> QED BY <2>3, <2>4
<1>7. ASSUME NEW k \in DOMAIN items
      PROVE  LET at == SeenAt(items[k].v)
                 eps == {seen[j].eps : j \in at} IN
               /\ \A l \in 1 .. k - 1 : Min(SeenAt(items[l].v)) < Min(at)
               /\ items[k].occurrences = Cardinality(at)
               /\ items[k].runs = Cardinality({j \in at : j - 1 \notin at})
               /\ items[k].firstStage = seen[Min(at)].stage
               /\ items[k].lastStage = seen[Max(at)].stage
               /\ items[k].inside = (seen[Min(at)].eps \in Paper)
               /\ items[k].epsMin = Min(eps) /\ items[k].epsMax = Max(eps)
  <2> DEFINE x == items[k]
             at == SeenAt(x.v)
             eps == {seen[j].eps : j \in at}
  <2>1. /\ x.occurrences = Cardinality(at) /\ x.runs = Cardinality(RunStarts(at))
        /\ x.firstStage = seen[x.first].stage /\ x.lastStage = seen[x.last].stage
        /\ x.inside <=> seen[x.first].eps \in Paper
        /\ \E j \in at : x.epsMin = seen[j].eps
        /\ \E j \in at : x.epsMax = seen[j].eps
        /\ \A j \in at : x.epsMin <= seen[j].eps /\ seen[j].eps <= x.epsMax
    <3>1. Describes(x, seen) /\ at = Occurs(seen, x.v)
      BY <1>1, <1>3
    <3> HIDE DEF x, at
    <3> QED BY <3>1, Zenon DEF Describes
  <2>2. Min(at) = x.first /\ Max(at) = x.last
    BY <1>5
  <2>3. \A l \in 1 .. k - 1 : Min(SeenAt(items[l].v)) < Min(at)
    <3> SUFFICES ASSUME NEW l \in 1 .. k - 1 PROVE Min(SeenAt(items[l].v)) < Min(at)
      OBVIOUS
    <3>1. l \in DOMAIN items /\ l < k
      BY <1>2
    <3>2. items[l].first < x.first
      BY <1>1, <3>1
    <3> QED BY <1>5, <2>2, <3>1, <3>2
  <2>4. x.inside \in BOOLEAN
    <3>1. x \in ItemSet
      BY <1>1, <1>2
    <3> HIDE DEF x
    <3> QED BY <3>1 DEF ItemSet
  <2>5. eps \in SUBSET Nat
    <3>1. \A j \in at : j \in DOMAIN seen
      BY DEF SeenAt
    <3>2. \A j \in DOMAIN seen : seen[j].eps \in Nat
      <4>1. \A j \in DOMAIN seen : seen[j] \in EntrySet
        BY <1>1, <1>2
      <4> HIDE DEF x, at, eps
      <4> QED BY <4>1, SearchAssumption DEF EntrySet
    <3> QED BY <3>1, <3>2
  <2> HIDE DEF x, at
  <2>6. x.epsMin = Min(eps) /\ x.epsMax = Max(eps)
    <3>1. IsLeast(x.epsMin, eps) /\ IsGreatest(x.epsMax, eps)
      BY <2>1 DEF IsLeast, IsGreatest
    <3> HIDE DEF eps
    <3> QED BY <2>5, <3>1, LeastIsMin, GreatestIsMax
  <2>7. x.inside = (seen[Min(at)].eps \in Paper)
    <3>1. x.inside <=> seen[Min(at)].eps \in Paper
      BY <2>1, <2>2, Zenon
    <3> QED BY <2>4, <3>1
  <2>8. x.runs = Cardinality({j \in at : j - 1 \notin at})
    BY <2>1 DEF RunStarts
  <2>9. x.firstStage = seen[Min(at)].stage /\ x.lastStage = seen[Max(at)].stage
    BY <2>1, <2>2
  <2> QED BY <2>1, <2>3, <2>6, <2>7, <2>8, <2>9, Zenon DEF x, at
<1>8. MatchOf(match, seen)
  BY DEF SetInv
<1>9. match.found <=> SeenAt(Frozen) # {}
  <2>1. match.found <=> Occurs(seen, Frozen) # {}
    BY <1>8, Zenon DEF MatchOf
  <2>2. SeenAt(Frozen) = Occurs(seen, Frozen)
    BY <1>3
  <2> QED BY <2>1, <2>2, Zenon
<1>10. ASSUME match.found
       PROVE  LET j == Max(SeenAt(Frozen)) IN match.stage = seen[j].stage /\ match.gi = seen[j].gi
  <2>1. PICK j \in Occurs(seen, Frozen) : TRUE
    BY <1>3, <1>9, <1>10
  <2>2. PICK k \in DOMAIN items : items[k].v = Frozen
    BY <1>1, <2>1 DEF Occurs
  <2>3. IsGreatest(items[k].last, Occurs(seen, Frozen))
    BY <1>4, <2>2
  <2>4. Max(SeenAt(Frozen)) = items[k].last
    BY <1>5, <2>2
  <2> QED BY <1>8, <2>3, <2>4 DEF MatchOf
<1>11. phase \in {"write", "summary", "complete"} /\ ~ (stop /\ match.found) => done = Points
  BY DEF ProgressInv
<1> QED BY <1>1, <1>6, <1>7, <1>9, <1>10, <1>11 DEF PlateausExact

LEMMA VerifyOfFiles == SetInv /\ FilesInv => VerifySeparates
<1> SUFFICES ASSUME SetInv, FilesInv, phase = "complete"
             PROVE  /\ skipped = {} => (Accepts <=> items # <<>> /\ DOMAIN files = DOMAIN items)
                    /\ \A i \in DOMAIN items \ skipped : files[i] = items[i].v
  BY DEF VerifySeparates
<1>1. /\ items \in Seq(ItemSet) /\ hashes \in Seq(Int) /\ (items # <<>> => hashes # <<>>)
  BY DEF SetInv, CandidatesOf
<1>2. /\ IsFiniteSet(DOMAIN files) /\ written = Len(items) /\ hashLines = Len(hashes)
      /\ summary = Len(items)
      /\ \A i \in (1 .. written) \ skipped : i \in DOMAIN files /\ files[i] = items[i].v
  BY DEF FilesInv
<1>3. DOMAIN items = 1 .. Len(items) /\ Len(items) \in Nat
      /\ (items # <<>> <=> Len(items) # 0) /\ (hashes # <<>> => Len(hashes) # 0)
  BY <1>1
<1>4. \A i \in DOMAIN items \ skipped : files[i] = items[i].v
  BY <1>2, <1>3
<1>5. ASSUME skipped = {} PROVE Accepts <=> items # <<>> /\ DOMAIN files = DOMAIN items
  <2>1. DOMAIN items \in SUBSET (DOMAIN files)
    BY <1>2, <1>3, <1>5
  <2>2. Cardinality(DOMAIN items) = Len(items)
    <3>1. Cardinality(1 .. Len(items)) = IF 1 > Len(items) THEN 0 ELSE Len(items) - 1 + 1
      BY <1>3, FS_Interval
    <3> QED BY <1>3, <3>1
  <2>3. ASSUME Accepts PROVE items # <<>> /\ DOMAIN files = DOMAIN items
    <3>1. Len(items) # 0 /\ Cardinality(DOMAIN files) = Cardinality(DOMAIN items)
      BY <1>2, <2>2, <2>3 DEF Accepts
    <3>2. DOMAIN files = DOMAIN items
      BY <1>2, <2>1, <3>1, FS_Subset
    <3> QED BY <1>3, <3>1, <3>2
  <2>4. ASSUME items # <<>>, DOMAIN files = DOMAIN items PROVE Accepts
    <3>1. summary # 0 /\ hashLines # 0
      BY <1>1, <1>2, <1>3, <2>4
    <3>2. Cardinality(DOMAIN files) = summary
      BY <1>2, <2>2, <2>4
    <3> QED BY <3>1, <3>2 DEF Accepts
  <2> QED BY <2>3, <2>4
<1> QED BY <1>4, <1>5

\* Whatever the vectors of the points, the candidates of a search keep of each
\* vector exactly what its occurrences amount to, the match is the last point
\* with the frozen table, and a search that does not stop on it visits all.
THEOREM PlateausAreExact == SearchSpec => []PlateausExact
<1>1. SearchSpec => []SearchInv
  BY SearchInitially, SearchStep, PTL DEF SearchSpec
<1>2. SearchInv => PlateausExact
  BY PlateausOfSet DEF SearchInv
<1> QED BY <1>1, <1>2, PTL

\* verify_sdat --search-dir accepts the directory of a finished search exactly
\* when there is a candidate and no file of an earlier search beyond them.
THEOREM DirectoryVerified == SearchSpec => []VerifySeparates
<1>1. SearchSpec => []SearchInv
  BY SearchInitially, SearchStep, PTL DEF SearchSpec
<1>2. SearchInv => VerifySeparates
  BY VerifyOfFiles DEF SearchInv
<1> QED BY <1>1, <1>2, PTL
=============================================================================
