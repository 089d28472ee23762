--------------------------- MODULE Falcon_proofs ---------------------------
(***************************************************************************)
(* Proofs about Falcon's base sampler, for every limb width and table.     *)
(*                                                                         *)
(* What the limb arithmetic computes: both decodings yield the limbs of    *)
(* the draw, the borrow chain is integer comparison, the acceptance test   *)
(* is comparison with q, and a lookup counts rows and stays in the         *)
(* support.  On these rest that the kernel inverts the reverse tail, that  *)
(* the coordinates agree and that the masses are exact; and, for every     *)
(* source, request, block size and capacity, the counters, the timing and  *)
(* the workspace of every entry point, and that each implements bounded    *)
(* rejection sampling.                                                     *)
(***************************************************************************)
EXTENDS FalconSampler, FalconLookup, FiniteSetTheorems, TLAPS

\* What holds of every implementation of bounded rejection sampling, under the
\* substitution of this one.
Promise == INSTANCE RejectionSampling_proofs WITH
  Draw <- [kind : {"original", "sda"}, reflected : BOOLEAN, draw : Draw],
  Accept <- AcceptDraw, Image <- ImageDraw,
  draws <- Draws, status <- Status,
  result <- IF Status = "ok" THEN Stored ELSE <<>>

-----------------------------------------------------------------------------
(* Limb arithmetic *)

\* Division with remainder, the one fact the decoding rests on.
LEMMA DivMod ==
  ASSUME NEW a \in Nat, NEW b \in Nat \ {0}
  PROVE  /\ a \div b \in Nat /\ a % b \in 0 .. b - 1
         /\ a = b * (a \div b) + (a % b)
  BY SMT

\* The top bit of a wrapped difference of limbs is the borrow.
LEMMA BorrowExact ==
  ASSUME NEW a \in Limb, NEW b \in Limb, NEW c \in {0, 1}
  PROVE  /\ Borrow(a - b - c) \in {0, 1}
         /\ Borrow(a - b - c) = 1 <=> a < b + c
  BY LimbAssumption DEF Borrow, Wrap, Limb

\* Comparing by limbs, most significant first.
LexLess(a, b) ==
  \/ a.v2 < b.v2
  \/ a.v2 = b.v2 /\ a.v1 < b.v1
  \/ a.v2 = b.v2 /\ a.v1 = b.v1 /\ a.v0 < b.v0

\* The value of limbs, regrouped, with the inner pair below LimbMod^2.
LEMMA ValueSplit ==
  ASSUME NEW y \in Limbs
  PROVE  /\ Value(y) \in Nat
         /\ Value(y) = (y.v0 + LimbMod * y.v1) + (LimbMod * LimbMod) * y.v2
         /\ y.v0 + LimbMod * y.v1 \in 0 .. LimbMod * LimbMod - 1
<1>1. y.v0 \in 0 .. LimbMod - 1 /\ y.v1 \in 0 .. LimbMod - 1 /\ y.v2 \in 0 .. LimbMod - 1
  BY DEF Limbs, Limb
<1>2. LimbMod \in Nat /\ LimbMod >= 1
  BY LimbAssumption
<1>3. LimbMod * y.v1 <= LimbMod * (LimbMod - 1)
  BY <1>1, <1>2
<1>4. LimbMod * y.v1 \in Nat /\ (LimbMod * LimbMod) * y.v2 \in Nat
  BY <1>1, <1>2
<1>5. LimbMod * (LimbMod - 1) = LimbMod * LimbMod - LimbMod
  BY <1>2
<1> QED  BY <1>1, <1>2, <1>3, <1>4, <1>5 DEF Value

\* A mixed-radix comparison is decided by its high digit, then by its low one.
LEMMA RadixLess ==
  ASSUME NEW m \in Nat, NEW h1 \in Nat, NEW h2 \in Nat,
         NEW l1 \in 0 .. m - 1, NEW l2 \in 0 .. m - 1
  PROVE  l1 + m * h1 < l2 + m * h2 <=> (h1 < h2 \/ (h1 = h2 /\ l1 < l2))
<1>1. CASE h1 < h2
  <2>1. m * (h1 + 1) <= m * h2
    BY <1>1
  <2>2. m * (h1 + 1) = m * h1 + m
    OBVIOUS
  <2> QED  BY <1>1, <2>1, <2>2
<1>2. CASE h1 = h2
  BY <1>2
<1>3. CASE h1 > h2
  <2>1. m * (h2 + 1) <= m * h1
    BY <1>3
  <2>2. m * (h2 + 1) = m * h2 + m
    OBVIOUS
  <2> QED  BY <1>3, <2>1, <2>2
<1> QED  BY <1>1, <1>2, <1>3

\* Lexicographic order on limbs is integer order.
LEMMA LexIsValue ==
  ASSUME NEW a \in Limbs, NEW b \in Limbs
  PROVE  Value(a) < Value(b) <=> LexLess(a, b)
<1> DEFINE M == LimbMod * LimbMod
           la == a.v0 + LimbMod * a.v1
           lb == b.v0 + LimbMod * b.v1
<1>1. /\ a.v0 \in 0 .. LimbMod - 1 /\ a.v1 \in Nat /\ a.v2 \in Nat
      /\ b.v0 \in 0 .. LimbMod - 1 /\ b.v1 \in Nat /\ b.v2 \in Nat
      /\ LimbMod \in Nat
  BY LimbAssumption DEF Limbs, Limb
<1>2. M \in Nat /\ la \in 0 .. M - 1 /\ lb \in 0 .. M - 1
  BY <1>1, ValueSplit
<1>3. Value(a) = la + M * a.v2 /\ Value(b) = lb + M * b.v2
  BY ValueSplit
<1>4. la < lb <=> (a.v1 < b.v1 \/ (a.v1 = b.v1 /\ a.v0 < b.v0))
  <2>1. LimbMod \in Nat /\ a.v1 \in Nat /\ b.v1 \in Nat
    BY <1>1
  <2>2. a.v0 \in 0 .. LimbMod - 1 /\ b.v0 \in 0 .. LimbMod - 1
    BY <1>1
  <2> QED  BY <2>1, <2>2, RadixLess, Zenon
<1> HIDE DEF M, la, lb
<1>5. la + M * a.v2 < lb + M * b.v2 <=> (a.v2 < b.v2 \/ (a.v2 = b.v2 /\ la < lb))
  <2>1. a.v2 \in Nat /\ b.v2 \in Nat
    BY <1>1
  <2> QED  BY <1>2, <2>1, RadixLess, Zenon
<1> QED  BY <1>1, <1>3, <1>4, <1>5 DEF LexLess

\* falcon_u72_limbs_lt compares integers, and returns 0 or 1.
THEOREM LtExact ==
  ASSUME NEW a \in Limbs, NEW b \in Limbs
  PROVE  /\ Lt(a, b) \in {0, 1}
         /\ Lt(a, b) = 1 <=> Value(a) < Value(b)
<1> DEFINE c0 == Borrow(a.v0 - b.v0 - 0)
           c1 == Borrow(a.v1 - b.v1 - c0)
           c2 == Borrow(a.v2 - b.v2 - c1)
<1>1. /\ a.v0 \in Limb /\ a.v1 \in Limb /\ a.v2 \in Limb
      /\ b.v0 \in Limb /\ b.v1 \in Limb /\ b.v2 \in Limb
  BY DEF Limbs
<1>2. c0 \in {0, 1} /\ (c0 = 1 <=> a.v0 < b.v0 + 0)
  BY <1>1, BorrowExact
<1>3. c1 \in {0, 1} /\ (c1 = 1 <=> a.v1 < b.v1 + c0)
  BY <1>1, <1>2, BorrowExact
<1>4. c2 \in {0, 1} /\ (c2 = 1 <=> a.v2 < b.v2 + c1)
  BY <1>1, <1>3, BorrowExact
<1>5. a.v0 - b.v0 - 0 = a.v0 - b.v0
  BY <1>1 DEF Limb
<1>6. Lt(a, b) = c2
  BY <1>5 DEF Lt
<1>7. c2 = 1 <=> LexLess(a, b)
  <2> HIDE DEF c0, c1, c2
  <2>1. LimbMod \in Nat
    BY LimbAssumption
  <2> QED  BY <1>1, <1>2, <1>3, <1>4, <2>1 DEF LexLess, Limb
<1> QED  BY <1>4, <1>6, <1>7, LexIsValue

\* sda_candidate_is_accepted is comparison with q.
THEOREM AcceptExact ==
  ASSUME NEW x1 \in Limbs
  PROVE  IsAccepted(x1) <=> Value(x1) < Value(QLimbs)
<1>1. QLimbs \in Limbs
  BY LimbAssumption
<1>2. IsAccepted(x1) <=> LexLess(x1, QLimbs)
  BY <1>1 DEF IsAccepted, LexLess, Limbs, Limb
<1> QED  BY <1>1, <1>2, LexIsValue

\* A quotient and a remainder below the divisor are the division's.
LEMMA ModUnique ==
  ASSUME NEW b \in Nat \ {0}, NEW k \in Nat, NEW r \in 0 .. b - 1
  PROVE  (b * k + r) % b = r
<1> DEFINE a == b * k + r
           k2 == a \div b
           r2 == a % b
<1>1. a \in Nat
  <2>1. b * k \in Nat
    OBVIOUS
  <2> QED  BY <2>1
<1>2. k2 \in Nat /\ r2 \in 0 .. b - 1 /\ a = b * k2 + r2
  BY <1>1, DivMod
<1>3. r + b * k = r2 + b * k2
  <2>1. b * k \in Nat /\ b * k2 \in Nat
    BY <1>2
  <2>2. b * k + r = b * k2 + r2
    BY <1>2
  <2> HIDE DEF a, k2, r2
  <2> QED  BY <1>2, <2>1, <2>2
<1> HIDE DEF k2, r2
<1>4. ~ (r + b * k < r2 + b * k2) /\ ~ (r2 + b * k2 < r + b * k)
  <2>1. b * k \in Nat /\ b * k2 \in Nat
    BY <1>2
  <2> QED  BY <1>2, <1>3, <2>1
<1>5. ~ (k < k2 \/ (k = k2 /\ r < r2))
  <2>1. b \in Nat
    OBVIOUS
  <2> QED  BY <1>2, <1>4, <2>1, RadixLess, Zenon
<1>6. ~ (k2 < k \/ (k2 = k /\ r2 < r))
  <2>1. b \in Nat
    OBVIOUS
  <2> QED  BY <1>2, <1>4, <2>1, RadixLess, Zenon
<1>7. r2 = r
  BY <1>2, <1>5, <1>6
<1> QED  BY <1>7 DEF r2

\* Masking a wrapped difference of limbs leaves the difference modulo LimbMod.
LEMMA MaskExact ==
  ASSUME NEW v \in Int, -LimbMod <= v, v < LimbMod
  PROVE  Wrap(v) % LimbMod = IF v < 0 THEN v + LimbMod ELSE v
<1>0. LimbMod \in Nat \ {0} /\ UintMod \in Nat
  BY LimbAssumption
<1>1. CASE v >= 0
  <2>1. (LimbMod * 0 + v) % LimbMod = v
    BY <1>0, <1>1, ModUnique
  <2>2. LimbMod * 0 + v = v
    BY <1>0
  <2> QED  BY <1>1, <2>1, <2>2 DEF Wrap
<1>2. CASE v < 0
  <2> DEFINE k == UintMod \div LimbMod
  <2>1. k \in Nat /\ UintMod = LimbMod * k
    <3>1. k \in Nat /\ UintMod = LimbMod * k + (UintMod % LimbMod)
      BY <1>0, DivMod
    <3>2. UintMod % LimbMod = 0
      BY LimbAssumption
    <3>3. LimbMod * k \in Nat
      BY <1>0, <3>1
    <3> HIDE DEF k
    <3> QED  BY <3>1, <3>2, <3>3
  <2> HIDE DEF k
  <2>2. k >= 1
    <3>1. k # 0
      BY <1>0, <2>1, LimbAssumption
    <3> QED  BY <2>1, <3>1
  <2>3. UintMod + v = LimbMod * (k - 1) + (LimbMod + v)
    <3>1. LimbMod * (k - 1) = LimbMod * k - LimbMod
      BY <1>0, <2>1
    <3> QED  BY <1>0, <2>1, <3>1
  <2>4. k - 1 \in Nat /\ LimbMod + v \in 0 .. LimbMod - 1
    BY <1>0, <1>2, <2>1, <2>2
  <2>5. (LimbMod * (k - 1) + (LimbMod + v)) % LimbMod = LimbMod + v
    BY <1>0, <2>4, ModUnique, Zenon
  <2>6. Wrap(v) = LimbMod * (k - 1) + (LimbMod + v)
    BY <1>0, <1>2, <2>3 DEF Wrap
  <2>7. LimbMod + v = v + LimbMod
    BY <1>0
  <2> QED  BY <1>2, <2>5, <2>6, <2>7
<1> QED  BY <1>1, <1>2

\* The masks and borrows of sda_reverse_coordinate compute q - 1 - x exactly:
\* an accepted draw has proper limbs again after reflection.
THEOREM ReflectExact ==
  ASSUME NEW y \in Limbs, IsAccepted(y)
  PROVE  /\ ReverseCoordinate(y) \in Limbs
         /\ Value(ReverseCoordinate(y)) = Value(QLimbs) - 1 - Value(y)
<1> DEFINE w0 == QLimbs.v0 - 1
           b0 == IF w0 < y.v0 THEN 1 ELSE 0
           b1 == IF QLimbs.v1 < y.v1 + b0 THEN 1 ELSE 0
           r0 == w0 - y.v0 + (IF w0 < y.v0 THEN LimbMod ELSE 0)
           r1 == QLimbs.v1 - y.v1 - b0 + (IF QLimbs.v1 < y.v1 + b0 THEN LimbMod ELSE 0)
           r2 == QLimbs.v2 - y.v2 - b1
           r == ReverseCoordinate(y)
<1>1. /\ y.v0 \in Limb /\ y.v1 \in Limb /\ y.v2 \in Limb
      /\ w0 \in Limb /\ QLimbs.v0 \in Limb /\ QLimbs.v1 \in Limb /\ QLimbs.v2 \in Limb
      /\ LimbMod \in Nat \ {0} /\ UintMod \in Nat
  <2>1. /\ LimbMod \in Nat \ {0} /\ UintMod \in Nat
        /\ QLimbs \in Limbs /\ QLimbs.v0 > 0
    BY LimbAssumption
  <2>2. y.v0 \in Limb /\ y.v1 \in Limb /\ y.v2 \in Limb
    BY DEF Limbs
  <2>3. QLimbs.v0 \in Limb /\ QLimbs.v1 \in Limb /\ QLimbs.v2 \in Limb
    BY <2>1 DEF Limbs
  <2>4. w0 \in Limb
    BY <2>1, <2>3 DEF Limb
  <2> HIDE DEF w0
  <2> QED BY <2>1, <2>2, <2>3, <2>4
<1>2. b0 \in {0, 1} /\ b1 \in {0, 1}
  OBVIOUS
<1>3. r0 \in Limb /\ r1 \in Limb
  BY <1>1 DEF Limb
<1>4. r2 \in Limb
  BY <1>1 DEF Limb, IsAccepted
<1>5. r.v2 = r2
  BY <1>1, <1>4 DEF ReverseCoordinate, Wrap, Limb
<1>6. r.v0 = r0
  <2>1. w0 - y.v0 \in Int /\ -LimbMod <= w0 - y.v0 /\ w0 - y.v0 < LimbMod
    BY <1>1 DEF Limb
  <2>2. Wrap(w0 - y.v0) % LimbMod
          = IF w0 - y.v0 < 0 THEN w0 - y.v0 + LimbMod ELSE w0 - y.v0
    BY <2>1, MaskExact
  <2>3. r.v0 = Wrap(w0 - y.v0) % LimbMod
    BY DEF ReverseCoordinate
  <2> QED  BY <1>1, <2>2, <2>3 DEF Limb
<1>7. r.v1 = r1
  <2> DEFINE v == QLimbs.v1 - y.v1 - b0
  <2>1. v \in Int /\ -LimbMod <= v /\ v < LimbMod
    BY <1>1 DEF Limb
  <2>2. Wrap(v) % LimbMod = IF v < 0 THEN v + LimbMod ELSE v
    BY <2>1, MaskExact
  <2>3. r.v1 = Wrap(v) % LimbMod
    BY DEF ReverseCoordinate
  <2> QED  BY <1>1, <2>2, <2>3 DEF Limb
<1>8. r = [v0 |-> r.v0, v1 |-> r.v1, v2 |-> r.v2]
  BY DEF ReverseCoordinate
<1>9. r \in Limbs
  BY <1>3, <1>4, <1>5, <1>6, <1>7, <1>8 DEF Limbs
<1>10. /\ r0 = QLimbs.v0 - 1 - y.v0 + LimbMod * b0
       /\ r1 = QLimbs.v1 - y.v1 - b0 + LimbMod * b1
  BY <1>1 DEF Limb
<1>11. Value(r) = Value(QLimbs) - 1 - Value(y)
  <2> DEFINE M == LimbMod * LimbMod
  <2>1. LimbMod * r1 = LimbMod * QLimbs.v1 - LimbMod * y.v1 - LimbMod * b0 + M * b1
    <3> HIDE DEF b0, b1, r1
    <3> QED  BY <1>1, <1>2, <1>10 DEF Limb
  <2>2. M * r2 = M * QLimbs.v2 - M * y.v2 - M * b1
    <3>1. M \in Nat /\ QLimbs.v2 \in Int /\ y.v2 \in Int
      BY <1>1 DEF Limb
    <3> HIDE DEF b1, M
    <3> QED  BY <1>2, <3>1
  <2>3. /\ M * b1 \in Int /\ LimbMod * b0 \in Int
        /\ LimbMod * QLimbs.v1 \in Int /\ LimbMod * y.v1 \in Int
        /\ M * QLimbs.v2 \in Int /\ M * y.v2 \in Int
    <3> HIDE DEF b0, b1
    <3> QED  BY <1>1, <1>2 DEF Limb
  <2>4. Value(r) = r0 + LimbMod * r1 + M * r2
    BY <1>5, <1>6, <1>7 DEF Value
  <2>5. /\ Value(y) = y.v0 + LimbMod * y.v1 + M * y.v2
        /\ Value(QLimbs) = QLimbs.v0 + LimbMod * QLimbs.v1 + M * QLimbs.v2
    BY DEF Value
  <2>6. /\ y.v0 \in Int /\ QLimbs.v0 \in Int
    BY <1>1 DEF Limb
  <2> HIDE DEF M, b0, b1, r1, r2, r0, r
  <2> QED  BY <1>10, <2>1, <2>2, <2>3, <2>4, <2>5, <2>6
<1> QED  BY <1>9, <1>11

\* falcon_u72_limbs_from_le9 loses nothing: the limbs are those of the draw.
THEOREM DecodeExact ==
  ASSUME NEW d \in Draw
  PROVE  FromLe9(d) \in Limbs /\ Value(FromLe9(d)) = d
<1> DEFINE L == LimbMod
           e == d \div L
           f == e \div L
<1>1. L \in Nat \ {0} /\ d \in Nat /\ d < L * L * L
  BY LimbAssumption DEF Draw
<1>2. e \in Nat /\ d % L \in 0 .. L - 1 /\ d = L * e + (d % L)
  BY <1>1, DivMod
<1>3. f \in Nat /\ e % L \in 0 .. L - 1 /\ e = L * f + (e % L)
  BY <1>1, <1>2, DivMod
<1>4. f % L = f /\ f \in 0 .. L - 1
  <2>1. f < L
    <3>1. SUFFICES ASSUME f >= L PROVE FALSE
      BY <1>1, <1>3
    <3> HIDE DEF e, f
    <3>2. L * f >= L * L
      BY <1>1, <1>3, <3>1
    <3>3. e >= L * L
      BY <1>1, <1>3, <3>2
    <3>4. L * e >= L * (L * L)
      BY <1>1, <1>2, <3>3
    <3>5. L * (L * L) = L * L * L
      BY <1>1
    <3> QED  BY <1>1, <1>2, <3>4, <3>5
  <2>2. f \in 0 .. L - 1
    BY <1>1, <1>3, <2>1
  <2>3. (L * 0 + f) % L = f
    BY <1>1, <2>2, ModUnique
  <2>4. L * 0 + f = f
    BY <1>1, <1>3
  <2> QED  BY <2>2, <2>3, <2>4
<1>5. FromLe9(d) = [v0 |-> d % L, v1 |-> e % L, v2 |-> f]
  BY <1>4 DEF FromLe9
<1>6. FromLe9(d) \in Limbs
  BY <1>2, <1>3, <1>4, <1>5 DEF Limbs, Limb
<1>7. Value(FromLe9(d)) = d
  <2> DEFINE r == d % L
             s == e % L
  <2>1. Value(FromLe9(d)) = r + L * s + L * L * f
    BY <1>5 DEF Value
  <2> HIDE DEF e, f, r, s
  <2>2. L * e = L * (L * f + s)
    BY <1>3 DEF s
  <2>3. L * (L * f + s) = L * L * f + L * s
    BY <1>1, <1>3 DEF s
  <2>4. d = L * e + r /\ r \in Int /\ s \in Int /\ f \in Int
    BY <1>2, <1>3 DEF r, s
  <2>5. L * L * f \in Int /\ L * s \in Int
    BY <1>1, <2>4
  <2> QED  BY <2>1, <2>2, <2>3, <2>4, <2>5
<1> QED  BY <1>6, <1>7

\* The kernel counts at most one per row and never counts the zero sentinel, so
\* its result is a sample of the support, whatever the candidate.
THEOREM LookupInSupport ==
  ASSUME NEW y \in Limbs, NEW tail \in [1 .. Rows -> Limbs],
         tail[Rows] = ZeroLimbs
  PROVE  Lookup(y, tail) \in 0 .. FALCON_BASE_SUPPORT_MAX
<1> DEFINE S == {k \in 1 .. Rows : Lt(y, tail[k]) = 1}
<1>1. Rows \in Nat \ {0}
  BY LimbAssumption
<1>2. Rows \notin S
  <2>1. ZeroLimbs \in Limbs /\ Value(ZeroLimbs) = 0
    BY LimbAssumption DEF ZeroLimbs, Limbs, Limb, Value
  <2>2. Value(y) \in Nat
    BY ValueSplit
  <2>3. ~ (Lt(y, tail[Rows]) = 1)
    BY <2>1, <2>2, LtExact
  <2> QED  BY <2>3
<1>3. S \subseteq 1 .. (Rows - 1)
  BY <1>1, <1>2
<1>4. IsFiniteSet(1 .. (Rows - 1)) /\ Cardinality(1 .. (Rows - 1)) = Rows - 1
  BY <1>1, FS_Interval
<1>5. IsFiniteSet(S) /\ Cardinality(S) <= Rows - 1
  BY <1>3, <1>4, FS_Subset
<1>6. Cardinality(S) \in Nat
  BY <1>5, FS_CardinalityType
<1> QED  BY <1>1, <1>5, <1>6 DEF Lookup, FALCON_BASE_SUPPORT_MAX

\* A lookup is a count of integers that exceed the candidate.
LEMMA LookupIsCount ==
  ASSUME NEW y \in Limbs, NEW tail \in [1 .. Rows -> Limbs]
  PROVE  Lookup(y, tail) = Cardinality({k \in 1 .. Rows : Value(y) < Value(tail[k])})
<1>1. \A k \in 1 .. Rows : Lt(y, tail[k]) = 1 <=> Value(y) < Value(tail[k])
  BY LtExact
<1>2. {k \in 1 .. Rows : Lt(y, tail[k]) = 1} = {k \in 1 .. Rows : Value(y) < Value(tail[k])}
  BY <1>1
<1> QED BY <1>2 DEF Lookup

\* A quotient whose remainder is below the divisor is the division's.
LEMMA DivUnique ==
  ASSUME NEW b \in Nat \ {0}, NEW k \in Nat, NEW r \in 0 .. b - 1
  PROVE  (b * k + r) \div b = k /\ (b * k + r) % b = r
<1> DEFINE a == b * k + r
           k2 == a \div b
           r2 == a % b
<1>1. a \in Nat
  <2>1. b * k \in Nat
    OBVIOUS
  <2> QED BY <2>1
<1>2. k2 \in Nat /\ r2 \in 0 .. b - 1 /\ a = b * k2 + r2
  BY <1>1, DivMod
<1>3. r2 = r
  BY ModUnique
<1>4. b * k = b * k2
  <2>1. b * k \in Nat /\ b * k2 \in Nat /\ b * k + r = b * k2 + r2
    BY <1>2
  <2> HIDE DEF k2, r2, a
  <2> QED BY <1>3, <2>1
<1>5. k2 = k
  <2> HIDE DEF k2, r2, a
  <2>1. CASE k < k2
    <3>1. b * (k + 1) <= b * k2 /\ b * (k + 1) = b * k + b
      BY <1>2, <2>1
    <3> QED BY <1>2, <1>4, <3>1
  <2>2. CASE k2 < k
    <3>1. b * (k2 + 1) <= b * k /\ b * (k2 + 1) = b * k2 + b
      BY <1>2, <2>2
    <3> QED BY <1>2, <1>4, <3>1
  <2> QED BY <1>2, <2>1, <2>2
<1> QED BY <1>3, <1>5

\* Decoding through sdat_u72 gives the limbs of the draw too: v2 is put together
\* from the top of lo and hi wherever the two were split.
THEOREM SdatDecodeExact ==
  ASSUME NEW d \in Draw
  PROVE  FromSdat(SdatFromLe9(d)) = FromLe9(d)
<1> DEFINE L == LimbMod
           B == L * L * MidMod
           lo == d % B
           hi == d \div B
           a == lo \div L
           a1 == a \div L
           W == MidMod * hi + a1
<1>1. L \in Nat \ {0} /\ MidMod \in Nat \ {0} /\ d \in Nat /\ L * L \in Nat \ {0}
  BY LimbAssumption DEF Draw
<1>2. B \in Nat \ {0}
  BY <1>1
<1>3. hi \in Nat /\ lo \in 0 .. B - 1 /\ d = B * hi + lo
  BY <1>1, <1>2, DivMod
<1>4. a \in Nat /\ lo % L \in 0 .. L - 1 /\ lo = L * a + (lo % L)
  <2>1. lo \in Nat
    BY <1>2, <1>3
  <2> HIDE DEF lo
  <2> QED BY <1>1, <2>1, DivMod
<1>5. a1 \in Nat /\ a % L \in 0 .. L - 1 /\ a = L * a1 + (a % L)
  BY <1>1, <1>4, DivMod
<1> DEFINE v0 == lo % L
           v1 == a % L
<1>6. lo = (L * L) * a1 + (L * v1 + v0) /\ L * v1 + v0 \in 0 .. L * L - 1
  <2> HIDE DEF lo, hi, a, a1, v0, v1
  <2>1. L * a = L * (L * a1 + v1)
    BY <1>5 DEF v1
  <2>2. L * (L * a1 + v1) = (L * L) * a1 + L * v1
    BY <1>1, <1>5 DEF v1
  <2>3. v1 \in 0 .. L - 1 /\ v0 \in 0 .. L - 1
    BY <1>4, <1>5 DEF v0, v1
  <2>4. L * v1 <= L * (L - 1) /\ L * (L - 1) = L * L - L /\ L * v1 \in Nat
    BY <1>1, <2>3
  <2>5. lo = L * a + v0
    BY <1>4 DEF v0
  <2>6. (L * L) * a1 \in Nat
    BY <1>1, <1>5
  <2> QED BY <1>1, <2>1, <2>2, <2>3, <2>4, <2>5, <2>6
<1>7. lo \div (L * L) = a1
  <2> DEFINE r == L * v1 + v0
             M == L * L
  <2>1. M \in Nat \ {0} /\ a1 \in Nat /\ r \in 0 .. M - 1 /\ lo = M * a1 + r
    BY <1>1, <1>5, <1>6
  <2> HIDE DEF lo, a1, r, M
  <2>2. (M * a1 + r) \div M = a1
    BY <2>1, DivUnique
  <2> QED BY <2>1, <2>2 DEF M
<1>8. a1 < MidMod
  <2> HIDE DEF lo, hi, a, a1, v0, v1
  <2>1. SUFFICES ASSUME a1 >= MidMod PROVE FALSE
    BY <1>1, <1>5
  <2>2. (L * L) * a1 >= (L * L) * MidMod
    BY <1>1, <1>5, <2>1
  <2> QED BY <1>1, <1>2, <1>3, <1>5, <1>6, <2>2
<1>9. a1 % MidMod = a1
  <2>1. (MidMod * 0 + a1) % MidMod = a1
    BY <1>1, <1>5, <1>8, ModUnique
  <2> QED BY <1>1, <1>5, <2>1
<1>10. FromSdat(SdatFromLe9(d)) = [v0 |-> v0, v1 |-> v1, v2 |-> a1 + hi * MidMod]
  BY <1>7, <1>9 DEF FromSdat, SdatFromLe9
<1>11. d = L * (L * W + v1) + v0
  <2> HIDE DEF lo, hi, a, a1, v0, v1
  <2>1. B * hi = L * (L * (MidMod * hi))
    BY <1>1, <1>3
  <2>2. L * (L * W + v1) = L * (L * (MidMod * hi)) + L * (L * a1) + L * v1
    <3>1. L * W = L * (MidMod * hi) + L * a1
      BY <1>1, <1>3, <1>5
    <3>2. L * (MidMod * hi) \in Nat /\ L * a1 \in Nat /\ v1 \in Nat
      BY <1>1, <1>3, <1>5 DEF v1
    <3> QED BY <1>1, <3>1, <3>2
  <2>3. (L * L) * a1 = L * (L * a1)
    BY <1>1, <1>5
  <2>4. L * (L * (MidMod * hi)) \in Nat /\ L * (L * a1) \in Nat /\ L * v1 \in Nat /\ v0 \in Nat
    BY <1>1, <1>3, <1>4, <1>5 DEF v0, v1
  <2> HIDE DEF W
  <2> QED BY <1>3, <1>6, <2>1, <2>2, <2>3, <2>4
<1>12. W \in Nat /\ L * W + v1 \in Nat
  <2> HIDE DEF lo, hi, a, a1, v0
  <2>1. MidMod * hi \in Nat
    BY <1>1, <1>3
  <2>2. W \in Nat
    BY <1>5, <2>1
  <2> HIDE DEF W
  <2> QED BY <1>1, <1>5, <2>2
<1>13. d % L = v0 /\ d \div L = L * W + v1
  <2> HIDE DEF W
  <2>1. L * W + v1 \in Nat /\ v0 \in 0 .. L - 1
    BY <1>4, <1>12
  <2> DEFINE e == L * W + v1
  <2>2. (L * e + v0) \div L = e /\ (L * e + v0) % L = v0
    BY <1>1, <2>1, DivUnique
  <2>3. d = L * e + v0
    BY <1>11
  <2> QED BY <2>2, <2>3
<1>14. (L * W + v1) % L = v1 /\ (L * W + v1) \div L = W
  BY <1>1, <1>5, <1>12, DivUnique
<1>15. W % L = W
  <2>1. FromLe9(d).v2 = W % L /\ FromLe9(d).v0 = v0 /\ FromLe9(d).v1 = v1
    BY <1>13, <1>14 DEF FromLe9
  <2>2. FromLe9(d) \in Limbs /\ Value(FromLe9(d)) = d
    BY DecodeExact
  <2>3. d = v0 + L * v1 + L * L * (W % L)
    BY <2>1, <2>2 DEF Value
  <2>4. (L * L) * W = (L * L) * (W % L)
    <3> HIDE DEF lo, hi, a, a1, W, v0, v1
    <3>1. L * (L * W + v1) = (L * L) * W + L * v1
      BY <1>1, <1>5, <1>12 DEF v1
    <3>2. W % L \in Nat
      BY <1>1, <1>12
    <3>3. (L * L) * W \in Nat /\ (L * L) * (W % L) \in Nat /\ L * v1 \in Nat /\ v0 \in Nat
      BY <1>1, <1>4, <1>5, <1>12, <3>2 DEF v0, v1
    <3> QED BY <1>11, <2>3, <3>1, <3>3
  <2> HIDE DEF W
  <2>5. ((L * L) * W) \div (L * L) = W /\ ((L * L) * (W % L)) \div (L * L) = W % L
    <3>1. \A k \in Nat : ((L * L) * k + 0) \div (L * L) = k
      BY <1>1, DivUnique
    <3>2. \A k \in Nat : (L * L) * k + 0 = (L * L) * k
      BY <1>1
    <3>3. W % L \in Nat
      BY <1>1, <1>12
    <3> QED BY <1>12, <3>1, <3>2, <3>3
  <2> QED BY <2>4, <2>5
<1>16. W = a1 + hi * MidMod
  BY <1>1, <1>3, <1>5
<1> QED BY <1>10, <1>13, <1>14, <1>15, <1>16 DEF FromLe9

-----------------------------------------------------------------------------
(* One pass of the kernel *)

\* What the loop knows of the rows it has scanned: the first z exceed the
\* coordinate, and if it has stopped counting the next one does not.
ScanInv ==
  /\ at = "decode" => u = 0 /\ z = 0 /\ x = ZeroLimbs
  /\ at \in {"scan", "done"} =>
       /\ Value(x) = Coordinate
       /\ z > 0 => Coordinate < Value(TailOf(system)[z])
       /\ z < u => Value(TailOf(system)[z + 1]) <= Coordinate
  /\ at = "done" => u = Rows
  /\ at = "rejected" => u = 0 /\ z = 0

LookupInv == LookupTypeOK /\ ScanInv

LEMMA TailType ==
  ASSUME NEW k \in {"original", "direct", "reflected"}
  PROVE  /\ TailOf(k) \in [1 .. Rows -> Limbs] /\ TailOf(k)[Rows] = ZeroLimbs
         /\ \A i, j \in 1 .. Rows : i < j => Value(TailOf(k)[j]) <= Value(TailOf(k)[i])
  BY LimbAssumption, SortedAssumption DEF TailOf

LEMMA LookupInitInv == LookupInit => LookupInv
  BY LimbAssumption DEF LookupInit, LookupInv, LookupTypeOK, ScanInv, ZeroLimbs, Limbs, Limb

LEMMA LookupStepInv == LookupInv /\ [LookupNext]_lookupVars => LookupInv'
<1> SUFFICES ASSUME LookupInv, [LookupNext]_lookupVars PROVE LookupInv'
  OBVIOUS
<1> USE DEF LookupInv
<1>0. Rows \in Nat \ {0}
  BY LimbAssumption
<1>1. CASE DecodeDraw
  <2> DEFINE c == FromLe9(draw)
  <2>1. c \in Limbs /\ Value(c) = draw
    BY DecodeExact DEF LookupTypeOK
  <2>2. u = 0 /\ z = 0 /\ u' = 0 /\ z' = 0 /\ system' = system /\ draw' = draw
    BY <1>1 DEF DecodeDraw, ScanInv
  <2> HIDE DEF c
  <2>3. CASE system # "original" /\ ~ IsAccepted(c)
    <3>1. at' = "rejected" /\ x' = c
      BY <1>1, <2>3 DEF DecodeDraw, c
    <3> QED  BY <1>0, <2>1, <2>2, <3>1 DEF LookupTypeOK, ScanInv
  <2>4. CASE ~ (system # "original" /\ ~ IsAccepted(c)) /\ system = "reflected"
    <3>1. at' = "scan" /\ x' = ReverseCoordinate(c)
      BY <1>1, <2>4 DEF DecodeDraw, c
    <3>2. x' \in Limbs /\ Value(x') = Value(QLimbs) - 1 - draw
      BY <2>1, <2>4, <3>1, ReflectExact
    <3>3. Coordinate' = Value(QLimbs) - 1 - draw
      BY <2>2, <2>4 DEF Coordinate, Value
    <3>4. Value(x)' = Value(x')
      BY DEF Value
    <3> QED  BY <1>0, <2>2, <3>1, <3>2, <3>3, <3>4 DEF LookupTypeOK, ScanInv
  <2>5. CASE ~ (system # "original" /\ ~ IsAccepted(c)) /\ system # "reflected"
    <3>1. at' = "scan" /\ x' = c
      BY <1>1, <2>5 DEF DecodeDraw, c
    <3>2. Coordinate' = draw
      BY <2>2, <2>5 DEF Coordinate
    <3>3. Value(x)' = draw
      BY <2>1, <3>1 DEF Value
    <3> QED  BY <1>0, <2>1, <2>2, <3>1, <3>2, <3>3 DEF LookupTypeOK, ScanInv
  <2> QED  BY <2>3, <2>4, <2>5
<1>2. CASE ScanRow
  <2> DEFINE tail == TailOf(system)
             t == Value(tail[u + 1])
             X == Value(x)
  <2>1. /\ at = "scan" /\ at' = "scan" /\ u < Rows /\ u' = u + 1
        /\ z' = z + Lt(x, tail[u + 1])
        /\ system' = system /\ draw' = draw /\ x' = x
    BY <1>2 DEF ScanRow
  <2>2. /\ x \in Limbs /\ u \in 0 .. Rows /\ z \in 0 .. u /\ u + 1 \in 1 .. Rows
        /\ system \in {"original", "direct", "reflected"}
    BY <1>0, <2>1 DEF LookupTypeOK
  <2>3. tail[u + 1] \in Limbs
    BY <2>2, TailType
  <2>4. Lt(x, tail[u + 1]) \in {0, 1} /\ (Lt(x, tail[u + 1]) = 1 <=> X < t)
    BY <2>2, <2>3, LtExact
  <2>5. X \in Nat /\ t \in Nat
    BY <2>2, <2>3, ValueSplit
  <2>6. /\ X = Coordinate
        /\ z > 0 => Coordinate < Value(tail[z])
        /\ z < u => Value(tail[z + 1]) <= Coordinate
    BY <2>1 DEF ScanInv
  <2>7. Coordinate' = Coordinate /\ TailOf(system)' = tail /\ Value(x)' = X
    BY <2>1 DEF Coordinate, TailOf, Value
  <2>8. LookupTypeOK'
    BY <1>0, <2>1, <2>2, <2>4 DEF LookupTypeOK
  <2>9. CASE z < u
    <3>1. t <= Value(tail[z + 1])
      <4>1. z + 1 \in 1 .. Rows /\ z + 1 < u + 1
        BY <1>0, <2>2, <2>9
      <4> QED  BY <2>2, <4>1, TailType
    <3>2. Value(tail[z + 1]) \in Nat
      <4>1. z + 1 \in 1 .. Rows
        BY <1>0, <2>2, <2>9
      <4>2. tail[z + 1] \in Limbs
        BY <2>2, <4>1, TailType
      <4> QED  BY <4>2, ValueSplit
    <3>3. z' = z
      <4> HIDE DEF tail, t, X
      <4>1. ~ (X < t)
        BY <2>5, <2>6, <2>9, <3>1, <3>2
      <4> QED  BY <2>1, <2>2, <2>4, <4>1
    <3>4. z < u'
      BY <2>1, <2>2, <2>9
    <3> QED  BY <2>1, <2>6, <2>7, <2>8, <2>9, <3>3, <3>4 DEF ScanInv
  <2>10. CASE z = u /\ X < t
    <3>1. z' = u + 1
      BY <2>1, <2>2, <2>4, <2>10
    <3>2. Coordinate' < Value(TailOf(system)'[z'])
      BY <2>6, <2>7, <2>10, <3>1
    <3>3. ~ (z' < u')
      BY <2>1, <2>2, <3>1
    <3> QED  BY <2>1, <2>6, <2>7, <2>8, <3>1, <3>2, <3>3 DEF ScanInv, Value
  <2>11. CASE z = u /\ ~ (X < t)
    <3>1. z' = u
      BY <2>1, <2>2, <2>4, <2>11
    <3>2. t <= Coordinate
      BY <2>5, <2>6, <2>11
    <3>3. z' = z
      BY <2>11, <3>1
    <3> QED  BY <2>1, <2>6, <2>7, <2>8, <2>11, <3>2, <3>3 DEF ScanInv, Value
  <2>12. z < u \/ z = u
    BY <2>2
  <2> QED  BY <2>9, <2>10, <2>11, <2>12
<1>3. CASE Return
  <2>1. Coordinate' = Coordinate /\ TailOf(system)' = TailOf(system) /\ Value(x)' = Value(x)
    BY <1>3 DEF Return, Coordinate, TailOf, Value
  <2> QED  BY <1>3, <2>1 DEF Return, LookupTypeOK, ScanInv
<1>4. CASE UNCHANGED lookupVars
  <2>1. Coordinate' = Coordinate /\ TailOf(system)' = TailOf(system) /\ Value(x)' = Value(x)
    BY <1>4 DEF lookupVars, Coordinate, TailOf, Value
  <2> QED  BY <1>4, <2>1 DEF lookupVars, LookupTypeOK, ScanInv
<1> QED  BY <1>1, <1>2, <1>3, <1>4 DEF LookupNext

\* Type correctness: in particular the reflected candidate has proper limbs.
THEOREM LookupTypeCorrect == LookupSpec => []LookupTypeOK
<1>1. LookupInv => LookupTypeOK
  BY DEF LookupInv
<1> QED  BY <1>1, LookupInitInv, LookupStepInv, PTL DEF LookupSpec

\* The kernel inverts the reverse tail: its result is the sample whose interval
\* holds the coordinate, it lies in the support, and it is the row count the
\* loop-free definition gives.
THEOREM InverseCdfHolds == LookupSpec => []InverseCdf
<1>1. LookupInv => InverseCdf
  <2> SUFFICES ASSUME LookupInv, at = "done"
               PROVE  /\ z \in 0 .. FALCON_BASE_SUPPORT_MAX
                      /\ z > 0 => Coordinate < Value(TailOf(system)[z])
                      /\ Value(TailOf(system)[z + 1]) <= Coordinate
                      /\ z = Lookup(x, TailOf(system))
    BY DEF InverseCdf
  <2> USE DEF LookupInv
  <2> DEFINE tail == TailOf(system)
             X == Value(x)
             S == {k \in 1 .. Rows : Lt(x, tail[k]) = 1}
  <2>0. Rows \in Nat \ {0}
    BY LimbAssumption
  <2>1. /\ x \in Limbs /\ z \in 0 .. Rows /\ system \in {"original", "direct", "reflected"}
        /\ X = Coordinate /\ u = Rows
        /\ z > 0 => X < Value(tail[z])
        /\ z < Rows => Value(tail[z + 1]) <= X
    BY DEF LookupTypeOK, ScanInv
  <2>2. /\ tail \in [1 .. Rows -> Limbs] /\ tail[Rows] = ZeroLimbs
        /\ \A i, j \in 1 .. Rows : i < j => Value(tail[j]) <= Value(tail[i])
    BY <2>1, TailType
  <2>3. X \in Nat /\ \A k \in 1 .. Rows : Value(tail[k]) \in Nat
    BY <2>1, <2>2, ValueSplit
  <2>4. z # Rows
    <3>1. Value(tail[Rows]) = 0
      BY <2>2, LimbAssumption DEF ZeroLimbs, Value
    <3> HIDE DEF X, tail
    <3> QED  BY <2>0, <2>1, <2>3, <3>1
  <2>5. z \in 0 .. Rows - 1 /\ Value(tail[z + 1]) <= X
    BY <2>0, <2>1, <2>4
  <2>6. \A k \in 1 .. Rows : Lt(x, tail[k]) = 1 <=> X < Value(tail[k])
    BY <2>1, <2>2, LtExact
  <2>7. S = 1 .. z
    <3>1. ASSUME NEW k \in 1 .. z PROVE X < Value(tail[k])
      <4>1. k \in 1 .. Rows /\ z \in 1 .. Rows /\ z > 0
        BY <2>0, <2>5, <3>1
      <4>2. Value(tail[z]) <= Value(tail[k])
        <5>1. CASE k = z
          BY <2>3, <4>1, <5>1
        <5>2. CASE k < z
          BY <2>2, <4>1, <5>2
        <5> QED  BY <3>1, <2>5, <5>1, <5>2
      <4> HIDE DEF X, tail
      <4> QED  BY <2>1, <2>3, <4>1, <4>2
    <3>2. ASSUME NEW k \in 1 .. Rows, k > z PROVE ~ (X < Value(tail[k]))
      <4>1. z + 1 \in 1 .. Rows
        BY <2>0, <2>5
      <4>2. Value(tail[k]) <= Value(tail[z + 1])
        <5>1. CASE k = z + 1
          BY <2>3, <4>1, <5>1
        <5>2. CASE z + 1 < k
          BY <2>2, <4>1, <5>2
        <5> QED  BY <3>2, <2>5, <5>1, <5>2
      <4> HIDE DEF X, tail
      <4> QED  BY <2>3, <2>5, <4>1, <4>2
    <3> HIDE DEF X, tail
    <3>3. \A k \in 1 .. Rows : X < Value(tail[k]) <=> k <= z
      BY <2>5, <3>1, <3>2
    <3> QED  BY <2>0, <2>5, <2>6, <3>3
  <2>8. Cardinality(1 .. z) = z
    BY <2>5, FS_Interval
  <2>9. z = Lookup(x, tail)
    BY <2>7, <2>8 DEF Lookup
  <2> QED  BY <2>1, <2>5, <2>9 DEF FALCON_BASE_SUPPORT_MAX
<1> QED  BY <1>1, LookupInitInv, LookupStepInv, PTL DEF LookupSpec

-----------------------------------------------------------------------------
(* Coordinates *)

\* A descending tail is counted down to s exactly when the candidate lies below
\* row s and not below the next one.
LEMMA LookupInverts ==
  ASSUME NEW y \in Limbs, NEW tail \in [1 .. Rows -> Limbs],
         \A i, j \in 1 .. Rows : i < j => Value(tail[j]) <= Value(tail[i]),
         NEW s \in 0 .. Rows - 1
  PROVE  Lookup(y, tail) = s <=>
           (s > 0 => Value(y) < Value(tail[s])) /\ Value(tail[s + 1]) <= Value(y)
<1> DEFINE c == Value(y)
           v(k) == Value(tail[k])
           S == {k \in 1 .. Rows : c < v(k)}
<1>0. Rows \in Nat \ {0} /\ s + 1 \in 1 .. Rows /\ s \in Nat
  BY LimbAssumption
<1>1. c \in Nat /\ \A k \in 1 .. Rows : v(k) \in Nat
  BY ValueSplit
<1>2. Lookup(y, tail) = Cardinality(S)
  BY LookupIsCount
<1>3. \A i, j \in 1 .. Rows : i <= j => v(j) <= v(i)
  <2> SUFFICES ASSUME NEW i \in 1 .. Rows, NEW j \in 1 .. Rows, i <= j PROVE v(j) <= v(i)
    OBVIOUS
  <2>1. CASE i = j
    BY <1>1, <2>1
  <2>2. CASE i < j
    BY <2>2
  <2> QED BY <2>1, <2>2
<1> HIDE DEF c, v
<1>4. ASSUME s > 0 => c < v(s), v(s + 1) <= c
      PROVE  Cardinality(S) = s
  <2>1. \A k \in 1 .. Rows : k <= s => c < v(k)
    <3> SUFFICES ASSUME NEW k \in 1 .. Rows, k <= s PROVE c < v(k)
      OBVIOUS
    <3>1. s \in 1 .. Rows /\ s > 0
      BY <1>0
    <3>2. v(s) <= v(k) /\ v(s) \in Nat /\ v(k) \in Nat
      BY <1>1, <1>3, <3>1
    <3> QED BY <1>1, <1>4, <3>1, <3>2
  <2>2. \A k \in 1 .. Rows : k > s => ~ (c < v(k))
    <3> SUFFICES ASSUME NEW k \in 1 .. Rows, k > s PROVE ~ (c < v(k))
      OBVIOUS
    <3>1. v(k) <= v(s + 1) /\ v(k) \in Nat /\ v(s + 1) \in Nat
      BY <1>0, <1>1, <1>3
    <3> QED BY <1>1, <1>4, <3>1
  <2>3. S = 1 .. s
    BY <1>0, <2>1, <2>2
  <2>4. Cardinality(1 .. s) = s
    BY <1>0, FS_Interval
  <2> QED BY <2>3, <2>4
<1>5. ASSUME Cardinality(S) = s, s > 0 PROVE c < v(s)
  <2>1. SUFFICES ASSUME ~ (c < v(s)) PROVE FALSE
    OBVIOUS
  <2>2. \A k \in 1 .. Rows : k >= s => ~ (c < v(k))
    <3> SUFFICES ASSUME NEW k \in 1 .. Rows, k >= s PROVE ~ (c < v(k))
      OBVIOUS
    <3>1. s \in 1 .. Rows
      BY <1>0, <1>5
    <3>2. v(k) <= v(s) /\ v(k) \in Nat /\ v(s) \in Nat
      BY <1>1, <1>3, <3>1
    <3> QED BY <1>1, <2>1, <3>2
  <2>3. S \subseteq 1 .. (s - 1)
    BY <1>0, <2>2
  <2>4. IsFiniteSet(1 .. (s - 1)) /\ Cardinality(1 .. (s - 1)) = s - 1
    <3> DEFINE m == s - 1
    <3>1. m \in Nat /\ 1 \in Int
      BY <1>0, <1>5
    <3> HIDE DEF m
    <3>2. IsFiniteSet(1 .. m) /\ Cardinality(1 .. m) = m
      BY <3>1, FS_Interval
    <3> QED BY <3>2 DEF m
  <2>5. Cardinality(S) <= s - 1
    BY <2>3, <2>4, FS_Subset
  <2> QED BY <1>0, <1>5, <2>5
<1>6. ASSUME Cardinality(S) = s PROVE v(s + 1) <= c
  <2>1. SUFFICES ASSUME ~ (v(s + 1) <= c) PROVE FALSE
    OBVIOUS
  <2>2. \A k \in 1 .. (s + 1) : c < v(k)
    <3> SUFFICES ASSUME NEW k \in 1 .. (s + 1) PROVE c < v(k)
      OBVIOUS
    <3>1. k \in 1 .. Rows
      BY <1>0
    <3>2. v(s + 1) <= v(k) /\ v(k) \in Nat /\ v(s + 1) \in Nat
      BY <1>0, <1>1, <1>3, <3>1
    <3> QED BY <1>1, <2>1, <3>2
  <2>3. 1 .. (s + 1) \subseteq S
    BY <1>0, <2>2
  <2>4. IsFiniteSet(1 .. Rows) /\ S \subseteq 1 .. Rows
    BY <1>0, FS_Interval
  <2>5. IsFiniteSet(S)
    BY <2>4, FS_Subset
  <2>6. Cardinality(1 .. (s + 1)) = s + 1
    BY <1>0, FS_Interval
  <2>7. s + 1 <= Cardinality(S)
    BY <2>3, <2>5, <2>6, FS_Subset
  <2> QED BY <1>0, <1>6, <2>7
<1> QED BY <1>2, <1>4, <1>5, <1>6 DEF c, v

\* sdat_u72_ge compares the integers its halves encode.
LEMMA SdatGeExact ==
  ASSUME NEW d \in Nat, NEW e \in Nat
  PROVE  SdatGe(SdatFromLe9(d), SdatFromLe9(e)) <=> d >= e
<1> DEFINE B == LimbMod * LimbMod * MidMod
           dh == d \div B
           dl == d % B
           eh == e \div B
           el == e % B
<1>1. B \in Nat \ {0}
  <2>1. LimbMod \in Nat \ {0} /\ MidMod \in Nat \ {0} /\ LimbMod * LimbMod \in Nat \ {0}
    BY LimbAssumption
  <2> QED BY <2>1
<1>2. SdatGe(SdatFromLe9(d), SdatFromLe9(e)) <=> (dh > eh \/ (dh = eh /\ dl >= el))
  BY DEF SdatGe, SdatFromLe9
<1> HIDE DEF B
<1>3. /\ dh \in Nat /\ eh \in Nat /\ dl \in 0 .. B - 1 /\ el \in 0 .. B - 1
      /\ d = B * dh + dl /\ e = B * eh + el
  BY <1>1, DivMod
<1> HIDE DEF dh, dl, eh, el
<1>4. dl + B * dh < el + B * eh <=> (dh < eh \/ (dh = eh /\ dl < el))
  <2>1. B \in Nat
    BY <1>1
  <2> QED BY <1>3, <2>1, RadixLess, Zenon
<1>5. d < e <=> (dh < eh \/ (dh = eh /\ dl < el))
  <2>1. B * dh \in Nat /\ B * eh \in Nat
    BY <1>1, <1>3
  <2>2. d = dl + B * dh /\ e = el + B * eh
    BY <1>1, <1>3, <2>1
  <2> QED BY <1>4, <2>2
<1> QED BY <1>1, <1>2, <1>3, <1>5

\* Only accepted draws reach the kernel of an SDA sampler.
LookupGate ==
  /\ at = "rejected" => ~ IsAccepted(FromLe9(draw))
  /\ at \in {"scan", "done"} /\ system # "original" => IsAccepted(FromLe9(draw))

LEMMA LookupGateStep == LookupGate /\ [LookupNext]_lookupVars => LookupGate'
  BY DEF LookupGate, LookupNext, lookupVars, DecodeDraw, ScanRow, Return

\* The reflected lookup in the tail is the direct one in the cumulative table.
LEMMA ReflectedIsCumulative ==
  ASSUME NEW y \in Limbs, NEW d \in Draw, IsAccepted(FromLe9(d)),
         Value(y) = Value(QLimbs) - 1 - d
  PROVE  Lookup(y, SdaTail) = CumulativeLookup(SdatFromLe9(d))
<1> DEFINE q == Value(QLimbs)
           v(k) == Value(SdaTail[k])
<1>0. Rows \in Nat \ {0} /\ SdaTail \in [1 .. Rows -> Limbs] /\ QLimbs \in Limbs
      /\ Cumulative \in [1 .. Rows - 1 -> Nat]
  BY LimbAssumption, TailAssumption
<1>1. d \in Nat /\ q \in Nat
  BY <1>0, ValueSplit DEF Draw
<1>2. d < q
  BY <1>0, DecodeExact, AcceptExact
<1>3. \A k \in 1 .. Rows - 1 : Cumulative[k] \in Nat /\ v(k) = q - Cumulative[k]
  BY <1>0, TailAssumption
<1>4. v(Rows) = 0
  BY LimbAssumption DEF ZeroLimbs, Value
<1> HIDE DEF q, v
<1>5. \A k \in 1 .. Rows : q - 1 - d < v(k) <=> (k \in 1 .. Rows - 1 /\ d >= Cumulative[k])
  <2> SUFFICES ASSUME NEW k \in 1 .. Rows
               PROVE  q - 1 - d < v(k) <=> (k \in 1 .. Rows - 1 /\ d >= Cumulative[k])
    OBVIOUS
  <2>1. CASE k = Rows
    BY <1>0, <1>1, <1>2, <1>4, <2>1
  <2>2. CASE k \in 1 .. Rows - 1
    <3>1. Cumulative[k] \in Nat /\ v(k) = q - Cumulative[k]
      BY <1>3, <2>2
    <3> QED BY <1>1, <2>2, <3>1
  <2> QED BY <1>0, <2>1, <2>2
<1>6. \A k \in 1 .. Rows - 1 :
        SdatGe(SdatFromLe9(d), SdatFromLe9(Cumulative[k])) <=> d >= Cumulative[k]
  BY <1>1, <1>3, SdatGeExact
<1>7. {k \in 1 .. Rows : q - 1 - d < v(k)}
        = {i \in 1 .. Rows - 1 : SdatGe(SdatFromLe9(d), SdatFromLe9(Cumulative[i]))}
  BY <1>0, <1>5, <1>6
<1>8. Lookup(y, SdaTail) = Cardinality({k \in 1 .. Rows : q - 1 - d < v(k)})
  BY <1>0, LookupIsCount DEF q, v
<1> QED BY <1>7, <1>8 DEF CumulativeLookup

\* The two decoders, the three acceptance tests and the two coordinate systems
\* agree on every draw, for every limb width and table.
THEOREM AllCoordinatesAgree == LookupSpec => []CoordinatesAgree
<1>1. LookupInit => LookupGate
  BY DEF LookupInit, LookupGate
<1>2. LookupInv /\ InverseCdf /\ LookupGate => CoordinatesAgree
  <2> SUFFICES ASSUME LookupInv, InverseCdf, LookupGate PROVE CoordinatesAgree
    OBVIOUS
  <2>0. draw \in Draw /\ x \in Limbs /\ QLimbs \in Limbs
    BY LimbAssumption DEF LookupInv, LookupTypeOK
  <2>1. FromSdat(SdatFromLe9(draw)) = FromLe9(draw)
    BY <2>0, SdatDecodeExact
  <2>2. FromLe9(draw) \in Limbs /\ Value(FromLe9(draw)) = draw
    BY <2>0, DecodeExact
  <2>3. IsAccepted(FromLe9(draw)) <=> draw < Value(QLimbs)
    BY <2>2, AcceptExact
  <2>4. Lt(FromLe9(draw), QLimbs) = 1 <=> draw < Value(QLimbs)
    BY <2>0, <2>2, LtExact
  <2>5. at = "rejected" => draw >= Value(QLimbs)
    <3>1. draw \in Nat /\ Value(QLimbs) \in Nat
      BY <2>0, ValueSplit, LimbAssumption DEF Draw
    <3> QED BY <2>3, <3>1 DEF LookupGate
  <2>6. ASSUME at = "done", system = "reflected"
        PROVE  z = CumulativeLookup(SdatFromLe9(draw))
    <3>1. Value(x) = Value(QLimbs) - 1 - draw
      BY <2>6 DEF LookupInv, ScanInv, Coordinate
    <3>2. IsAccepted(FromLe9(draw))
      BY <2>6 DEF LookupGate
    <3>3. z = Lookup(x, SdaTail)
      BY <2>6 DEF InverseCdf, TailOf
    <3> QED BY <2>0, <3>1, <3>2, <3>3, ReflectedIsCumulative
  <2> QED BY <2>1, <2>2, <2>3, <2>4, <2>5, <2>6 DEF CoordinatesAgree
<1> QED BY <1>1, <1>2, LookupGateStep, LookupInitInv, LookupStepInv, InverseCdfHolds, PTL DEF LookupSpec

-----------------------------------------------------------------------------
(* Masses *)

LEMMA IntervalSize ==
  ASSUME NEW lo \in Nat, NEW hi \in Nat, lo <= hi
  PROVE  Cardinality(lo .. hi - 1) = hi - lo
<1> DEFINE m == hi - 1
<1>1. m \in Int /\ lo \in Int
  OBVIOUS
<1>2. m - lo + 1 = hi - lo /\ (lo > m => hi - lo = 0)
  OBVIOUS
<1> HIDE DEF m
<1>3. Cardinality(lo .. m) = IF lo > m THEN 0 ELSE m - lo + 1
  BY <1>1, FS_Interval
<1>4. Cardinality(lo .. m) = hi - lo
  BY <1>2, <1>3
<1> QED BY <1>4 DEF m

\* Every sample has as many accepted draws as its interval of the table is long,
\* in each of the three coordinate systems: the sampled distribution is the one
\* the table states, with no rounding and no bias of the reflection.
LEMMA MassExact ==
  ASSUME system \in {"original", "direct", "reflected"}, NEW s \in 0 .. FALCON_BASE_SUPPORT_MAX
  PROVE  Cardinality(Preimages(s)) = Mass(s)
<1> DEFINE tail == TailOf(system)
           q == Value(QLimbs)
           top == LimbMod * LimbMod * LimbMod
           total == IF system = "original" THEN top ELSE q
           lo == Value(tail[s + 1])
           hi == IF s = 0 THEN total ELSE Value(tail[s])
<1>0. /\ Rows \in Nat \ {0} /\ s \in 0 .. Rows - 1 /\ s + 1 \in 1 .. Rows
      /\ QLimbs \in Limbs /\ LimbMod \in Nat \ {0}
  BY LimbAssumption DEF FALCON_BASE_SUPPORT_MAX
<1>1. /\ tail \in [1 .. Rows -> Limbs]
      /\ \A i, j \in 1 .. Rows : i < j => Value(tail[j]) <= Value(tail[i])
  BY TailType
<1>2. q \in Nat /\ top \in Nat /\ lo \in Nat /\ (s > 0 => Value(tail[s]) \in Nat)
  <2>1. top \in Nat
    <3>1. LimbMod * LimbMod \in Nat
      BY <1>0
    <3> QED BY <1>0, <3>1
  <2>2. s > 0 => s \in 1 .. Rows
    BY <1>0
  <2>3. \A k \in 1 .. Rows : Value(tail[k]) \in Nat
    BY <1>1, ValueSplit
  <2>4. q \in Nat
    BY <1>0, ValueSplit
  <2> HIDE DEF tail, q, top
  <2> QED BY <1>0, <2>1, <2>2, <2>3, <2>4
<1>3. Draw = 0 .. top - 1
  BY DEF Draw
<1>4. \A y \in Limbs : Value(y) < top
  <2> SUFFICES ASSUME NEW y \in Limbs PROVE Value(y) < top
    OBVIOUS
  <2> DEFINE M == LimbMod * LimbMod
             l == y.v0 + LimbMod * y.v1
  <2>1. M \in Nat /\ l \in 0 .. M - 1 /\ Value(y) = l + M * y.v2
    BY <1>0, ValueSplit
  <2>2. y.v2 \in Nat /\ y.v2 + 1 <= LimbMod
    BY <1>0 DEF Limbs, Limb
  <2>3. top = M * LimbMod
    BY <1>0
  <2> HIDE DEF M, l, top
  <2>4. M * (y.v2 + 1) <= M * LimbMod /\ M * (y.v2 + 1) = M * y.v2 + M /\ M * y.v2 \in Nat
    BY <1>0, <2>1, <2>2
  <2> QED BY <1>0, <2>1, <2>2, <2>3, <2>4
<1>5. s > 0 => lo <= Value(tail[s]) /\ Value(tail[s]) < top /\ Value(tail[s]) \in Nat
  <2> SUFFICES ASSUME s > 0
               PROVE  lo <= Value(tail[s]) /\ Value(tail[s]) < top /\ Value(tail[s]) \in Nat
    OBVIOUS
  <2>1. s \in 1 .. Rows /\ s < s + 1
    BY <1>0
  <2>2. lo <= Value(tail[s])
    BY <1>0, <1>1, <2>1
  <2>3. tail[s] \in Limbs
    BY <1>1, <2>1
  <2> QED BY <1>2, <1>4, <2>2, <2>3
<1>6. lo < top
  <2>1. tail[s + 1] \in Limbs
    BY <1>0, <1>1
  <2> QED BY <1>4, <2>1
<1>7. system # "original" => lo <= q /\ (s > 0 => Value(tail[s]) <= q)
  <2> SUFFICES ASSUME system # "original" PROVE lo <= q /\ (s > 0 => Value(tail[s]) <= q)
    OBVIOUS
  <2>1. \A k \in 1 .. Rows - 1 : Cumulative[k] \in Nat /\ Value(SdaTail[k]) = q - Cumulative[k]
    BY TailAssumption
  <2>2. Value(SdaTail[Rows]) = 0
    BY LimbAssumption DEF ZeroLimbs, Value
  <2>3. tail = SdaTail
    BY DEF TailOf
  <2>4. \A k \in 1 .. Rows : Value(tail[k]) <= q
    <3> SUFFICES ASSUME NEW k \in 1 .. Rows PROVE Value(SdaTail[k]) <= q
      BY <2>3
    <3> HIDE DEF q
    <3>1. CASE k = Rows
      BY <1>2, <2>2, <3>1
    <3>2. CASE k \in 1 .. Rows - 1
      <4>1. Cumulative[k] \in Nat /\ Value(SdaTail[k]) = q - Cumulative[k]
        BY <2>1, <3>2
      <4> QED BY <1>2, <4>1
    <3> QED BY <1>0, <3>1, <3>2
  <2>5. s > 0 => s \in 1 .. Rows
    BY <1>0
  <2> QED BY <1>0, <2>4, <2>5
<1>8. hi \in Nat /\ lo <= hi /\ (system # "original" => hi <= q) /\ hi <= top
  <2> HIDE DEF q, tail, top, lo
  <2>1. system # "original" => q <= top
    <3>1. q < top
      BY <1>0, <1>4 DEF q
    <3> QED BY <1>2, <3>1
  <2>2. CASE s = 0
    BY <1>2, <1>6, <1>7, <2>1, <2>2
  <2>3. CASE s > 0
    BY <1>2, <1>5, <1>7, <2>1, <2>3
  <2> QED BY <1>0, <2>2, <2>3
\* A draw is a preimage when its coordinate lies in the interval of the sample.
<1>9. \A d \in Draw : FromLe9(d) \in Limbs /\ Value(FromLe9(d)) = d /\ d \in Nat
                      /\ (IsAccepted(FromLe9(d)) <=> d < q)
  BY DecodeExact, AcceptExact DEF Draw
<1>10. Mass(s) = hi - lo
  BY DEF Mass
<1>11. CASE system = "reflected"
  <2>1. \A d \in Draw : d \in Preimages(s) <=> d < q /\ q - 1 - d < hi /\ lo <= q - 1 - d
    <3> SUFFICES ASSUME NEW d \in Draw
                 PROVE  d \in Preimages(s) <=> d < q /\ q - 1 - d < hi /\ lo <= q - 1 - d
      OBVIOUS
    <3> DEFINE y == ReverseCoordinate(FromLe9(d))
    <3>1. d \in Preimages(s) <=> IsAccepted(FromLe9(d)) /\ Lookup(y, tail) = s
      BY <1>11 DEF Preimages
    <3>2. CASE ~ (d < q)
      BY <1>9, <3>1, <3>2
    <3>3. CASE d < q
      <4>1. y \in Limbs /\ Value(y) = q - 1 - d
        BY <1>9, <3>3, ReflectExact
      <4>2. Lookup(y, tail) = s <=> (s > 0 => Value(y) < Value(tail[s])) /\ lo <= Value(y)
        BY <1>0, <1>1, <4>1, LookupInverts
      <4>3. (s > 0 => q - 1 - d < Value(tail[s])) <=> q - 1 - d < hi
        <5> HIDE DEF q, tail
        <5>1. d \in Nat
          BY <1>9
        <5>2. CASE s = 0
          BY <1>2, <1>11, <5>1, <5>2
        <5>3. CASE s > 0
          BY <5>3
        <5> QED BY <1>0, <5>2, <5>3
      <4> HIDE DEF y, lo, hi, tail, q
      <4> QED BY <1>9, <3>1, <3>3, <4>1, <4>2, <4>3
    <3> QED BY <3>2, <3>3
  <2>2. Preimages(s) \subseteq Draw
    BY DEF Preimages
  <2> DEFINE first == q - hi
             after == q - lo
  <2>3. first \in Nat /\ after \in Nat /\ first <= after /\ after - first = hi - lo /\ after <= top
    <3>1. q <= top
      <4>1. q < top
        BY <1>0, <1>4
      <4> QED BY <1>2, <4>1
    <3>2. hi <= q /\ lo <= hi
      BY <1>8, <1>11
    <3> HIDE DEF q, hi, lo, top
    <3> QED BY <1>2, <1>8, <3>1, <3>2
  <2>4. Preimages(s) = first .. after - 1
    <3> HIDE DEF q, hi, lo, top
    <3>1. \A d \in Nat : (d < q /\ q - 1 - d < hi /\ lo <= q - 1 - d) <=> d \in first .. after - 1
      BY <1>2, <1>8
    <3>2. \A d \in first .. after - 1 : d \in Draw
      BY <1>2, <1>3, <2>3
    <3>3. \A d \in Draw : d \in Nat
      BY <1>9
    <3> HIDE DEF first, after
    <3> QED BY <2>1, <2>2, <3>1, <3>2, <3>3
  <2> HIDE DEF first, after, hi, lo
  <2>5. Cardinality(first .. after - 1) = after - first
    BY <2>3, IntervalSize
  <2> QED BY <1>10, <2>3, <2>4, <2>5
<1>12. CASE system # "reflected"
  <2>1. \A d \in Draw : d \in Preimages(s) <=> d < hi /\ lo <= d
    <3> SUFFICES ASSUME NEW d \in Draw PROVE d \in Preimages(s) <=> d < hi /\ lo <= d
      OBVIOUS
    <3> DEFINE y == FromLe9(d)
    <3>1. d \in Preimages(s) <=> (system # "original" => d < q) /\ Lookup(y, tail) = s
      BY <1>9, <1>12 DEF Preimages
    <3>2. y \in Limbs /\ Value(y) = d /\ d \in Nat /\ d < top
      <4>1. d < top
        BY <1>2, <1>3
      <4> QED BY <1>9, <4>1
    <3>3. Lookup(y, tail) = s <=> (s > 0 => Value(y) < Value(tail[s])) /\ lo <= Value(y)
      BY <1>0, <1>1, <3>2, LookupInverts
    <3>4. (system # "original" => d < q) /\ (s > 0 => d < Value(tail[s])) <=> d < hi
      <4> HIDE DEF q, tail, top, lo, y
      <4>1. CASE s = 0
        BY <3>2, <4>1
      <4>2. CASE s > 0
        BY <1>2, <1>5, <1>7, <3>2, <4>2
      <4> QED BY <1>0, <4>1, <4>2
    <3> HIDE DEF y, lo, hi, tail, q
    <3> QED BY <3>1, <3>2, <3>3, <3>4
  <2>2. Preimages(s) \subseteq Draw
    BY DEF Preimages
  <2> HIDE DEF hi, lo, top
  <2>3. \A d \in lo .. hi - 1 : d \in Draw
    BY <1>2, <1>3, <1>8
  <2>4. Preimages(s) = lo .. hi - 1
    <3>1. \A d \in Nat : (d < hi /\ lo <= d) <=> d \in lo .. hi - 1
      BY <1>2, <1>8
    <3>2. \A d \in Draw : d \in Nat
      BY <1>9
    <3> QED BY <2>1, <2>2, <2>3, <3>1, <3>2
  <2>5. Cardinality(lo .. hi - 1) = hi - lo
    BY <1>2, <1>8, IntervalSize
  <2> QED BY <1>10, <2>4, <2>5
<1> QED BY <1>11, <1>12

\* Direct and reflected coordinates induce the same exact masses.
THEOREM MassesAreExact == LookupSpec => []MassesExact
<1>1. LookupTypeOK => MassesExact
  BY MassExact DEF LookupTypeOK, MassesExact
<1> QED BY <1>1, LookupTypeCorrect, PTL

-----------------------------------------------------------------------------
(* The operators of a call *)

\* Nothing changes the arguments of a call.
LEMMA CallFrame ==
  ASSUME [Next]_vars
  PROVE  UNCHANGED <<kind, entry, variant, haveOut, wantStats, n, raw, extra, block, capacity>>
BY DEF Next, vars, call, Check, DrawWithoutOutput, DrawOne, Dry, Delivered,
       BlockStart, Fill, FillDry, Filled, MapBlock, Finish

\* Nor what is computed from them alone.
LEMMA CallOperators ==
  ASSUME [Next]_vars
  PROVE  /\ Refused' = Refused /\ Reflected' = Reflected
         /\ Table' = Table /\ Draws' = Draws /\ RawLen' = RawLen
<1>1. UNCHANGED <<kind, entry, variant, haveOut, wantStats, n, raw, extra, block, capacity>>
  BY CallFrame
<1>2. RawLen' = RawLen /\ WorkspaceOK' = WorkspaceOK
  BY <1>1 DEF RawLen, WorkspaceOK
<1>3. Reflected' = Reflected /\ Table' = Table
  BY <1>1 DEF Reflected, Table
<1>4. Refused' = Refused
  BY <1>1, <1>2 DEF Refused
<1>5. Draws' = Draws
  BY <1>1, <1>3 DEF Draws
<1> QED BY <1>2, <1>3, <1>4, <1>5

\* The numbers of a call and of its loops.
LEMMA Numbers ==
  ASSUME TypeOK
  PROVE  /\ n \in Nat /\ MaxN \in Nat /\ n <= MaxN /\ done \in Nat /\ done <= n
         /\ pos \in Nat /\ Len(raw) \in Nat /\ pos <= Len(raw)
         /\ DrawBytes \in Nat \ {0} /\ extra \in Nat /\ extra < DrawBytes
         /\ block \in Nat /\ capacity \in Nat /\ filled \in Nat /\ filled <= block
         /\ Take \in Nat /\ Take <= block /\ done + Take <= n
         /\ clock \in Nat /\ Len(from) \in Nat
<1>1. DrawBytes \in Nat \ {0} /\ MaxN \in Nat
  BY SamplerAssumption
<1>2. n \in Nat /\ n <= MaxN /\ done \in Nat /\ done <= n
  BY <1>1 DEF TypeOK
<1>3. pos \in Nat /\ Len(raw) \in Nat /\ pos <= Len(raw) /\ Len(from) \in Nat
  BY DEF TypeOK
<1>4. /\ extra \in Nat /\ extra < DrawBytes /\ clock \in Nat
      /\ block \in Nat /\ capacity \in Nat /\ filled \in Nat /\ filled <= block
  BY <1>1 DEF TypeOK
<1>5. Take \in Nat /\ Take <= block /\ done + Take <= n
  BY <1>2, <1>4 DEF Take
<1> QED BY <1>1, <1>2, <1>3, <1>4, <1>5

\* Another draw can be read exactly when the source holds another whole one.
LEMMA HasDrawExact ==
  ASSUME TypeOK
  PROVE  /\ HasDraw <=> pos < Len(raw)
         /\ DrawBytes * pos <= RawLen
<1> DEFINE D == DrawBytes
           P == Len(raw)
<1>1. D \in Nat \ {0} /\ P \in Nat /\ pos \in Nat /\ pos <= P /\ extra \in Nat /\ extra < D
  BY Numbers
<1>2. RawLen = D * P + extra /\ (HasDraw <=> D * (pos + 1) <= RawLen)
  BY DEF RawLen, HasDraw
<1>3. D * pos <= D * P /\ D * pos \in Nat /\ D * P \in Nat /\ D * (pos + 1) = D * pos + D
  BY <1>1
<1>4. ASSUME pos < P PROVE D * (pos + 1) <= D * P
  <2>1. pos + 1 <= P
    BY <1>1, <1>4
  <2> HIDE DEF D, P
  <2> QED BY <1>1, <2>1
<1>5. ASSUME pos = P PROVE D * (pos + 1) = D * P + D
  BY <1>1, <1>5
<1>6. HasDraw <=> pos < P
  <2> HIDE DEF D, P
  <2> QED BY <1>1, <1>2, <1>3, <1>4, <1>5
<1>7. D * pos <= RawLen
  <2> HIDE DEF D, P
  <2> QED BY <1>1, <1>2, <1>3
<1> QED BY <1>6, <1>7

LEMMA NextDraw ==
  ASSUME TypeOK, pos < Len(raw)
  PROVE  raw[pos + 1] \in Draw
<1>1. raw \in Seq(Draw) /\ pos + 1 \in 1 .. Len(raw)
  BY Numbers DEF TypeOK
<1> QED BY <1>1

\* Both ways of decoding give the limbs of the draw.
LEMMA DecodeFacts ==
  ASSUME NEW d \in Draw
  PROVE  /\ Decode(d) = FromLe9(d)
         /\ FromLe9(d) \in Limbs /\ Value(FromLe9(d)) = d
BY DecodeExact, SdatDecodeExact DEF Decode

\* Both comparisons with q test the same draws.
LEMMA KeepsExact ==
  ASSUME NEW y \in Limbs
  PROVE  Keeps(y) <=> (kind = "original" \/ Value(y) < Bound)
<1>1. QLimbs \in Limbs
  BY LimbAssumption
<1>2. Lt(y, QLimbs) = 1 <=> Value(y) < Bound
  BY <1>1, LtExact, AcceptExact DEF Bound
<1>3. IsAccepted(y) <=> Value(y) < Bound
  BY LtExact, AcceptExact DEF Bound
<1> QED BY <1>2, <1>3 DEF Keeps

\* The candidate a kept draw becomes, reflected or not, and its sample.
LEMMA KeptDraw ==
  ASSUME NEW d \in Draw, Keeps(FromLe9(d))
  PROVE  /\ Oriented(FromLe9(d)) \in Limbs
         /\ Lookup(Oriented(FromLe9(d)), Table) \in Nat
         /\ Lookup(Oriented(FromLe9(d)), Table)
              = ImageDraw([kind |-> kind, reflected |-> Reflected, draw |-> d])
<1> DEFINE y == FromLe9(d)
           c == IF Reflected THEN Bound - 1 - d ELSE d
<1>1. y \in Limbs /\ Value(y) = d
  BY DecodeFacts
<1>2. Oriented(y) \in Limbs /\ Value(Oriented(y)) = c
  <2>1. CASE Reflected
    <3>1. kind # "original"
      BY <2>1 DEF Reflected
    <3>2. Value(y) < Bound
      BY <1>1, <3>1, KeepsExact
    <3>3. IsAccepted(y)
      BY <1>1, <3>2, LtExact, AcceptExact DEF Bound
    <3>4. ReverseCoordinate(y) \in Limbs /\ Value(ReverseCoordinate(y)) = Bound - 1 - d
      BY <1>1, <3>3, ReflectExact DEF Bound
    <3> QED BY <2>1, <3>4 DEF Oriented
  <2>2. CASE ~ Reflected
    BY <1>1, <2>2 DEF Oriented
  <2> QED BY <2>1, <2>2
<1>3. Table \in [1 .. Rows -> Limbs] /\ Table[Rows] = ZeroLimbs
  BY LimbAssumption DEF Table
<1>4. Lookup(Oriented(y), Table) \in Nat
  <2>1. Lookup(Oriented(y), Table) \in 0 .. FALCON_BASE_SUPPORT_MAX
    BY <1>2, <1>3, LookupInSupport, LookupIsCount
  <2> QED BY <2>1
<1>5. Lookup(Oriented(y), Table) = Cardinality({k \in 1 .. Rows : c < Value(Table[k])})
  <2>1. Lookup(Oriented(y), Table)
          = Cardinality({k \in 1 .. Rows : Value(Oriented(y)) < Value(Table[k])})
    BY <1>2, <1>3, LookupInSupport, LookupIsCount
  <2> QED BY <1>2, <2>1
<1>6. ImageDraw([kind |-> kind, reflected |-> Reflected, draw |-> d])
        = Cardinality({k \in 1 .. Rows : c < Value(Table[k])})
  BY DEF ImageDraw, Table
<1> QED BY <1>2, <1>4, <1>5, <1>6

\* The same for a slot of the workspace, which is never reflected.
LEMMA SlotImage ==
  ASSUME entry = "staged", NEW y \in Limbs, NEW d, Value(y) = d
  PROVE  /\ Lookup(y, Table) \in Nat
         /\ Lookup(y, Table) = ImageDraw([kind |-> kind, reflected |-> Reflected, draw |-> d])
<1>1. ~ Reflected
  BY DEF Reflected
<1>2. Table \in [1 .. Rows -> Limbs] /\ Table[Rows] = ZeroLimbs
  BY LimbAssumption DEF Table
<1>3. Lookup(y, Table) \in 0 .. FALCON_BASE_SUPPORT_MAX
  BY <1>2, LookupInSupport, LookupIsCount
<1>4. Lookup(y, Table) = Cardinality({k \in 1 .. Rows : d < Value(Table[k])})
  BY <1>2, LookupInSupport, LookupIsCount
<1>5. ImageDraw([kind |-> kind, reflected |-> Reflected, draw |-> d])
        = Cardinality({k \in 1 .. Rows : d < Value(Table[k])})
  BY <1>1 DEF ImageDraw, Table
<1> QED BY <1>3, <1>4, <1>5

\* Records of counters.
LEMMA StatsType ==
  ASSUME NEW a \in Nat, NEW r \in Nat
  PROVE  /\ StatsRecord(a, r) \in Counters
         /\ StatsRecord(a, r).attempts = a /\ StatsRecord(a, r).rejections = r
<1>1. DrawBytes \in Nat
  BY SamplerAssumption
<1>2. DrawBytes * a \in Nat /\ 8 * DrawBytes * a \in Nat
  BY <1>1
<1> QED BY <1>2 DEF StatsRecord, Counters

-----------------------------------------------------------------------------
(* Types, phases and the history *)

BaseInv == TypeOK /\ Control /\ History /\ Timing

LEMMA InitBase == Init => BaseInv
<1> SUFFICES ASSUME Init PROVE BaseInv
  OBVIOUS
<1>1. /\ DrawBytes \in Nat \ {0} /\ InputDraws \subseteq Draw /\ Poison \in Nat
      /\ MaxDraws \in Nat /\ MaxN \in Nat /\ Blocks \subseteq Nat /\ Capacities \subseteq Nat
  BY SamplerAssumption
<1>2. PICK k \in 0 .. MaxDraws : raw \in [1 .. k -> InputDraws]
  BY DEF Init
<1>3. raw \in Seq(Draw)
  <2>1. k \in Nat /\ raw \in [1 .. k -> Draw]
    BY <1>1, <1>2
  <2> QED BY <2>1
<1>4. /\ kind \in {"original", "sda"} /\ entry \in Streams \cup {"staged"}
      /\ variant \in 0 .. 3 /\ haveOut \in BOOLEAN /\ wantStats \in BOOLEAN
  BY DEF Init
<1>5. /\ n \in 0 .. MaxN /\ n \in Nat /\ extra \in 0 .. DrawBytes - 1
      /\ block \in Nat /\ capacity \in Nat
      /\ entry # "staged" => capacity = MaxN
  BY <1>1 DEF Init
<1>6. out \in [1 .. MaxN + 1 -> Nat] /\ cells \in [1 .. capacity -> Limbs]
  <2>1. ZeroLimbs \in Limbs
    BY LimbAssumption DEF ZeroLimbs, Limbs, Limb
  <2> QED BY <1>1, <2>1 DEF Init
<1>7. /\ done = 0 /\ pos = 0 /\ filled = 0 /\ from = <<>> /\ clock = 0
      /\ attempts = Stale /\ pc = "check" /\ rc = 0
      /\ marks = [t0 |-> 0, t1 |-> 0, outer0 |-> 0] /\ tm = StaleTiming
  BY DEF Init
<1>8. st \in Counters
  <2>1. ZeroStats \in Counters
    BY StatsType DEF ZeroStats
  <2> QED BY <2>1 DEF Init, StaleStats, Counters
<1>9. /\ done \in 0 .. n /\ pos \in 0 .. Len(raw) /\ filled \in 0 .. block
      /\ from \in Seq(1 .. Len(raw)) /\ Len(from) = 0 /\ rc \in -2 .. n
  BY <1>3, <1>5, <1>7
<1>10. /\ marks \in [t0 : Nat, t1 : Nat, outer0 : Nat] /\ attempts \in Nat
       /\ tm \in [input : Nat, mapping : Nat, outer : Nat] /\ clock \in Nat
  BY <1>7 DEF StaleTiming, Stale
<1>11. TypeOK
  BY <1>3, <1>4, <1>5, <1>6, <1>7, <1>8, <1>9, <1>10 DEF TypeOK
<1>12. Control
  BY <1>5, <1>7 DEF Control
<1>13. History
  BY <1>7, <1>9 DEF History, Open
<1>14. Timing
  BY <1>7 DEF Timing
<1> QED BY <1>11, <1>12, <1>13, <1>14 DEF BaseInv

\* The bookkeeping of a turn of a streaming loop.
LEMMA DrawOneFacts ==
  ASSUME BaseInv, DrawOne
  PROVE  LET w == FromLe9(raw[pos + 1])
             keep == Keeps(w) IN
         /\ pc = "draw" /\ done < n /\ pos < Len(raw) /\ haveOut
         /\ raw[pos + 1] \in Draw
         /\ out' = IF keep /\ entry # "prepare"
                   THEN [out EXCEPT ![done + 1] = Lookup(Oriented(w), Table)] ELSE out
         /\ cells' = IF keep /\ entry = "prepare"
                     THEN [cells EXCEPT ![done + 1] = Oriented(w)] ELSE cells
         /\ \/ keep /\ done' = done + 1 /\ from' = Append(from, pos + 1)
            \/ ~ keep /\ kind # "original" /\ done' = done /\ from' = from
         /\ st' = Counted(keep)
         /\ pos' = pos + 1
         /\ UNCHANGED <<filled, attempts, clock, marks, tm, pc, rc>>
<1>1. TypeOK
  BY DEF BaseInv
<1>2. pc = "draw" /\ done < n /\ HasDraw /\ pos < Len(raw) /\ haveOut
  BY <1>1, HasDrawExact DEF DrawOne
<1>3. raw[pos + 1] \in Draw
  BY <1>1, <1>2, NextDraw
<1>4. Decode(raw[pos + 1]) = FromLe9(raw[pos + 1])
  BY <1>3, DecodeFacts
<1>5. done + 0 = done
  BY <1>1, Numbers
<1>6. kind = "original" => Keeps(FromLe9(raw[pos + 1]))
  BY DEF Keeps
<1>7. /\ done' = done + (IF Keeps(FromLe9(raw[pos + 1])) THEN 1 ELSE 0)
      /\ from' = IF Keeps(FromLe9(raw[pos + 1])) THEN Append(from, pos + 1) ELSE from
      /\ st' = Counted(Keeps(FromLe9(raw[pos + 1])))
      /\ pos' = pos + 1
      /\ UNCHANGED <<filled, attempts, clock, marks, tm, pc, rc>>
  BY <1>4 DEF DrawOne, time
<1>8. LET w == FromLe9(raw[pos + 1]) keep == Keeps(w) IN
      /\ out' = IF keep /\ entry # "prepare"
                THEN [out EXCEPT ![done + 1] = Lookup(Oriented(w), Table)] ELSE out
      /\ cells' = IF keep /\ entry = "prepare"
                  THEN [cells EXCEPT ![done + 1] = Oriented(w)] ELSE cells
  BY <1>4 DEF DrawOne
<1> QED BY <1>2, <1>3, <1>5, <1>6, <1>7, <1>8

\* One draw of the input stage.
LEMMA FillFacts ==
  ASSUME BaseInv, Fill
  PROVE  LET w == FromLe9(raw[pos + 1]) IN
         /\ pc = "fill" /\ filled < Take /\ pos < Len(raw) /\ entry = "staged"
         /\ raw[pos + 1] \in Draw /\ filled + 1 \in 1 .. capacity /\ filled + 1 <= block
         /\ \/ /\ Keeps(w) /\ filled' = filled + 1 /\ from' = Append(from, pos + 1)
               /\ cells' = [cells EXCEPT ![filled + 1] = w]
            \/ /\ ~ Keeps(w) /\ kind # "original" /\ filled' = filled /\ from' = from
               /\ cells' = cells
         /\ pos' = pos + 1 /\ clock' = clock + DrawTicks
         /\ UNCHANGED <<out, done, st, attempts, marks, tm, pc, rc>>
<1>1. TypeOK
  BY DEF BaseInv
<1>2. pc = "fill" /\ filled < Take /\ HasDraw /\ pos < Len(raw)
  BY <1>1, HasDrawExact DEF Fill
<1>3. raw[pos + 1] \in Draw
  BY <1>1, <1>2, NextDraw
<1>4. entry = "staged" /\ block <= capacity
  <2>1. entry = "staged" /\ ~ Refused
    BY <1>2 DEF BaseInv, Control
  <2>2. WorkspaceOK
    BY <2>1 DEF Refused
  <2> QED BY <1>1, <2>1, <2>2, Numbers DEF WorkspaceOK
<1>5. filled + 1 \in 1 .. capacity /\ filled + 1 <= block /\ filled + 0 = filled
  BY <1>1, <1>2, <1>4, Numbers
<1>6. kind = "original" => Keeps(FromLe9(raw[pos + 1]))
  BY DEF Keeps
<1>7. LET w == FromLe9(raw[pos + 1]) IN
      /\ cells' = IF Keeps(w) THEN [cells EXCEPT ![filled + 1] = w] ELSE cells
      /\ filled' = filled + (IF Keeps(w) THEN 1 ELSE 0)
      /\ from' = IF Keeps(w) THEN Append(from, pos + 1) ELSE from
      /\ pos' = pos + 1 /\ clock' = clock + DrawTicks
      /\ UNCHANGED <<out, done, st, attempts, marks, tm, pc, rc>>
  BY DEF Fill
<1> QED BY <1>2, <1>3, <1>4, <1>5, <1>6, <1>7

\* The history stays a sequence of positions of the source.
LEMMA FromType ==
  ASSUME TypeOK, pos < Len(raw)
  PROVE  /\ Append(from, pos + 1) \in Seq(1 .. Len(raw))
         /\ Len(Append(from, pos + 1)) = Len(from) + 1
         /\ \A i \in 1 .. Len(from) : Append(from, pos + 1)[i] = from[i]
         /\ Append(from, pos + 1)[Len(from) + 1] = pos + 1
<1> DEFINE S == 1 .. Len(raw)
<1>1. from \in Seq(S) /\ pos + 1 \in S
  BY Numbers DEF TypeOK
<1> HIDE DEF S
<1>2. /\ Append(from, pos + 1) \in Seq(S)
      /\ Len(Append(from, pos + 1)) = Len(from) + 1
      /\ Append(from, pos + 1)[Len(from) + 1] = pos + 1
      /\ \A i \in 1 .. Len(from) : Append(from, pos + 1)[i] = from[i]
  BY <1>1
<1> QED BY <1>2 DEF S

-----------------------------------------------------------------------------
(* Types *)

DataType ==
  /\ out \in [1 .. MaxN + 1 -> Nat] /\ cells \in [1 .. capacity -> Limbs]
  /\ done \in 0 .. n /\ pos \in 0 .. Len(raw) /\ filled \in 0 .. block
  /\ from \in Seq(1 .. Len(raw))

RestType ==
  /\ st \in Counters /\ attempts \in Nat
  /\ clock \in Nat /\ marks \in [t0 : Nat, t1 : Nat, outer0 : Nat]
  /\ tm \in [input : Nat, mapping : Nat, outer : Nat]
  /\ pc \in {"check", "draw", "block", "fill", "map", "done"}
  /\ rc \in -2 .. n

LEMMA TypeParts == TypeOK => DataType /\ RestType
BY DEF TypeOK, DataType, RestType

\* The samples, the cells and the indices of the loops.
LEMMA DataStep == BaseInv /\ Next => DataType'
<1> SUFFICES ASSUME BaseInv, Next PROVE DataType'
  OBVIOUS
<1>0. TypeOK /\ DataType
  BY TypeParts DEF BaseInv
<1>1. UNCHANGED <<n, raw, block, capacity>>
  BY CallFrame
<1>2. /\ n \in Nat /\ MaxN \in Nat /\ n <= MaxN /\ done \in Nat /\ done <= n
      /\ pos \in Nat /\ Len(raw) \in Nat /\ pos <= Len(raw)
      /\ block \in Nat /\ capacity \in Nat /\ filled \in Nat /\ filled <= block
      /\ Take \in Nat /\ Take <= block /\ done + Take <= n
  BY <1>0, Numbers
<1>3. ASSUME UNCHANGED <<out, cells, done, pos, filled, from>> PROVE DataType'
  BY <1>0, <1>1, <1>3 DEF DataType
<1>4. CASE Check
  BY <1>3, <1>4 DEF Check
<1>5. CASE DrawWithoutOutput
  <2>1. pos < Len(raw)
    BY <1>0, <1>5, HasDrawExact DEF DrawWithoutOutput
  <2>2. from' \in Seq(1 .. Len(raw)) /\ pos' \in 0 .. Len(raw)
    BY <1>0, <1>2, <1>5, <2>1, FromType DEF DrawWithoutOutput
  <2> QED BY <1>0, <1>1, <1>5, <2>2 DEF DrawWithoutOutput, DataType
<1>6. CASE DrawOne
  <2> DEFINE w == FromLe9(raw[pos + 1])
             keep == Keeps(w)
  <2>1. /\ done < n /\ pos < Len(raw) /\ raw[pos + 1] \in Draw
        /\ out' = IF keep /\ entry # "prepare"
                  THEN [out EXCEPT ![done + 1] = Lookup(Oriented(w), Table)] ELSE out
        /\ cells' = IF keep /\ entry = "prepare"
                    THEN [cells EXCEPT ![done + 1] = Oriented(w)] ELSE cells
        /\ done' = done + 1 \/ done' = done
        /\ from' = Append(from, pos + 1) \/ from' = from
        /\ pos' = pos + 1 /\ filled' = filled
    BY <1>6, DrawOneFacts
  <2>2. keep => Oriented(w) \in Limbs /\ Lookup(Oriented(w), Table) \in Nat
    BY <2>1, KeptDraw
  <2>3. out' \in [1 .. MaxN + 1 -> Nat] /\ cells' \in [1 .. capacity -> Limbs]
    <3>1. out \in [1 .. MaxN + 1 -> Nat] /\ cells \in [1 .. capacity -> Limbs]
      BY <1>0 DEF DataType
    <3> HIDE DEF w, keep
    <3> QED BY <2>1, <2>2, <3>1
  <2>4. from' \in Seq(1 .. Len(raw))
    BY <1>0, <2>1, FromType DEF DataType
  <2>5. done' \in 0 .. n /\ pos' \in 0 .. Len(raw) /\ filled' \in 0 .. block
    BY <1>2, <2>1
  <2> QED BY <1>1, <2>3, <2>4, <2>5 DEF DataType
<1>7. CASE Dry \/ Delivered
  BY <1>3, <1>7 DEF Dry, Delivered
<1>8. CASE BlockStart
  <2>1. filled' \in 0 .. block
    BY <1>2, <1>8 DEF BlockStart
  <2> QED BY <1>0, <1>1, <1>8, <2>1 DEF BlockStart, DataType
<1>9. CASE Fill
  <2> DEFINE w == FromLe9(raw[pos + 1])
  <2>1. /\ filled + 1 <= block /\ pos < Len(raw) /\ raw[pos + 1] \in Draw
        /\ \/ /\ filled' = filled + 1 /\ from' = Append(from, pos + 1)
              /\ cells' = [cells EXCEPT ![filled + 1] = w]
           \/ filled' = filled /\ from' = from /\ cells' = cells
        /\ pos' = pos + 1
        /\ UNCHANGED <<out, done>>
    BY <1>9, FillFacts
  <2>2. w \in Limbs
    BY <2>1, DecodeFacts
  <2>3. cells' \in [1 .. capacity -> Limbs]
    <3>1. cells \in [1 .. capacity -> Limbs]
      BY <1>0 DEF DataType
    <3> HIDE DEF w
    <3> QED BY <2>1, <2>2, <3>1
  <2>4. from' \in Seq(1 .. Len(raw))
    BY <1>0, <2>1, FromType DEF DataType
  <2>5. pos' \in 0 .. Len(raw) /\ filled' \in 0 .. block
    BY <1>2, <2>1
  <2>6. out' \in [1 .. MaxN + 1 -> Nat] /\ done' \in 0 .. n
    BY <1>0, <2>1 DEF DataType
  <2> QED BY <1>1, <2>3, <2>4, <2>5, <2>6 DEF DataType
<1>10. CASE FillDry
  BY <1>3, <1>10 DEF FillDry
<1>11. CASE Filled
  BY <1>3, <1>11 DEF Filled
<1>12. CASE MapBlock
  <2>1. ASSUME NEW i \in done + 1 .. done + Take
        PROVE  Lookup(cells[i - done], Table) \in Nat
    <3>1. entry = "staged" /\ ~ Refused
      BY <1>12 DEF MapBlock, BaseInv, Control
    <3>2. block <= capacity
      BY <1>2, <3>1 DEF Refused, WorkspaceOK
    <3>3. i - done \in 1 .. capacity
      BY <1>2, <3>2
    <3>4. cells[i - done] \in Limbs
      BY <1>0, <3>3 DEF DataType
    <3> QED BY <3>1, <3>4, SlotImage
  <2>2. out' \in [1 .. MaxN + 1 -> Nat]
    BY <1>0, <1>12, <2>1 DEF MapBlock, DataType
  <2>3. done' \in 0 .. n
    BY <1>2, <1>12 DEF MapBlock
  <2> QED BY <1>0, <1>1, <1>12, <2>2, <2>3 DEF MapBlock, DataType
<1>13. CASE Finish
  BY <1>3, <1>13 DEF Finish
<1> QED BY <1>4, <1>5, <1>6, <1>7, <1>8, <1>9, <1>10, <1>11, <1>12, <1>13 DEF Next

\* At the head of a block nothing is open, so the draws spent cover the samples.
LEMMA FinishFacts ==
  ASSUME BaseInv, Finish
  PROVE  /\ done = n /\ Len(from) = n /\ n <= pos
         /\ kind = "original" => pos = n
         /\ entry = "staged" /\ ~ Refused
<1>1. done = n /\ Open = 0 /\ pc = "block" /\ n \in Nat
  BY Numbers DEF Finish, Open, BaseInv
<1>2. Len(from) = done + Open /\ Len(from) <= pos /\ (kind = "original" => Len(from) = pos)
  BY <1>1 DEF BaseInv, History
<1>3. entry = "staged" /\ ~ Refused
  BY <1>1 DEF BaseInv, Control
<1> QED BY <1>1, <1>2, <1>3

\* A span of time is the sum of its parts.
LEMMA Spans ==
  ASSUME NEW c \in Nat, NEW i \in Nat, NEW j \in Nat
  PROVE  /\ c * i \in Nat /\ c * 0 = 0 /\ c * (i + 1) = c * i + c
         /\ c * (i + j) = c * i + c * j
         /\ i <= j => j - i \in Nat /\ c * (j - i) = c * j - c * i
OBVIOUS

\* In the block loop the marks lie in the past, in their order.
LEMMA MarksOrdered ==
  ASSUME BaseInv, pc \in {"block", "fill", "map"}
  PROVE  /\ Reached \in Nat /\ Reached <= pos
         /\ marks.outer0 <= clock
         /\ pc = "map" => marks.t0 <= marks.t1 /\ marks.t1 = clock
<1>0. TypeOK /\ History /\ Timing
  BY DEF BaseInv
<1>1. /\ done \in Nat /\ pos \in Nat /\ clock \in Nat
      /\ MarkTicks \in Nat /\ DrawTicks \in Nat /\ SampleTicks \in Nat
      /\ marks.t0 \in Nat /\ marks.t1 \in Nat /\ marks.outer0 \in Nat
      /\ tm.input \in Nat /\ tm.mapping \in Nat
  BY <1>0, Numbers, SamplerAssumption DEF TypeOK
<1>2. Reached \in Nat /\ Reached <= pos
  <2>1. Open \in Nat /\ Len(from) = done + Open /\ Len(from) \in Nat
    BY <1>0, Numbers DEF History, Open
  <2>2. done # 0 => from[done] \in 1 .. Len(raw)
    <3> DEFINE S == 1 .. Len(raw)
    <3>1. done # 0 => done \in 1 .. Len(from)
      BY <1>1, <2>1
    <3>2. from \in Seq(S)
      BY <1>0 DEF TypeOK
    <3> HIDE DEF S
    <3>3. done # 0 => from[done] \in S
      BY <3>1, <3>2
    <3> QED BY <3>3 DEF S
  <2>3. Reached \in Nat
    BY <1>0, <2>2, Numbers DEF Reached
  <2> QED BY <1>0, <2>3 DEF Timing
<1>3. DrawTicks * (pos - Reached) \in Nat
  BY <1>1, <1>2, Spans
<1>4. PICK b \in 0 .. done :
        LET lap == marks.outer0 + tm.input + tm.mapping + MarkTicks * b IN
        /\ pc = "block" => clock = lap
        /\ pc \in {"fill", "map"} => marks.t0 = lap + MarkTicks
        /\ pc = "fill" => clock = marks.t0 + DrawTicks * (pos - Reached)
        /\ pc = "map" =>
             clock = marks.t1 /\ clock = marks.t0 + DrawTicks * (pos - Reached) + MarkTicks
  BY <1>0 DEF Timing
<1>5. b \in Nat /\ MarkTicks * b \in Nat
  BY <1>1, <1>4, Spans
<1> QED BY <1>1, <1>2, <1>3, <1>4, <1>5

\* The counters, the clock, the timing and the return code.
LEMMA RestStep == BaseInv /\ Next => RestType'
<1> SUFFICES ASSUME BaseInv, Next PROVE RestType'
  OBVIOUS
<1>0. TypeOK /\ RestType
  BY TypeParts DEF BaseInv
<1>1. UNCHANGED n
  BY CallFrame
<1>2. /\ n \in Nat /\ done \in Nat /\ done <= n /\ pos \in Nat
      /\ Take \in Nat /\ done + Take <= n /\ clock \in Nat
      /\ StageMark \in Nat /\ DrawTicks \in Nat /\ SampleTicks * Take \in Nat
      /\ clock <= StageMark
  BY <1>0, Numbers, SamplerAssumption, Spans DEF StageMark
<1>3. ZeroStats \in Counters
  BY StatsType DEF ZeroStats
<1>4. \A keep \in BOOLEAN : Counted(keep) \in Counters
  <2>1. st \in Counters /\ st.attempts \in Nat /\ st.rejections \in Nat
    BY <1>0 DEF RestType, Counters
  <2>2. /\ st.attempts + 1 \in Nat /\ st.rejections + 0 \in Nat /\ st.rejections + 1 \in Nat
    BY <2>1
  <2>3. /\ StatsRecord(st.attempts + 1, st.rejections + 0) \in Counters
        /\ StatsRecord(st.attempts + 1, st.rejections + 1) \in Counters
    BY <2>2, StatsType
  <2> QED BY <2>1, <2>3 DEF Counted
<1>5. marks.t0 \in Nat /\ marks.t1 \in Nat /\ marks.outer0 \in Nat
  BY <1>0 DEF RestType
<1>6. tm.input \in Nat /\ tm.mapping \in Nat /\ tm.outer \in Nat
  BY <1>0 DEF RestType
<1>7. CASE Check
  <2>1. st' \in Counters
    BY <1>0, <1>3, <1>7 DEF Check, RestType
  <2>2. tm' \in [input : Nat, mapping : Nat, outer : Nat]
    BY <1>0, <1>7 DEF Check, RestType, time
  <2>3. marks' \in [t0 : Nat, t1 : Nat, outer0 : Nat] /\ clock' \in Nat
    BY <1>0, <1>2, <1>7 DEF Check, RestType, time
  <2>4. pc' \in {"draw", "block", "done"} /\ rc' \in -2 .. n
    BY <1>0, <1>2, <1>7 DEF Check, Stop, RestType
  <2> QED BY <1>0, <1>1, <1>7, <2>1, <2>2, <2>3, <2>4 DEF Check, RestType
<1>8. CASE DrawWithoutOutput
  <2>1. st' \in Counters
    BY <1>4, <1>8 DEF DrawWithoutOutput
  <2>2. rc' \in -2 .. n /\ pc' = "done"
    BY <1>2, <1>8 DEF DrawWithoutOutput, Stop
  <2> QED BY <1>0, <1>1, <1>8, <2>1, <2>2 DEF DrawWithoutOutput, time, RestType
<1>9. CASE DrawOne
  <2> DEFINE keep == Keeps(FromLe9(raw[pos + 1]))
  <2>1. keep \in BOOLEAN
    BY DEF Keeps
  <2>2. st' = Counted(keep) /\ UNCHANGED <<attempts, clock, marks, tm, pc, rc>>
    BY <1>9, DrawOneFacts
  <2>3. st' \in Counters
    BY <1>4, <2>1, <2>2
  <2> QED BY <1>0, <1>1, <2>2, <2>3 DEF RestType
<1>10. CASE Dry \/ Delivered
  <2>1. attempts' \in Nat
    BY <1>0, <1>2, <1>10 DEF Dry, Delivered, AttemptsReported, RestType
  <2>2. rc' \in -2 .. n /\ pc' = "done"
    BY <1>2, <1>10 DEF Dry, Delivered, Stop
  <2>3. UNCHANGED <<st, clock, marks, tm>>
    BY <1>10 DEF Dry, Delivered, time
  <2> QED BY <1>0, <1>1, <2>1, <2>2, <2>3 DEF RestType
<1>11. CASE BlockStart
  BY <1>0, <1>1, <1>2, <1>11 DEF BlockStart, RestType
<1>12. CASE Fill
  BY <1>0, <1>1, <1>2, <1>12 DEF Fill, RestType
<1>13. CASE FillDry
  <2>1. rc' \in -2 .. n /\ pc' = "done"
    BY <1>2, <1>13 DEF FillDry, Stop
  <2> QED BY <1>0, <1>1, <1>13, <2>1 DEF FillDry, time, RestType
<1>14. CASE Filled
  BY <1>0, <1>1, <1>2, <1>14 DEF Filled, RestType
<1>15. CASE MapBlock
  <2>1. marks.t0 <= marks.t1 /\ marks.t1 = clock
    BY <1>15, MarksOrdered DEF MapBlock
  <2>2. clock' \in Nat
    BY <1>2, <1>15 DEF MapBlock
  <2>3. tm.input + (marks.t1 - marks.t0) \in Nat /\ tm.mapping + (clock' - marks.t1) \in Nat
    BY <1>2, <1>5, <1>6, <1>15, <2>1 DEF MapBlock
  <2>4. tm' \in [input : Nat, mapping : Nat, outer : Nat]
    BY <1>0, <1>15, <2>3 DEF MapBlock, RestType
  <2> QED BY <1>0, <1>1, <1>15, <2>2, <2>4 DEF MapBlock, RestType
<1>16. CASE Finish
  <2>1. n <= pos /\ marks.outer0 <= clock
    BY <1>16, FinishFacts, MarksOrdered DEF Finish
  <2>2. pos - n \in Nat
    BY <1>2, <2>1
  <2>3. StatsRecord(pos, pos - n) \in Counters /\ StatsRecord(n, 0) \in Counters
    BY <1>2, <2>2, StatsType
  <2>4. st' \in Counters
    BY <1>0, <1>16, <2>3 DEF Finish, RestType
  <2>5. StageMark - marks.outer0 \in Nat
    BY <1>2, <1>5, <2>1
  <2>6. tm' \in [input : Nat, mapping : Nat, outer : Nat]
    BY <1>0, <1>16, <2>5 DEF Finish, RestType
  <2>7. rc' \in -2 .. n /\ pc' = "done"
    BY <1>2, <1>16 DEF Finish, Stop
  <2> QED BY <1>0, <1>1, <1>2, <1>16, <2>4, <2>6, <2>7 DEF Finish, RestType
<1> QED BY <1>7, <1>8, <1>9, <1>10, <1>11, <1>12, <1>13, <1>14, <1>15, <1>16 DEF Next

LEMMA TypeStep == BaseInv /\ Next => TypeOK'
<1> SUFFICES ASSUME BaseInv, Next PROVE TypeOK'
  OBVIOUS
<1>1. TypeOK
  BY DEF BaseInv
<1>2. DataType' /\ RestType'
  BY DataStep, RestStep
<1>3. UNCHANGED <<kind, entry, variant, haveOut, wantStats, n, raw, extra, block, capacity>>
  BY CallFrame
<1> QED BY <1>1, <1>2, <1>3 DEF TypeOK, DataType, RestType

-----------------------------------------------------------------------------
(* Phases, history and timing *)

LEMMA TakeFrame ==
  ASSUME UNCHANGED <<n, done, block>>
  PROVE  Take' = Take
BY DEF Take

LEMMA ControlStep == BaseInv /\ Next => Control'
<1> SUFFICES ASSUME BaseInv, Next PROVE Control'
  OBVIOUS
<1>0. TypeOK /\ Control
  BY DEF BaseInv
<1>1. UNCHANGED <<entry, n, block, capacity, MaxN>> /\ Refused' = Refused
  BY CallFrame, CallOperators
<1>2. done \in Nat /\ n \in Nat /\ filled \in Nat /\ Take \in Nat
  BY <1>0, Numbers
<1>3. pc' # "check"
  BY <1>0 DEF Next, Check, Stop, DrawWithoutOutput, DrawOne, Dry, Delivered,
       BlockStart, Fill, FillDry, Filled, MapBlock, Finish, Control
<1>4. ASSUME pc' = "done", Refused
      PROVE  done' = 0 /\ pos' = 0 /\ from' = <<>> /\ attempts' = Stale
  <2>1. Check
    BY <1>0, <1>4 DEF Next, DrawWithoutOutput, DrawOne, Dry, Delivered,
         BlockStart, Fill, FillDry, Filled, MapBlock, Finish, Control
  <2> QED BY <1>0, <2>1 DEF Check, Control
<1>5. ASSUME pc' = "draw" PROVE ~ Refused /\ entry # "staged"
  BY <1>0, <1>5 DEF Next, Check, Stop, DrawWithoutOutput, DrawOne, Dry, Delivered,
       BlockStart, Fill, FillDry, Filled, MapBlock, Finish, Control
<1>6. ASSUME pc' \in {"block", "fill", "map"} PROVE ~ Refused /\ entry = "staged"
  BY <1>0, <1>6 DEF Next, Check, Stop, DrawWithoutOutput, DrawOne, Dry, Delivered,
       BlockStart, Fill, FillDry, Filled, MapBlock, Finish, Control
<1>7. ASSUME pc' = "fill" PROVE filled' <= Take' /\ done' < n
  <2>1. CASE BlockStart
    BY <1>1, <1>2, <2>1, TakeFrame DEF BlockStart
  <2>2. CASE Fill
    <3>1. /\ pc = "fill" /\ filled < Take /\ done' = done
          /\ filled' = filled + 1 \/ filled' = filled
      BY <2>2, FillFacts
    <3> QED BY <1>0, <1>1, <1>2, <3>1, TakeFrame DEF Control
  <2>3. BlockStart \/ Fill
    BY <1>0, <1>7 DEF Next, Check, Stop, DrawWithoutOutput, DrawOne, Dry, Delivered,
         FillDry, Filled, MapBlock, Finish
  <2> QED BY <2>1, <2>2, <2>3
<1>8. ASSUME pc' = "map" PROVE filled' = Take' /\ done' < n
  <2>1. Filled
    BY <1>0, <1>8 DEF Next, Check, Stop, DrawWithoutOutput, DrawOne, Dry, Delivered,
         BlockStart, Fill, FillDry, MapBlock, Finish
  <2> QED BY <1>0, <1>1, <2>1, TakeFrame DEF Filled, Control
<1>9. entry # "staged" => capacity = MaxN
  BY <1>0 DEF Control
<1> QED BY <1>1, <1>3, <1>4, <1>5, <1>6, <1>7, <1>8, <1>9 DEF Control

\* Positions once in the history stay there.
LEMMA FromGrows ==
  ASSUME BaseInv, Next
  PROVE  Len(from) <= Len(from') /\ \A i \in 1 .. Len(from) : from'[i] = from[i]
<1>0. TypeOK
  BY DEF BaseInv
<1>1. Len(from) \in Nat
  BY <1>0, Numbers
<1>2. \/ from' = from
      \/ pos < Len(raw) /\ from' = Append(from, pos + 1)
  <2>1. CASE DrawWithoutOutput
    BY <1>0, <2>1, HasDrawExact DEF DrawWithoutOutput
  <2>2. CASE DrawOne
    BY <2>2, DrawOneFacts
  <2>3. CASE Fill
    BY <2>3, FillFacts
  <2> QED BY <2>1, <2>2, <2>3 DEF Next, Check, Dry, Delivered, BlockStart, FillDry,
            Filled, MapBlock, Finish
<1> QED BY <1>0, <1>1, <1>2, FromType

LEMMA HistoryStep == BaseInv /\ Next => History'
<1> SUFFICES ASSUME BaseInv, Next PROVE History'
  OBVIOUS
<1>0. TypeOK /\ Control /\ History
  BY DEF BaseInv
<1>1. UNCHANGED <<kind, entry>> /\ Refused' = Refused
  BY CallFrame, CallOperators
<1>2. /\ done \in Nat /\ pos \in Nat /\ filled \in Nat /\ Take \in Nat /\ Len(from) \in Nat
  BY <1>0, Numbers
<1>3. Len(from) <= pos /\ (kind = "original" => Len(from) = pos)
  BY <1>0 DEF History
<1>4. pc # "done" => Len(from) = done + Open
  BY <1>0 DEF History
<1>5. ASSUME UNCHANGED <<from, pos>>, pc # "done", done' + Open' = done + Open PROVE History'
  BY <1>1, <1>3, <1>4, <1>5 DEF History
<1>6. CASE Check
  <2>1. Open = 0 /\ Open' = 0
    BY <1>1, <1>6 DEF Check, Stop, Open
  <2> QED BY <1>5, <1>6, <2>1 DEF Check
<1>7. CASE DrawWithoutOutput
  <2>1. pos < Len(raw) /\ from' = Append(from, pos + 1) /\ pos' = pos + 1
    BY <1>0, <1>7, HasDrawExact DEF DrawWithoutOutput
  <2>2. Len(from') = Len(from) + 1
    BY <1>0, <2>1, FromType
  <2>3. pc' = "done" /\ rc' = -1
    BY <1>7 DEF DrawWithoutOutput, Stop
  <2> QED BY <1>1, <1>2, <1>3, <2>1, <2>2, <2>3 DEF History
<1>8. CASE DrawOne
  <2>1. /\ pc = "draw" /\ pos < Len(raw) /\ pos' = pos + 1 /\ pc' = pc
        /\ \/ done' = done + 1 /\ from' = Append(from, pos + 1)
           \/ kind # "original" /\ done' = done /\ from' = from
    BY <1>8, DrawOneFacts
  <2>2. Len(Append(from, pos + 1)) = Len(from) + 1
    BY <1>0, <2>1, FromType
  <2>3. Open = 0 /\ Open' = 0
    BY <2>1 DEF Open
  <2>4. Len(from) = done
    BY <1>2, <1>4, <2>1, <2>3
  <2> QED BY <1>1, <1>2, <1>3, <2>1, <2>2, <2>3, <2>4 DEF History
<1>9. CASE Dry \/ Delivered
  <2>1. pc = "draw" /\ entry # "staged" /\ pc' = "done" /\ UNCHANGED <<from, pos, done>>
    BY <1>0, <1>9 DEF Dry, Delivered, Stop, Control
  <2>2. Open = 0 /\ Open' = 0
    BY <1>1, <2>1 DEF Open
  <2> QED BY <1>5, <2>1, <2>2
<1>10. CASE BlockStart
  <2>1. Open = 0 /\ Open' = 0
    BY <1>10 DEF BlockStart, Open
  <2> QED BY <1>5, <1>10, <2>1 DEF BlockStart
<1>11. CASE Fill
  <2>1. /\ pc = "fill" /\ pos < Len(raw) /\ pos' = pos + 1 /\ pc' = pc /\ done' = done
        /\ \/ filled' = filled + 1 /\ from' = Append(from, pos + 1)
           \/ kind # "original" /\ filled' = filled /\ from' = from
    BY <1>11, FillFacts
  <2>2. Len(Append(from, pos + 1)) = Len(from) + 1
    BY <1>0, <2>1, FromType
  <2>3. Open = filled /\ Open' = filled'
    BY <2>1 DEF Open
  <2>4. Len(from) = done + filled
    BY <1>4, <2>1, <2>3
  <2> QED BY <1>1, <1>2, <1>3, <2>1, <2>2, <2>3, <2>4 DEF History
<1>12. CASE FillDry
  <2>1. pc = "fill" /\ pc' = "done" /\ rc' = -2 /\ UNCHANGED <<from, pos, done, filled>>
    BY <1>12 DEF FillDry, Stop
  <2>2. entry = "staged"
    BY <1>0, <2>1 DEF Control
  <2>3. Open = filled /\ Open' = filled'
    BY <1>1, <2>1, <2>2 DEF Open
  <2> QED BY <1>5, <2>1, <2>3
<1>13. CASE Filled
  <2>1. Open = filled /\ Open' = filled'
    BY <1>13 DEF Filled, Open
  <2> QED BY <1>5, <1>13, <2>1 DEF Filled
<1>14. CASE MapBlock
  <2>1. pc = "map" /\ pc' = "block" /\ done' = done + Take /\ UNCHANGED <<from, pos>>
    BY <1>14 DEF MapBlock
  <2>2. Open = Take /\ Open' = 0
    BY <1>0, <2>1 DEF Open, Control
  <2> QED BY <1>2, <1>5, <2>1, <2>2
<1>15. CASE Finish
  <2>1. pc = "block" /\ pc' = "done" /\ rc' = 0 /\ UNCHANGED <<from, pos, done>>
    BY <1>15 DEF Finish, Stop
  <2>2. Open = 0 /\ Open' = 0
    BY <2>1 DEF Open
  <2> QED BY <1>5, <2>1, <2>2
<1> QED BY <1>6, <1>7, <1>8, <1>9, <1>10, <1>11, <1>12, <1>13, <1>14, <1>15 DEF Next

\* The last draw of a finished block is a sample, and so is the last one of a
\* block that is full.
LEMMA PlaceStep ==
  ASSUME BaseInv, Next, pc' \in {"block", "fill", "map"}
  PROVE  /\ Reached' <= pos'
         /\ pc' = "block" => Reached' = pos'
         /\ pc' \in {"fill", "map"} /\ filled' = Take' => from'[Len(from')] = pos'
<1>0. TypeOK /\ Control /\ History /\ Timing
  BY DEF BaseInv
<1>1. /\ done \in Nat /\ pos \in Nat /\ filled \in Nat /\ Take \in Nat /\ block \in Nat
      /\ n \in Nat /\ Len(from) \in Nat
  BY <1>0, Numbers
<1>2. UNCHANGED <<n, block>>
  BY CallFrame
<1>3. CASE Check
  <2>1. done' = 0 /\ pos' = 0 /\ pc' \notin {"fill", "map"}
    BY <1>0, <1>3 DEF Check, Control, Stop
  <2> QED BY <2>1 DEF Reached
<1>4. CASE BlockStart
  <2>1. /\ pc = "block" /\ done < n /\ pc' = "fill" /\ filled' = 0
        /\ UNCHANGED <<done, pos, from>>
    BY <1>4 DEF BlockStart
  <2>2. ~ Refused /\ entry = "staged"
    BY <1>0, <2>1 DEF Control
  <2>3. Take > 0 /\ Take' = Take
    BY <1>1, <1>2, <2>1, <2>2 DEF Refused, WorkspaceOK, Take
  <2>4. Reached' = Reached
    BY <2>1 DEF Reached
  <2> QED BY <1>0, <1>1, <2>1, <2>3, <2>4 DEF Timing
<1>5. CASE Fill
  <2>1. /\ pc = "fill" /\ pc' = "fill" /\ done' = done /\ filled < Take /\ pos < Len(raw)
        /\ pos' = pos + 1
        /\ \/ filled' = filled + 1 /\ from' = Append(from, pos + 1)
           \/ filled' = filled /\ from' = from
    BY <1>5, FillFacts
  <2>2. Take' = Take
    BY <1>2, <2>1 DEF Take
  <2>3. Len(from) = done + filled
    BY <1>0, <2>1 DEF History, Open
  <2>4. Reached' = Reached
    BY <1>1, <2>1, <2>3, FromGrows DEF Reached
  <2>5. Reached \in Nat /\ Reached <= pos
    BY <2>1, MarksOrdered
  <2>6. filled' = Take' => from'[Len(from')] = pos'
    BY <1>0, <1>1, <2>1, <2>2, FromType
  <2> QED BY <1>1, <2>1, <2>4, <2>5, <2>6
<1>6. CASE Filled
  <2>1. /\ pc = "fill" /\ pc' = "map" /\ filled = Take
        /\ UNCHANGED <<done, pos, from, filled>>
    BY <1>6 DEF Filled
  <2> QED BY <1>0, <2>1 DEF Timing, Reached
<1>7. CASE MapBlock
  <2>1. /\ pc = "map" /\ pc' = "block" /\ done' = done + Take /\ UNCHANGED <<pos, from>>
    BY <1>7 DEF MapBlock
  <2>2. filled = Take /\ done < n /\ ~ Refused /\ entry = "staged"
    BY <1>0, <2>1 DEF Control
  <2>3. Take > 0
    BY <1>1, <2>2 DEF Refused, WorkspaceOK, Take
  <2>4. Len(from) = done + Take
    BY <1>0, <2>1, <2>2 DEF History, Open
  <2>5. Reached' = from[Len(from)]
    BY <1>1, <2>1, <2>3, <2>4 DEF Reached
  <2>6. from[Len(from)] = pos
    BY <1>0, <2>1, <2>2 DEF Timing
  <2> QED BY <1>1, <2>1, <2>5, <2>6
<1>8. Check \/ BlockStart \/ Fill \/ Filled \/ MapBlock
  BY <1>0 DEF Next, Control, DrawWithoutOutput, DrawOne, Dry, Delivered, FillDry, Finish, Stop
<1> QED BY <1>3, <1>4, <1>5, <1>6, <1>7, <1>8

\* Where the clock stands after b blocks.
ClockAt(b) ==
  LET lap == marks.outer0 + tm.input + tm.mapping + MarkTicks * b IN
  /\ AfterBlocks(b) /\ (done < n => done = b * block)
  /\ tm.outer = 0
  /\ pc = "block" => clock = lap
  /\ pc \in {"fill", "map"} => marks.t0 = lap + MarkTicks
  /\ pc = "fill" => clock = marks.t0 + DrawTicks * (pos - Reached)
  /\ pc = "map" =>
       clock = marks.t1 /\ clock = marks.t0 + DrawTicks * (pos - Reached) + MarkTicks

LEMMA ClockStep ==
  ASSUME BaseInv, Next, pc' \in {"block", "fill", "map"}
  PROVE  \E b \in 0 .. done' : ClockAt(b)'
<1>0. TypeOK /\ Control /\ Timing
  BY DEF BaseInv
<1>1. /\ done \in Nat /\ pos \in Nat /\ clock \in Nat /\ Take \in Nat /\ block \in Nat
      /\ n \in Nat /\ done + Take <= n /\ Take <= block
      /\ MarkTicks \in Nat /\ DrawTicks \in Nat /\ SampleTicks \in Nat
      /\ marks \in [t0 : Nat, t1 : Nat, outer0 : Nat]
      /\ tm \in [input : Nat, mapping : Nat, outer : Nat]
  BY <1>0, Numbers, SamplerAssumption DEF TypeOK
<1>2. /\ marks.t0 \in Nat /\ marks.t1 \in Nat /\ marks.outer0 \in Nat
      /\ tm.input \in Nat /\ tm.mapping \in Nat /\ tm.outer \in Nat
  BY <1>1
<1>3. UNCHANGED <<n, block>>
  BY CallFrame
<1>4. CASE Check
  <2>1. /\ entry = "staged" /\ ~ Refused /\ pc' = "block" /\ done' = 0
        /\ tm' = [input |-> 0, mapping |-> 0, outer |-> 0]
        /\ clock' = StageMark /\ marks' = [marks EXCEPT !.outer0 = StageMark]
    BY <1>0, <1>4 DEF Check, Stop, Control
  <2>2. block > 0
    BY <1>1, <2>1 DEF Refused, WorkspaceOK
  <2>3. /\ tm'.input = 0 /\ tm'.mapping = 0 /\ tm'.outer = 0 /\ marks'.outer0 = clock'
        /\ StageMark \in Nat
    BY <1>1, <2>1 DEF StageMark
  <2>4. Reached' = 0
    BY <2>1 DEF Reached
  <2>5. /\ (0 - 1) * block' < done' /\ done' <= 0 * block' /\ done' = 0 * block'
        /\ tm'.input = DrawTicks * Reached' + MarkTicks * 0
        /\ tm'.mapping = SampleTicks * done' + MarkTicks * 0
    BY <1>1, <1>3, <2>1, <2>2, <2>3, <2>4
  <2>6. clock' = marks'.outer0 + tm'.input + tm'.mapping + MarkTicks * 0
    BY <1>1, <2>1, <2>3
  <2>7. ClockAt(0)'
    BY <2>1, <2>3, <2>5, <2>6 DEF ClockAt, AfterBlocks
  <2> QED BY <2>1, <2>7
<1>5. ASSUME pc \in {"block", "fill", "map"}
      PROVE  \E b \in 0 .. done' : ClockAt(b)'
  <2>1. PICK b \in 0 .. done : ClockAt(b)
    BY <1>0, <1>5 DEF Timing, ClockAt
  <2>2. Reached \in Nat /\ Reached <= pos
    BY <1>5, MarksOrdered
  <2>3. /\ b \in Nat /\ MarkTicks * b \in Nat /\ MarkTicks * (b + 1) = MarkTicks * b + MarkTicks
        /\ DrawTicks * (pos - Reached) \in Nat
    BY <1>1, <2>1, <2>2, Spans
  <2> DEFINE lap == marks.outer0 + tm.input + tm.mapping + MarkTicks * b
  <2>4. CASE BlockStart \/ Fill \/ Filled
    <3>1. Reached' = Reached /\ done' = done /\ tm' = tm /\ marks'.outer0 = marks.outer0
      <4>1. CASE BlockStart
        BY <1>1, <4>1 DEF BlockStart, Reached
      <4>2. CASE Filled
        BY <1>1, <4>2 DEF Filled, Reached
      <4>3. CASE Fill
        <5>1. Len(from) = done + filled /\ filled \in Nat
          BY <1>0, <4>3, Numbers DEF Fill, BaseInv, History, Open
        <5>2. Reached' = Reached
          BY <1>1, <4>3, <5>1, FillFacts, FromGrows DEF Reached
        <5> QED BY <4>3, <5>2 DEF Fill
      <4> QED BY <2>4, <4>1, <4>2, <4>3
    <3>2. AfterBlocks(b)' /\ (done' < n' => done' = b * block') /\ tm'.outer = 0
      BY <1>3, <2>1, <3>1 DEF ClockAt, AfterBlocks
    <3>3. marks'.outer0 + tm'.input + tm'.mapping + MarkTicks * b = lap
      BY <3>1
    <3> DEFINE D == DrawTicks * (pos - Reached)
    <3>4. lap \in Nat
      BY <1>2, <2>3
    <3>5. CASE BlockStart
      <4>1. /\ pc = "block" /\ pc' = "fill" /\ clock' = clock + MarkTicks
            /\ marks'.t0 = clock + MarkTicks /\ pos' = pos
        BY <1>1, <3>5 DEF BlockStart, StageMark
      <4>2. clock = lap /\ Reached = pos
        BY <1>0, <2>1, <4>1 DEF ClockAt, Timing
      <4>3. DrawTicks * (pos' - Reached') = 0
        BY <1>1, <3>1, <4>1, <4>2
      <4>4. ClockAt(b)'
        <5> HIDE DEF lap
        <5>1. marks'.t0 = lap + MarkTicks /\ clock' = marks'.t0 + DrawTicks * (pos' - Reached')
          BY <1>1, <3>4, <4>1, <4>2, <4>3
        <5> QED BY <3>2, <3>3, <4>1, <5>1 DEF ClockAt
      <4> QED BY <2>1, <3>1, <4>4
    <3>6. CASE Fill
      <4>1. /\ pc = "fill" /\ pc' = "fill" /\ clock' = clock + DrawTicks /\ marks' = marks
            /\ pos' = pos + 1
        BY <3>6 DEF Fill
      <4>2. marks.t0 = lap + MarkTicks /\ clock = marks.t0 + D
        BY <2>1, <4>1 DEF ClockAt
      <4>3. DrawTicks * (pos' - Reached') = D + DrawTicks
        <5>1. pos - Reached \in Nat /\ pos' - Reached' = (pos - Reached) + 1
          BY <1>1, <2>2, <3>1, <4>1
        <5> QED BY <1>1, <5>1, Spans
      <4>4. clock' = marks'.t0 + DrawTicks * (pos' - Reached')
        BY <1>1, <1>2, <2>3, <4>1, <4>2, <4>3
      <4>5. ClockAt(b)'
        <5> HIDE DEF lap
        <5> QED BY <3>2, <3>3, <4>1, <4>2, <4>4 DEF ClockAt
      <4> QED BY <2>1, <3>1, <4>5
    <3>7. CASE Filled
      <4>1. /\ pc = "fill" /\ pc' = "map" /\ clock' = clock + MarkTicks /\ pos' = pos
            /\ marks'.t1 = clock' /\ marks'.t0 = marks.t0
        BY <1>1, <3>7 DEF Filled, StageMark
      <4>2. marks.t0 = lap + MarkTicks /\ clock = marks.t0 + D
        BY <2>1, <4>1 DEF ClockAt
      <4>3. DrawTicks * (pos' - Reached') = D
        BY <3>1, <4>1
      <4>4. ClockAt(b)'
        <5> HIDE DEF lap, D
        <5>1. clock' = marks'.t0 + DrawTicks * (pos' - Reached') + MarkTicks
          BY <4>1, <4>2, <4>3
        <5> QED BY <3>2, <3>3, <4>1, <4>2, <5>1 DEF ClockAt
      <4> QED BY <2>1, <3>1, <4>4
    <3> QED BY <2>4, <3>5, <3>6, <3>7
  <2>5. CASE MapBlock
    <3> DEFINE D == DrawTicks * (pos - Reached)
               S == SampleTicks * Take
    <3>1. /\ pc = "map" /\ pc' = "block" /\ done' = done + Take /\ marks' = marks
          /\ clock' = clock + MarkTicks + S
          /\ tm'.input = tm.input + (marks.t1 - marks.t0)
          /\ tm'.mapping = tm.mapping + (clock' - marks.t1) /\ tm'.outer = tm.outer
      BY <1>1, <2>5 DEF MapBlock, StageMark
    <3>2. done < n /\ ~ Refused /\ entry = "staged"
      BY <1>0, <3>1 DEF Control
    <3>3. Take > 0 /\ (done + Take < n => Take = block)
      BY <1>1, <3>2 DEF Refused, WorkspaceOK, Take
    <3>4. /\ done = b * block /\ tm.outer = 0
          /\ tm.input = DrawTicks * Reached + MarkTicks * b
          /\ tm.mapping = SampleTicks * done + MarkTicks * b
          /\ marks.t0 = lap + MarkTicks
          /\ clock = marks.t1 /\ clock = marks.t0 + D + MarkTicks
      BY <2>1, <3>1, <3>2 DEF ClockAt, AfterBlocks
    <3>5. S \in Nat /\ D \in Nat /\ lap \in Nat
      BY <1>1, <1>2, <2>3, Spans
    <3>6. Reached' = pos
      BY <3>1, PlaceStep, <2>5 DEF MapBlock
    <3>7. /\ tm'.input = tm.input + D + MarkTicks
          /\ tm'.mapping = tm.mapping + MarkTicks + S
      <4> HIDE DEF D, S, lap
      <4> QED BY <1>1, <1>2, <3>1, <3>4, <3>5
    <3>8. tm'.input = DrawTicks * Reached' + MarkTicks * (b + 1)
      <4>1. D = DrawTicks * pos - DrawTicks * Reached /\ DrawTicks * pos \in Nat
            /\ DrawTicks * Reached \in Nat
        BY <1>1, <2>2, Spans
      <4> HIDE DEF D
      <4> QED BY <1>1, <2>3, <3>4, <3>6, <3>7, <4>1
    <3>9. tm'.mapping = SampleTicks * done' + MarkTicks * (b + 1)
      <4>1. SampleTicks * (done + Take) = SampleTicks * done + S /\ SampleTicks * done \in Nat
        BY <1>1, Spans
      <4> HIDE DEF S
      <4> QED BY <1>1, <2>3, <3>1, <3>4, <3>5, <3>7, <4>1
    <3>10. clock' = marks'.outer0 + tm'.input + tm'.mapping + MarkTicks * (b + 1)
      <4>1. clock' = marks.t0 + D + MarkTicks + MarkTicks + S
        <5> HIDE DEF D, S, lap
        <5> QED BY <3>1, <3>4
      <4>2. marks.t0 = marks.outer0 + tm.input + tm.mapping + MarkTicks * b + MarkTicks
        BY <3>4
      <4> HIDE DEF D, S, lap
      <4> QED BY <1>1, <1>2, <2>3, <3>1, <3>5, <3>7, <4>1, <4>2
    <3>11. /\ ((b + 1) - 1) * block' < done' /\ done' <= (b + 1) * block'
           /\ (done' < n' => done' = (b + 1) * block')
      <4>1. (b + 1) - 1 = b /\ (b + 1) * block = done + block
        BY <1>1, <2>3, <3>4
      <4> QED BY <1>1, <1>3, <3>1, <3>3, <3>4, <4>1
    <3>12. ClockAt(b + 1)'
      BY <3>1, <3>4, <3>8, <3>9, <3>10, <3>11 DEF ClockAt, AfterBlocks
    <3>13. b + 1 \in 0 .. done'
      BY <1>1, <2>1, <3>1, <3>3
    <3> QED BY <3>12, <3>13
  <2>6. BlockStart \/ Fill \/ Filled \/ MapBlock
    BY <1>5 DEF Next, Check, DrawWithoutOutput, DrawOne, Dry, Delivered, FillDry, Finish, Stop
  <2> QED BY <2>4, <2>5, <2>6
<1>6. Check \/ pc \in {"block", "fill", "map"}
  BY DEF Next, DrawWithoutOutput, DrawOne, Dry, Delivered,
       BlockStart, Fill, FillDry, Filled, MapBlock, Finish, Stop
<1> QED BY <1>4, <1>5, <1>6

LEMMA TimingStep == BaseInv /\ Next => Timing'
BY PlaceStep, ClockStep DEF Timing, ClockAt

LEMMA BaseStep == BaseInv /\ [Next]_vars => BaseInv'
<1>1. BaseInv /\ Next => BaseInv'
  BY TypeStep, ControlStep, HistoryStep, TimingStep DEF BaseInv
<1>2. ASSUME BaseInv, UNCHANGED vars PROVE BaseInv'
  <2>1. TypeOK'
    BY <1>2 DEF BaseInv, vars, call, time, TypeOK
  <2>2. Refused' = Refused /\ Take' = Take /\ Open' = Open
    BY <1>2, CallOperators DEF vars, call, Take, Open
  <2>3. UNCHANGED <<kind, entry, n, capacity, done, pos, filled, from, clock, attempts, pc, rc>>
    BY <1>2 DEF vars, call, time
  <2>5. Control'
    BY <1>2, <2>2, <2>3 DEF BaseInv, Control
  <2>6. History'
    BY <1>2, <2>2, <2>3 DEF BaseInv, History
  <2>4. Timing'
    <3>1. Reached' = Reached /\ \A b \in 0 .. done : ClockAt(b) => ClockAt(b)'
      BY <1>2, <2>3 DEF vars, call, time, Reached, ClockAt, AfterBlocks
    <3>2. BaseInv /\ UNCHANGED tm /\ UNCHANGED marks
      BY <1>2 DEF vars, time
    <3> QED BY <2>2, <2>3, <3>1, <3>2 DEF BaseInv, Timing, ClockAt
  <2> QED BY <2>1, <2>4, <2>5, <2>6 DEF BaseInv
<1> QED BY <1>1, <1>2

-----------------------------------------------------------------------------
(* Counters *)

Rejected == IF kind = "original" THEN 0 ELSE pos - Len(from)

\* One more draw counted.
LEMMA CountedSpent ==
  ASSUME BaseInv, DrawOne \/ DrawWithoutOutput, entry \in {"one", "n"}, wantStats, st = Spent
  PROVE  st' = Spent'
<1>0. TypeOK /\ History
  BY DEF BaseInv
<1>1. /\ pos \in Nat /\ Len(from) \in Nat /\ Len(from) <= pos
      /\ kind = "original" => Len(from) = pos
  BY <1>0, Numbers DEF History
<1>2. /\ Rejected \in Nat
      /\ st.attempts = pos /\ st.rejections = Rejected
  <2>1. Rejected \in Nat
    BY <1>1 DEF Rejected
  <2>2. st = StatsRecord(pos, Rejected)
    BY DEF Spent, Rejected
  <2> QED BY <1>1, <2>1, <2>2, StatsType
<1>3. kind' = kind
  BY CallFrame DEF Next
<1>4. pos < Len(raw) /\ Len(Append(from, pos + 1)) = Len(from) + 1
  <2>1. pos < Len(raw)
    BY <1>0, DrawOneFacts, HasDrawExact DEF DrawWithoutOutput
  <2> QED BY <1>0, <2>1, FromType
<1>5. Spent' = StatsRecord(pos', Rejected')
  BY DEF Spent, Rejected
<1>6. /\ Counted(TRUE) = StatsRecord(st.attempts + 1, st.rejections + 0)
      /\ Counted(FALSE) = StatsRecord(st.attempts + 1, st.rejections + 1)
  BY DEF Counted
<1>7. \E r \in {0, 1} : /\ pos' = pos + 1 /\ Rejected' = Rejected + r
                        /\ st' = StatsRecord(st.attempts + 1, st.rejections + r)
  <2>1. CASE DrawWithoutOutput
    <3>1. pos' = pos + 1 /\ from' = Append(from, pos + 1) /\ st' = Counted(TRUE)
      BY <2>1 DEF DrawWithoutOutput
    <3>2. Rejected' = Rejected + 0
      BY <1>1, <1>3, <1>4, <3>1 DEF Rejected
    <3> QED BY <1>6, <3>1, <3>2
  <2>2. CASE DrawOne
    <3> DEFINE keep == Keeps(FromLe9(raw[pos + 1]))
    <3>1. /\ pos' = pos + 1 /\ st' = Counted(keep)
          /\ \/ keep /\ from' = Append(from, pos + 1)
             \/ ~ keep /\ kind # "original" /\ from' = from
      BY <2>2, DrawOneFacts
    <3>2. keep \in BOOLEAN
      BY DEF Keeps
    <3> HIDE DEF keep
    <3>3. CASE keep = TRUE
      <4>1. Rejected' = Rejected + 0
        BY <1>1, <1>3, <1>4, <3>1, <3>3 DEF Rejected
      <4> QED BY <1>6, <3>1, <3>3, <4>1
    <3>4. CASE keep = FALSE
      <4>1. Rejected' = Rejected + 1
        BY <1>1, <1>3, <1>4, <3>1, <3>4 DEF Rejected
      <4> QED BY <1>6, <3>1, <3>4, <4>1
    <3> QED BY <3>2, <3>3, <3>4
  <2> QED BY <2>1, <2>2
<1> QED BY <1>2, <1>5, <1>7

LEMMA CountingStep == BaseInv /\ Counting /\ Next => Counting'
<1> SUFFICES ASSUME BaseInv, Counting, Next, pc' # "done" PROVE Counting'
  BY DEF Counting
<1>0. TypeOK /\ Control
  BY DEF BaseInv
<1>1. UNCHANGED <<kind, entry, wantStats>>
  BY CallFrame
<1>3. attempts' = attempts /\ pc # "done" /\ pc' # "check"
  <2>1. pc # "done"
    BY DEF Next, Check, DrawWithoutOutput, DrawOne, Dry, Delivered,
         BlockStart, Fill, FillDry, Filled, MapBlock, Finish
  <2>2. pc' # "check"
    BY <1>0 DEF Next, Check, Stop, DrawWithoutOutput, DrawOne, Dry, Delivered,
         BlockStart, Fill, FillDry, Filled, MapBlock, Finish
  <2>3. attempts' = attempts
    BY DEF Next, Check, Stop, DrawWithoutOutput, DrawOne, Dry, Delivered,
         BlockStart, Fill, FillDry, Filled, MapBlock, Finish
  <2> QED BY <2>1, <2>2, <2>3
<1>4. attempts' = Stale
  BY <1>3 DEF Counting
<1>5. CASE Check
  <2>1. pc = "check" /\ pos = 0 /\ from = <<>> /\ UNCHANGED <<pos, from>>
    BY <1>0, <1>5 DEF Check, Control
  <2>2. Spent' = ZeroStats /\ Spent = ZeroStats
    BY <1>1, <2>1 DEF Spent, ZeroStats
  <2>3. st' = IF wantStats /\ entry \in {"n", "staged"} THEN ZeroStats ELSE st
    BY <1>5 DEF Check, Stop
  <2>4. /\ entry = "one" => st = IF wantStats THEN Spent ELSE ZeroStats
        /\ entry # "one" => st = StaleStats
    BY <1>0, <2>1 DEF Counting, TypeOK, Streams
  <2> QED BY <1>1, <1>3, <1>4, <2>2, <2>3, <2>4 DEF Counting
<1>6. CASE DrawWithoutOutput \/ Dry \/ Delivered \/ FillDry \/ Finish
  BY <1>6 DEF DrawWithoutOutput, Dry, Delivered, FillDry, Finish, Stop
<1>7. CASE DrawOne
  <2>1. pc = "draw" /\ entry # "staged"
    BY <1>0, <1>7 DEF DrawOne, Control
  <2>2. CASE entry \in {"one", "n"} /\ wantStats
    <3>1. st = Spent
      BY <2>1, <2>2 DEF Counting
    <3>2. st' = Spent'
      BY <1>7, <2>2, <3>1, CountedSpent
    <3> QED BY <1>1, <1>3, <1>4, <2>2, <3>2 DEF Counting
  <2>3. CASE ~ (entry \in {"one", "n"} /\ wantStats)
    <3>1. st' = st
      BY <1>7, <2>3, DrawOneFacts DEF Counted
    <3> QED BY <1>1, <1>3, <1>4, <2>1, <2>3, <3>1 DEF Counting
  <2> QED BY <2>2, <2>3
<1>8. CASE BlockStart \/ Fill \/ Filled \/ MapBlock
  <2>1. pc # "check" /\ entry = "staged" /\ st' = st
    BY <1>0, <1>8 DEF BlockStart, Fill, Filled, MapBlock, Control
  <2> QED BY <1>1, <1>3, <1>4, <2>1 DEF Counting
<1> QED BY <1>5, <1>6, <1>7, <1>8 DEF Next

\* The original buffer kinds are refused unless the source is long enough, so
\* they never run dry.
LEMMA OriginalNeverDry ==
  ASSUME BaseInv, Dry, kind = "original"
  PROVE  entry \notin {"le9", "audit", "prepare"}
<1>0. TypeOK /\ Control /\ History
  BY DEF BaseInv
<1>1. pc = "draw" /\ done < n /\ ~ HasDraw /\ ~ Refused
  BY <1>0 DEF Dry, Control
<1>2. /\ pos \in Nat /\ Len(raw) \in Nat /\ pos <= Len(raw) /\ done \in Nat /\ n \in Nat
      /\ DrawBytes \in Nat \ {0} /\ extra \in 0 .. DrawBytes - 1
  BY <1>0, Numbers DEF TypeOK
<1>3. pos = Len(raw)
  BY <1>0, <1>1, <1>2, HasDrawExact
<1>4. Len(from) = done /\ Len(from) = pos
  BY <1>0, <1>1, <1>2 DEF History, Open
<1>5. RawLen \div DrawBytes = Len(raw)
  <2> DEFINE D == DrawBytes
             P == Len(raw)
             e == extra
  <2>1. D \in Nat \ {0} /\ P \in Nat /\ e \in 0 .. D - 1
    BY <1>2
  <2> HIDE DEF D, P, e
  <2>2. (D * P + e) \div D = P
    BY <2>1, DivUnique
  <2> QED BY <2>2 DEF RawLen, D, P, e
<1>6. RawLen \div DrawBytes < n
  BY <1>1, <1>3, <1>4, <1>5
<1> QED BY <1>1, <1>6 DEF Refused

\* Only the original single sampler gets past its checks without an output.
LEMMA WithoutOutput ==
  ASSUME BaseInv, DrawWithoutOutput
  PROVE  entry = "one" /\ kind # "sda"
<1>0. TypeOK /\ Control
  BY DEF BaseInv
<1>1. done < n /\ ~ haveOut /\ ~ Refused /\ entry # "staged"
  BY <1>0 DEF DrawWithoutOutput, Control
<1>2. done \in Nat /\ n \in Nat
  BY <1>0, Numbers
<1>3. n > 0
  BY <1>1, <1>2
<1>4. entry \in {"one", "n", "le9", "audit", "prepare", "staged"}
  BY <1>0 DEF TypeOK, Streams
<1> QED BY <1>1, <1>3, <1>4 DEF Refused

\* Every way a call ends leaves the counters CountersExact states.
LEMMA CountersStep == BaseInv /\ Counting /\ Next => CountersExact'
<1> DEFINE reports == entry = "le9" \/ (kind = "sda" /\ entry \in {"audit", "prepare"})
           counters == CASE entry = "one" -> IF wantStats THEN Spent' ELSE ZeroStats
                         [] entry = "n" /\ wantStats /\ ~ Refused -> Spent'
                         [] entry = "staged" /\ wantStats /\ rc' = 0 -> Spent'
                         [] entry = "staged" /\ wantStats /\ rc' = -2 -> ZeroStats
                         [] OTHER -> StaleStats
<1> SUFFICES ASSUME BaseInv, Counting, Next, pc' = "done"
               PROVE  /\ st' = counters
                      /\ attempts' = IF reports /\ wantStats /\ ~ Refused THEN pos' ELSE Stale
                      /\ DrawBytes * pos' <= RawLen
  <2>1. ASSUME BaseInv, Next
        PROVE  /\ UNCHANGED <<kind, entry, wantStats, DrawBytes>>
               /\ Refused' = Refused /\ RawLen' = RawLen
    BY <2>1, CallFrame, CallOperators
  <2> QED BY <2>1 DEF CountersExact, ZeroStats, StaleStats, Stale, StatsRecord
<1>1. TypeOK /\ Control /\ History
  BY DEF BaseInv
<1>2. pc # "done"
  BY DEF Next, Check, DrawWithoutOutput, DrawOne, Dry, Delivered,
       BlockStart, Fill, FillDry, Filled, MapBlock, Finish
<1>3. attempts = Stale
  BY <1>2 DEF Counting
<1>4. DrawBytes * pos <= RawLen
  BY <1>1, HasDrawExact
<1>5. /\ entry = "one" => counters = IF wantStats THEN Spent' ELSE ZeroStats
      /\ entry = "n" => counters = IF wantStats /\ ~ Refused THEN Spent' ELSE StaleStats
      /\ entry = "staged" /\ (~ wantStats \/ rc' = -1) => counters = StaleStats
      /\ entry = "staged" /\ wantStats /\ rc' = 0 => counters = Spent'
      /\ entry = "staged" /\ wantStats /\ rc' = -2 => counters = ZeroStats
      /\ entry \notin {"one", "n", "staged"} => counters = StaleStats
  OBVIOUS
<1>6. UNCHANGED kind /\ entry \in {"one", "n", "le9", "audit", "prepare", "staged"}
  BY <1>1, CallFrame DEF TypeOK, Streams
<1> HIDE DEF counters
<1>7. CASE Check
  <2>1. /\ pc = "check" /\ Refused /\ UNCHANGED <<st, pos, from, attempts>>
        /\ entry = "staged" => rc' = -1
    BY <1>7 DEF Check, Stop
  <2>2. Spent' = Spent
    BY <1>6, <2>1 DEF Spent
  <2>3. st' = counters
    BY <1>2, <1>5, <1>6, <2>1, <2>2 DEF Counting
  <2> QED BY <1>3, <1>4, <2>1, <2>3
<1>8. CASE DrawWithoutOutput
  <2>1. pc = "draw" /\ done < n /\ ~ haveOut /\ ~ Refused /\ entry # "staged"
    BY <1>1, <1>8 DEF DrawWithoutOutput, Control
  <2>2. entry = "one" /\ kind # "sda"
    BY <1>8, WithoutOutput
  <2>3. st' = counters
    <3>1. CASE wantStats
      <4>1. st = Spent
        BY <1>2, <2>2, <3>1 DEF Counting
      <4> QED BY <1>5, <1>8, <2>2, <3>1, <4>1, CountedSpent
    <3>2. CASE ~ wantStats
      <4>1. st = ZeroStats /\ st' = st
        BY <1>2, <1>8, <2>2, <3>2 DEF Counting, DrawWithoutOutput, Counted
      <4> QED BY <1>5, <2>2, <3>2, <4>1
    <3> QED BY <3>1, <3>2
  <2>4. attempts' = Stale
    BY <1>3, <1>8 DEF DrawWithoutOutput
  <2>5. DrawBytes * pos' <= RawLen
    BY <1>8 DEF DrawWithoutOutput, HasDraw
  <2> QED BY <2>2, <2>3, <2>4, <2>5
<1>9. CASE Dry \/ Delivered
  <2>1. /\ pc = "draw" /\ ~ Refused /\ entry # "staged"
        /\ UNCHANGED <<st, pos, from, done>> /\ attempts' = AttemptsReported
    BY <1>1, <1>9 DEF Dry, Delivered, Control
  <2>2. Spent' = Spent
    BY <1>6, <2>1 DEF Spent
  <2>3. st' = counters
    BY <1>2, <1>5, <1>6, <2>1, <2>2 DEF Counting
  <2>4. kind = "original" /\ entry = "le9" => pos = n
    <3>1. CASE Dry
      BY <3>1, OriginalNeverDry
    <3>2. CASE Delivered /\ kind = "original"
      <4>1. done = n
        BY <1>1, <3>2, Numbers DEF Delivered
      <4>2. Len(from) = done /\ Len(from) = pos
        BY <1>1, <2>1, <3>2, Numbers DEF History, Open
      <4> QED BY <4>1, <4>2
    <3> QED BY <1>9, <3>1, <3>2
  <2>5. kind \in {"original", "sda"}
    BY <1>1 DEF TypeOK
  <2>6. attempts' = IF reports /\ wantStats /\ ~ Refused THEN pos' ELSE Stale
    BY <1>3, <1>6, <2>1, <2>4, <2>5 DEF AttemptsReported
  <2> QED BY <1>4, <2>1, <2>3, <2>6
<1>10. CASE FillDry
  <2>1. pc = "fill" /\ entry = "staged" /\ rc' = -2 /\ UNCHANGED <<st, pos, attempts>>
    BY <1>1, <1>10 DEF FillDry, Stop, Control
  <2>2. st' = counters
    BY <1>2, <1>5, <2>1 DEF Counting
  <2> QED BY <1>3, <1>4, <2>1, <2>2
<1>11. CASE Finish
  <2>1. /\ done = n /\ Len(from) = n /\ entry = "staged"
        /\ kind = "original" => pos = n
    BY <1>11, FinishFacts
  <2>2. pc = "block" /\ rc' = 0 /\ UNCHANGED <<pos, from, attempts>>
    BY <1>11 DEF Finish, Stop
  <2>3. kind \in {"original", "sda"} /\ n - n = 0
    BY <1>1, Numbers DEF TypeOK
  <2>4. Spent' = IF kind = "sda" THEN StatsRecord(pos, pos - n) ELSE StatsRecord(n, 0)
    BY <1>6, <2>1, <2>2, <2>3 DEF Spent
  <2>5. st' = IF ~ wantStats THEN st ELSE Spent'
    BY <1>11, <2>4 DEF Finish
  <2>6. ~ wantStats => st = StaleStats
    BY <1>2, <2>1 DEF Counting
  <2>7. st' = counters
    BY <1>5, <2>1, <2>2, <2>5, <2>6
  <2> QED BY <1>3, <1>4, <2>1, <2>2, <2>7
<1>12. CASE DrawOne \/ BlockStart \/ Fill \/ Filled \/ MapBlock
  BY <1>2, <1>12 DEF DrawOne, BlockStart, Fill, Filled, MapBlock
<1> QED BY <1>7, <1>8, <1>9, <1>10, <1>11, <1>12 DEF Next

\* So does every way a staged call ends with the timing.
LEMMA AttributionStep == BaseInv /\ Next => TimingAttributed'
<1> SUFFICES ASSUME BaseInv, Next, entry = "staged", pc' = "done", rc' # -1
             PROVE  \E b \in 0 .. n :
                      /\ AfterBlocks(b)'
                      /\ tm'.outer = IF rc' = 0
                                     THEN tm'.input + tm'.mapping + MarkTicks * (b + 1) ELSE 0
  BY CallFrame DEF TimingAttributed
<1>1. TypeOK /\ Control /\ Timing
  BY DEF BaseInv
<1>2. /\ tm \in [input : Nat, mapping : Nat, outer : Nat] /\ clock \in Nat
      /\ marks.outer0 \in Nat /\ MarkTicks \in Nat /\ done \in Nat /\ n \in Nat /\ done <= n
  BY <1>1, Numbers, SamplerAssumption DEF TypeOK
<1>3. Finish \/ FillDry
  BY <1>1 DEF Next, Check, Stop, DrawWithoutOutput, DrawOne, Dry, Delivered,
       BlockStart, Fill, Filled, MapBlock, Control
<1>4. PICK b \in 0 .. done : ClockAt(b)
  <2>1. pc \in {"block", "fill", "map"}
    BY <1>3 DEF Finish, FillDry
  <2> QED BY <1>1, <2>1 DEF Timing, ClockAt
<1>5. b \in 0 .. n /\ b \in Nat /\ MarkTicks * b \in Nat
      /\ MarkTicks * (b + 1) = MarkTicks * b + MarkTicks
  BY <1>2, <1>4, Spans
<1>6. /\ tm'.input = tm.input /\ tm'.mapping = tm.mapping /\ UNCHANGED <<done, from, block>>
  BY <1>2, <1>3, CallFrame DEF Finish, FillDry, time
<1>7. AfterBlocks(b)'
  BY <1>4, <1>6 DEF ClockAt, AfterBlocks, Reached
<1>8. CASE Finish
  <2>1. /\ pc = "block" /\ rc' = 0 /\ tm'.outer = (clock + MarkTicks) - marks.outer0
    BY <1>2, <1>8 DEF Finish, Stop, StageMark
  <2>2. clock = marks.outer0 + tm.input + tm.mapping + MarkTicks * b
    BY <1>4, <2>1 DEF ClockAt
  <2>3. tm'.outer = tm'.input + tm'.mapping + MarkTicks * (b + 1)
    BY <1>2, <1>5, <1>6, <2>1, <2>2
  <2> QED BY <1>5, <1>7, <2>1, <2>3
<1>9. CASE FillDry
  <2>1. rc' = -2 /\ tm' = tm /\ tm.outer = 0
    BY <1>4, <1>9 DEF FillDry, Stop, time, ClockAt
  <2> QED BY <1>5, <1>7, <2>1
<1> QED BY <1>3, <1>8, <1>9

-----------------------------------------------------------------------------
(* Samples and workspace *)

LEMMA DrawsAt ==
  ASSUME NEW k \in 1 .. Len(raw)
  PROVE  Draws[k] = [kind |-> kind, reflected |-> Reflected, draw |-> raw[k]]
BY DEF Draws

\* While a call runs, the history covers the samples and the open slots.
LEMMA HistoryCovers ==
  ASSUME BaseInv, pc # "done"
  PROVE  /\ Open \in Nat /\ Len(from) = done + Open
         /\ \A i \in 1 .. Len(from) : from[i] \in 1 .. Len(raw)
<1>0. TypeOK /\ History
  BY DEF BaseInv
<1>1. Open \in Nat
  BY <1>0, Numbers DEF Open
<1>2. Len(from) = done + Open
  BY <1>0 DEF History
<1>3. from \in Seq(1 .. Len(raw))
  BY <1>0 DEF TypeOK
<1>4. \A i \in 1 .. Len(from) : from[i] \in 1 .. Len(raw)
  <2> DEFINE S == 1 .. Len(raw)
  <2>1. from \in Seq(S)
    BY <1>3
  <2> HIDE DEF S
  <2>2. \A i \in 1 .. Len(from) : from[i] \in S
    BY <2>1
  <2> QED BY <2>2 DEF S
<1> QED BY <1>1, <1>2, <1>4

LEMMA NotDone == Next => pc # "done"
BY DEF Next, Check, DrawWithoutOutput, DrawOne, Dry, Delivered,
       BlockStart, Fill, FillDry, Filled, MapBlock, Finish

\* A sample that a step leaves alone keeps its draw.
LEMMA StoredKept ==
  ASSUME BaseInv, StoredExact, Next, NEW i \in 1 .. done, i \in 1 .. done',
         IF entry = "prepare" THEN cells'[i] = cells[i] ELSE out'[i] = out[i]
  PROVE  Stored'[i] = ImageDraw(Draws'[from'[i]])
<1>1. UNCHANGED entry /\ Table' = Table /\ Draws' = Draws
  BY CallFrame, CallOperators
<1>2. Stored'[i] = Stored[i]
  BY <1>1 DEF Stored
<1>3. i \in 1 .. Len(from)
  <2>1. done \in Nat /\ pc # "done"
    BY NotDone, Numbers DEF BaseInv
  <2> QED BY <2>1, HistoryCovers
<1>4. from'[i] = from[i]
  BY <1>3, FromGrows
<1>5. Stored[i] = ImageDraw(Draws[from[i]])
  BY DEF StoredExact
<1> QED BY <1>1, <1>2, <1>4, <1>5

LEMMA StoredStep == BaseInv /\ StoredExact /\ SlotsFresh /\ Next => StoredExact'
<1> SUFFICES ASSUME BaseInv, StoredExact, SlotsFresh, Next, NEW i \in 1 .. done'
             PROVE  Stored'[i] = ImageDraw(Draws'[from'[i]])
  BY DEF StoredExact
<1>0. TypeOK /\ Control
  BY DEF BaseInv
<1>1. UNCHANGED <<kind, entry, raw>> /\ Table' = Table /\ Draws' = Draws /\ Reflected' = Reflected
  BY CallFrame, CallOperators
<1>2. /\ done \in Nat /\ n \in Nat /\ MaxN \in Nat /\ done <= n /\ n <= MaxN
      /\ pos \in Nat /\ Len(raw) \in Nat /\ Len(from) \in Nat /\ Take \in Nat
      /\ block \in Nat /\ capacity \in Nat
      /\ out \in [1 .. MaxN + 1 -> Nat] /\ cells \in [1 .. capacity -> Limbs]
  BY <1>0, Numbers DEF TypeOK
<1>3. Len(from) = done + Open /\ \A k \in 1 .. Len(from) : from[k] \in 1 .. Len(raw)
  BY NotDone, HistoryCovers
<1>4. CASE DrawOne
  <2> DEFINE d == raw[pos + 1]
             w == FromLe9(d)
  <2>1. /\ pc = "draw" /\ done < n /\ pos < Len(raw) /\ d \in Draw
        /\ out' = IF Keeps(w) /\ entry # "prepare"
                  THEN [out EXCEPT ![done + 1] = Lookup(Oriented(w), Table)] ELSE out
        /\ cells' = IF Keeps(w) /\ entry = "prepare"
                    THEN [cells EXCEPT ![done + 1] = Oriented(w)] ELSE cells
        /\ \/ Keeps(w) /\ done' = done + 1 /\ from' = Append(from, pos + 1)
           \/ done' = done
    BY <1>4, DrawOneFacts
  <2>2. CASE i \in 1 .. done
    <3>1. i # done + 1 /\ i \in 1 .. MaxN + 1
      BY <1>2, <2>2
    <3>2. out'[i] = out[i] /\ cells'[i] = cells[i]
      <4>1. out'[i] = out[i]
        BY <1>2, <2>1, <3>1
      <4>2. cells'[i] = cells[i]
        <5>1. entry # "staged" => i \in 1 .. capacity
          BY <1>0, <1>2, <2>2 DEF Control
        <5>2. entry # "staged"
          BY <1>0, <2>1 DEF Control
        <5> QED BY <1>2, <2>1, <3>1, <5>1, <5>2
      <4> QED BY <4>1, <4>2
    <3> QED BY <2>2, <3>2, StoredKept
  <2>3. CASE i \notin 1 .. done
    <3>1. i = done + 1 /\ Keeps(w) /\ from' = Append(from, pos + 1) /\ done' = done + 1
      BY <1>2, <2>1, <2>3
    <3>2. Len(from) = done
      BY <1>2, <1>3, <2>1 DEF Open
    <3>3. from'[i] = pos + 1
      BY <1>0, <2>1, <3>1, <3>2, FromType
    <3>4. Draws'[pos + 1] = [kind |-> kind, reflected |-> Reflected, draw |-> d]
      <4>1. pos + 1 \in 1 .. Len(raw)
        BY <1>2, <2>1
      <4> QED BY <1>1, <4>1, DrawsAt
    <3>5. Lookup(Oriented(w), Table)
            = ImageDraw([kind |-> kind, reflected |-> Reflected, draw |-> d])
      BY <2>1, <3>1, KeptDraw
    <3>6. Stored'[i] = Lookup(Oriented(w), Table)
      <4>1. CASE entry = "prepare"
        <5>1. i \in 1 .. capacity
          BY <1>0, <1>2, <2>1, <3>1, <4>1 DEF Control
        <5>2. cells'[i] = Oriented(w)
          BY <1>2, <2>1, <3>1, <4>1, <5>1
        <5> QED BY <1>1, <4>1, <5>2 DEF Stored
      <4>2. CASE entry # "prepare"
        <5>1. i \in 1 .. MaxN + 1
          BY <1>2, <2>1, <3>1
        <5>2. out'[i] = Lookup(Oriented(w), Table)
          BY <1>2, <2>1, <3>1, <4>2, <5>1
        <5> QED BY <1>1, <4>2, <5>2 DEF Stored
      <4> QED BY <4>1, <4>2
    <3> QED BY <3>3, <3>4, <3>5, <3>6
  <2> QED BY <2>2, <2>3
<1>5. CASE MapBlock
  <2>1. /\ pc = "map" /\ done' = done + Take
        /\ out' = [j \in DOMAIN out |-> IF j \in done + 1 .. done + Take
                                        THEN Lookup(cells[j - done], Table) ELSE out[j]]
    BY <1>5 DEF MapBlock
  <2>2. entry = "staged" /\ ~ Refused /\ Open = Take
    BY <1>0, <2>1 DEF Control, Open
  <2>3. i \in 1 .. MaxN + 1 /\ i <= n
    BY <1>0, <1>2, <2>1, Numbers
  <2>4. CASE i \in 1 .. done
    <3>1. out'[i] = out[i]
      BY <1>2, <2>1, <2>3, <2>4
    <3> QED BY <2>2, <2>4, <3>1, StoredKept
  <2>5. CASE i \notin 1 .. done
    <3> DEFINE j == i - done
    <3>1. i \in done + 1 .. done + Take /\ j \in 1 .. Take /\ done + j = i
      BY <1>2, <2>1, <2>5
    <3>2. out'[i] = Lookup(cells[j], Table)
      BY <1>2, <2>1, <2>3, <3>1
    <3>3. Value(cells[j]) = raw[from[i]]
      <4>1. Value(cells[j]) = raw[from[done + j]]
        BY <2>2, <3>1 DEF SlotsFresh
      <4> QED BY <3>1, <4>1
    <3>4. cells[j] \in Limbs
      <4>1. block <= capacity
        BY <1>2, <2>2 DEF Refused, WorkspaceOK
      <4>2. Take <= block
        BY <1>0, Numbers
      <4>3. j \in 1 .. capacity
        BY <1>2, <3>1, <4>1, <4>2
      <4> QED BY <1>2, <4>3
    <3>5. Lookup(cells[j], Table)
            = ImageDraw([kind |-> kind, reflected |-> Reflected, draw |-> raw[from[i]]])
      BY <2>2, <3>3, <3>4, SlotImage
    <3>6. i \in 1 .. Len(from)
      BY <1>2, <1>3, <2>2, <3>1
    <3>7. Draws'[from'[i]] = [kind |-> kind, reflected |-> Reflected, draw |-> raw[from[i]]]
      <4>1. from'[i] = from[i] /\ from[i] \in 1 .. Len(raw)
        BY <1>3, <3>6, FromGrows
      <4> QED BY <1>1, <4>1, DrawsAt
    <3>8. Stored'[i] = out'[i]
      BY <1>1, <2>2 DEF Stored
    <3> QED BY <3>2, <3>5, <3>7, <3>8
  <2> QED BY <2>4, <2>5
<1>6. CASE ~ DrawOne /\ ~ MapBlock
  <2>1. done' = done /\ out' = out
    BY <1>6 DEF Next, Check, DrawWithoutOutput, Dry, Delivered,
         BlockStart, Fill, FillDry, Filled, Finish
  <2>2. entry = "prepare" => cells' = cells
    BY <1>0, <1>6 DEF Next, Check, DrawWithoutOutput, Dry, Delivered,
         BlockStart, Fill, FillDry, Filled, Finish, Control
  <2>3. IF entry = "prepare" THEN cells'[i] = cells[i] ELSE out'[i] = out[i]
    BY <2>1, <2>2
  <2> QED BY <2>1, <2>3, StoredKept
<1> QED BY <1>4, <1>5, <1>6

LEMMA SlotsStep == BaseInv /\ SlotsFresh /\ Next => SlotsFresh'
<1> SUFFICES ASSUME BaseInv, SlotsFresh, Next PROVE SlotsFresh'
  OBVIOUS
<1>0. TypeOK /\ Control
  BY DEF BaseInv
<1>1. UNCHANGED <<entry, raw, block, capacity>>
  BY CallFrame
<1>2. /\ done \in Nat /\ pos \in Nat /\ Len(raw) \in Nat /\ filled \in Nat
      /\ block \in Nat /\ capacity \in Nat /\ cells \in [1 .. capacity -> Limbs]
  BY <1>0, Numbers DEF TypeOK
<1>3. Open \in Nat /\ Len(from) = done + Open
  BY NotDone, HistoryCovers
<1>4. /\ \A i \in 1 .. Open : Value(cells[i]) = raw[from[done + i]]
      /\ entry = "staged" => \A i \in 1 .. capacity : i > block => cells[i] = ZeroLimbs
  BY DEF SlotsFresh
<1>5. ASSUME entry # "staged" PROVE SlotsFresh'
  <2>1. Open' = 0
    <3>1. Control'
      BY ControlStep
    <3> QED BY <1>1, <1>5, <3>1 DEF Open, Control
  <2> QED BY <1>1, <1>5, <2>1 DEF SlotsFresh
<1>6. ASSUME entry = "staged", cells' = cells, Open' = 0 PROVE SlotsFresh'
  BY <1>1, <1>4, <1>6 DEF SlotsFresh
<1>7. ASSUME entry = "staged", UNCHANGED <<cells, done, from>>, Open' = Open PROVE SlotsFresh'
  BY <1>1, <1>4, <1>7 DEF SlotsFresh
<1>8. CASE entry = "staged"
  <2>1. CASE Check
    <3>1. Open' = 0 /\ cells' = cells
      BY <2>1 DEF Check, Stop, Open
    <3> QED BY <1>6, <1>8, <3>1
  <2>2. CASE BlockStart \/ MapBlock \/ Finish
    <3>1. Open' = 0 /\ cells' = cells
      BY <2>2 DEF BlockStart, MapBlock, Finish, Stop, Open
    <3> QED BY <1>6, <1>8, <3>1
  <2>3. CASE Filled
    <3>1. Open' = Open
      BY <2>3 DEF Filled, Open
    <3> QED BY <1>7, <1>8, <2>3, <3>1 DEF Filled
  <2>4. CASE FillDry
    <3>1. Open' = Open
      BY <1>1, <1>8, <2>4 DEF FillDry, Stop, Open
    <3> QED BY <1>7, <1>8, <2>4, <3>1 DEF FillDry
  <2>5. CASE Fill
    <3> DEFINE w == FromLe9(raw[pos + 1])
    <3>1. /\ pc = "fill" /\ pc' = pc /\ done' = done /\ pos < Len(raw) /\ raw[pos + 1] \in Draw
          /\ filled + 1 \in 1 .. capacity /\ filled + 1 <= block
          /\ \/ /\ filled' = filled + 1 /\ from' = Append(from, pos + 1)
                /\ cells' = [cells EXCEPT ![filled + 1] = w]
             \/ filled' = filled /\ from' = from /\ cells' = cells
      BY <2>5, FillFacts
    <3>2. Open = filled /\ Open' = filled'
      BY <3>1 DEF Open
    <3>3. CASE filled' = filled /\ from' = from /\ cells' = cells
      BY <1>7, <1>8, <3>1, <3>2, <3>3
    <3>4. CASE /\ filled' = filled + 1 /\ from' = Append(from, pos + 1)
               /\ cells' = [cells EXCEPT ![filled + 1] = w]
      <4>1. Value(w) = raw[pos + 1]
        BY <3>1, DecodeFacts
      <4> HIDE DEF w
      <4>2. ASSUME NEW i \in 1 .. Open' PROVE Value(cells'[i]) = raw'[from'[done' + i]]
        <5>1. CASE i = filled + 1
          <6>1. from'[done' + i] = pos + 1
            <7>1. done' + i = Len(from) + 1
              BY <1>2, <1>3, <3>1, <3>2, <5>1
            <7> QED BY <1>0, <3>1, <3>4, <7>1, FromType
          <6>2. cells'[i] = w
            BY <1>2, <3>1, <3>4, <5>1
          <6> QED BY <1>1, <4>1, <6>1, <6>2
        <5>2. CASE i # filled + 1
          <6>1. i \in 1 .. Open /\ done' + i \in 1 .. Len(from) /\ i \in 1 .. capacity
            BY <1>2, <1>3, <3>1, <3>2, <3>4, <5>2
          <6>2. from'[done' + i] = from[done + i]
            BY <3>1, <6>1, FromGrows
          <6>3. cells'[i] = cells[i]
            BY <1>2, <3>4, <5>2, <6>1
          <6> QED BY <1>1, <1>4, <6>1, <6>2, <6>3
        <5> QED BY <5>1, <5>2
      <4>3. ASSUME NEW i \in 1 .. capacity, i > block PROVE cells'[i] = ZeroLimbs
        <5>1. i # filled + 1
          BY <1>2, <3>1, <4>3
        <5> QED BY <1>2, <1>4, <1>8, <3>4, <4>3, <5>1
      <4> QED BY <1>1, <4>2, <4>3 DEF SlotsFresh
    <3> QED BY <3>1, <3>3, <3>4
  <2>6. ~ (DrawWithoutOutput \/ DrawOne \/ Dry \/ Delivered)
    BY <1>0, <1>8 DEF DrawWithoutOutput, DrawOne, Dry, Delivered, Control
  <2> QED BY <2>1, <2>2, <2>3, <2>4, <2>5, <2>6 DEF Next
<1> QED BY <1>5, <1>8

-----------------------------------------------------------------------------
(* The invariant and the properties of a finished call *)

LEMMA InitInv == Init => SamplerInv
<1> SUFFICES ASSUME Init PROVE SamplerInv
  OBVIOUS
<1>1. BaseInv
  BY InitBase
<1>2. done = 0 /\ Open = 0 /\ pc = "check" /\ pos = 0 /\ from = <<>> /\ attempts = Stale
  BY DEF Init, Open
<1>3. Counting
  <2>1. Spent = ZeroStats
    BY <1>2 DEF Spent, ZeroStats
  <2>2. st = IF entry = "one" THEN ZeroStats ELSE StaleStats
    BY DEF Init
  <2> QED BY <1>2, <2>1, <2>2 DEF Counting
<1>4. StoredExact
  BY <1>2 DEF StoredExact
<1>5. SlotsFresh
  BY <1>2 DEF SlotsFresh, Init
<1> QED BY <1>1, <1>3, <1>4, <1>5 DEF SamplerInv, BaseInv

LEMMA InvStep == SamplerInv /\ [Next]_vars => SamplerInv'
<1>1. SamplerInv /\ Next => SamplerInv'
  BY BaseStep, CountingStep, StoredStep, SlotsStep DEF SamplerInv, BaseInv
<1>2. ASSUME SamplerInv, UNCHANGED vars PROVE SamplerInv'
  <2>1. BaseInv'
    BY <1>2, BaseStep DEF SamplerInv, BaseInv
  <2>2. /\ Draws' = Draws /\ Table' = Table /\ Open' = Open /\ Spent' = Spent
        /\ UNCHANGED <<entry, wantStats, raw, block, capacity, out, cells, done, from, st,
                       attempts, pc>>
    BY <1>2, CallOperators DEF vars, call, Open, Spent
  <2>3. Counting'
    BY <1>2, <2>2 DEF SamplerInv, Counting, ZeroStats, StaleStats, Stale
  <2>4. StoredExact'
    <3>1. Stored' = Stored
      BY <2>2 DEF Stored
    <3> QED BY <1>2, <2>2, <3>1 DEF SamplerInv, StoredExact
  <2>5. SlotsFresh'
    BY <1>2, <2>2 DEF SamplerInv, SlotsFresh
  <2> QED BY <2>1, <2>3, <2>4, <2>5 DEF SamplerInv, BaseInv
<1> QED BY <1>1, <1>2

\* Every entry point keeps its phases, its history of accepted draws, its
\* running counters and timing, its samples and its workspace as SamplerInv says.
THEOREM SamplerInvariant == Spec => []SamplerInv
<1> QED BY InitInv, InvStep, PTL DEF Spec

\* Whatever the way a call ends, its counters report exactly the draws it spent,
\* are cleared, or are left alone, as CountersExact says for each entry point.
THEOREM CountersAreExact == Spec => []CountersExact
<1>1. Init => CountersExact
  BY DEF Init, CountersExact
<1>2. SamplerInv /\ CountersExact /\ [Next]_vars => CountersExact'
  <2>1. SamplerInv /\ Next => CountersExact'
    BY CountersStep DEF SamplerInv, BaseInv
  <2>2. ASSUME CountersExact, UNCHANGED vars PROVE CountersExact'
    <3>1. /\ Refused' = Refused /\ RawLen' = RawLen /\ Spent' = Spent
          /\ UNCHANGED <<kind, entry, wantStats, pos, st, attempts, pc, rc>>
      BY <2>2, CallOperators DEF vars, call, Spent
    <3> QED BY <2>2, <3>1 DEF CountersExact, ZeroStats, StaleStats, StatsRecord, Stale
  <2> QED BY <2>1, <2>2
<1> QED BY <1>1, <1>2, SamplerInvariant, PTL DEF Spec

\* Whatever the block size, the source and the cost of a reading, a staged call
\* times the draws of its finished blocks as input and their samples as mapping;
\* the outer time of a success is both and the readings between them, and a
\* failed call reports none.
THEOREM TimingIsAttributed == Spec => []TimingAttributed
<1>1. Init => TimingAttributed
  BY DEF Init, TimingAttributed
<1>2. SamplerInv /\ TimingAttributed /\ [Next]_vars => TimingAttributed'
  <2>1. SamplerInv /\ Next => TimingAttributed'
    BY AttributionStep DEF SamplerInv, BaseInv
  <2>2. ASSUME TimingAttributed, UNCHANGED vars PROVE TimingAttributed'
    <3>1. UNCHANGED <<entry, n, block, done, from, tm, pc, rc>>
      BY <2>2 DEF vars, call, time
    <3>2. \A b \in 0 .. n : AfterBlocks(b) => AfterBlocks(b)'
      BY <3>1 DEF AfterBlocks, Reached
    <3> QED BY <2>2, <3>1, <3>2 DEF TimingAttributed
  <2> QED BY <2>1, <2>2
<1> QED BY <1>1, <1>2, SamplerInvariant, PTL DEF Spec

\* No block is mapped before all its slots hold accepted draws of its own stretch
\* of the source, and no slot past the block is written.
THEOREM BlocksAreFresh == Spec => []BlockFresh
<1>1. SamplerInv => BlockFresh
  <2> SUFFICES ASSUME SamplerInv, entry = "staged" PROVE BlockFresh
    BY DEF BlockFresh
  <2>1. \A i \in 1 .. capacity : i > block => cells[i] = ZeroLimbs
    BY DEF SamplerInv, SlotsFresh
  <2>2. ASSUME pc = "map"
        PROVE  Len(from) = done + Take
               /\ \A i \in 1 .. Take : Value(cells[i]) = raw[from[done + i]]
    <3>1. Open = Take
      BY <2>2 DEF SamplerInv, Control, Open
    <3>2. Len(from) = done + Open
      BY <2>2 DEF SamplerInv, History
    <3> QED BY <3>1, <3>2 DEF SamplerInv, SlotsFresh
  <2> QED BY <2>1, <2>2 DEF BlockFresh
<1> QED BY <1>1, SamplerInvariant, PTL

-----------------------------------------------------------------------------
(* Refinement *)

AbstractDraw == [kind : {"original", "sda"}, reflected : BOOLEAN, draw : Draw]

LEMMA SourceType ==
  ASSUME TypeOK
  PROVE  Draws \in Seq(AbstractDraw) /\ Len(Draws) = Len(raw)
<1>1. raw \in Seq(Draw) /\ Len(raw) \in Nat /\ kind \in {"original", "sda"}
  BY Numbers DEF TypeOK
<1>2. Reflected \in BOOLEAN
  BY DEF Reflected
<1>3. \A i \in 1 .. Len(raw) :
        [kind |-> kind, reflected |-> Reflected, draw |-> raw[i]] \in AbstractDraw
  BY <1>1, <1>2 DEF AbstractDraw
<1> HIDE DEF AbstractDraw
<1> QED BY <1>1, <1>3 DEF Draws

\* The abstract source accepts the draw an entry point keeps.
LEMMA AcceptedDraw ==
  ASSUME TypeOK, pos < Len(raw)
  PROVE  AcceptDraw(Draws[pos + 1]) <=> Keeps(FromLe9(raw[pos + 1]))
<1>1. raw[pos + 1] \in Draw /\ pos + 1 \in 1 .. Len(raw)
  BY NextDraw, Numbers
<1>2. Draws[pos + 1] = [kind |-> kind, reflected |-> Reflected, draw |-> raw[pos + 1]]
  BY <1>1, DrawsAt
<1>3. AcceptDraw(Draws[pos + 1]) <=> (kind = "original" \/ raw[pos + 1] < Bound)
  BY <1>2 DEF AcceptDraw
<1>4. Keeps(FromLe9(raw[pos + 1])) <=> (kind = "original" \/ raw[pos + 1] < Bound)
  BY <1>1, DecodeFacts, KeepsExact
<1> QED BY <1>3, <1>4

\* A step that spends a draw is one abstract Consume.
LEMMA ConsumeStep ==
  ASSUME BaseInv, Next, pos < Len(raw), Len(from) < n,
         Status = "sampling", Status' = "sampling",
         pos' = pos + 1,
         from' = IF Keeps(FromLe9(raw[pos + 1])) THEN Append(from, pos + 1) ELSE from
  PROVE  Sampling!Consume
<1>0. TypeOK
  BY DEF BaseInv
<1>1. UNCHANGED n /\ Draws' = Draws
  BY CallFrame, CallOperators
<1>2. from' = IF AcceptDraw(Draws[pos + 1]) THEN Append(from, pos + 1) ELSE from
  BY <1>0, AcceptedDraw
<1>3. pos < Len(Draws)
  BY <1>0, SourceType
<1> QED BY <1>1, <1>2, <1>3 DEF Sampling!Consume

\* A step that spends none and leaves the call running stutters.
LEMMA StutterStep ==
  ASSUME [Next]_vars, UNCHANGED <<pos, from>>, Status = "sampling", Status' = "sampling"
  PROVE  UNCHANGED Sampling!vars
<1>1. UNCHANGED n /\ Draws' = Draws
  BY CallFrame, CallOperators
<1> QED BY <1>1 DEF Sampling!vars

\* The end of a call is Finish when the request is filled, Exhaust otherwise.
LEMMA EndStep ==
  ASSUME SamplerInv, Next, pc \in {"draw", "block", "fill"}, pc' = "done", rc' # -1,
         UNCHANGED <<out, cells, done, pos, from>>,
         (Len(from) = n /\ done = n) \/ (Len(from) < n /\ done < n /\ ~ HasDraw)
  PROVE  Sampling!Finish \/ Sampling!Exhaust
<1>0. TypeOK /\ BaseInv
  BY DEF SamplerInv, BaseInv
<1>1. UNCHANGED n /\ Draws' = Draws /\ Refused' = Refused /\ ~ Refused
  BY <1>0, CallFrame, CallOperators DEF BaseInv, Control
<1>2. Status = "sampling" /\ Status' = IF done = n THEN "ok" ELSE "exhausted"
  BY <1>1 DEF Status
<1>3. n \in Nat /\ done \in Nat /\ Len(from) \in Nat /\ pos \in Nat /\ Len(raw) \in Nat
      /\ pos <= Len(raw)
  BY <1>0, Numbers
<1>4. CASE done = n
  <2>1. Len(from) = n
    BY <1>3, <1>4
  <2>2. StoredExact'
    BY <1>0, StoredStep DEF SamplerInv
  <2>3. \A i \in 1 .. n : Stored'[i] = ImageDraw(Draws[from[i]])
    BY <1>1, <1>4, <2>2 DEF StoredExact
  <2>4. Stored' = [i \in 1 .. n |-> Stored'[i]]
    BY <1>4 DEF Stored
  <2>5. Stored' = [i \in 1 .. n |-> ImageDraw(Draws[from[i]])]
    BY <2>3, <2>4
  <2>6. Sampling!Finish
    BY <1>1, <1>2, <1>4, <2>1, <2>5 DEF Sampling!Finish
  <2> QED BY <2>6
<1>5. CASE done # n
  <2>1. Len(from) < n /\ pos = Len(raw)
    BY <1>0, <1>3, <1>5, HasDrawExact
  <2>2. Sampling!Exhaust
    BY <1>0, <1>1, <1>2, <1>5, <2>1, SourceType DEF Sampling!Exhaust
  <2> QED BY <2>2
<1> QED BY <1>4, <1>5

LEMMA RefinementStep == SamplerInv /\ [Next]_vars => [Sampling!Next]_Sampling!vars
<1> SUFFICES ASSUME SamplerInv, [Next]_vars PROVE [Sampling!Next]_Sampling!vars
  OBVIOUS
<1>0. BaseInv /\ TypeOK /\ Control
  BY DEF SamplerInv, BaseInv
<1>1. /\ n \in Nat /\ done \in Nat /\ done <= n /\ pos \in Nat /\ filled \in Nat
      /\ Take \in Nat /\ done + Take <= n
  BY <1>0, Numbers
<1>2. Refused' = Refused
  BY CallOperators
<1>3. pc # "done" => Len(from) = done + Open
  BY <1>0, HistoryCovers
<1>4. CASE Check
  <2>1. Status = "sampling" /\ Status' = "sampling" /\ UNCHANGED <<pos, from>>
    BY <1>2, <1>4 DEF Check, Stop, Status
  <2> QED BY <2>1, StutterStep
<1>5. CASE DrawWithoutOutput
  <2>1. /\ pc = "draw" /\ done < n /\ pos < Len(raw) /\ pos' = pos + 1
        /\ from' = Append(from, pos + 1) /\ rc' = -1
    BY <1>0, <1>5, HasDrawExact DEF DrawWithoutOutput, Stop
  <2>2. Keeps(FromLe9(raw[pos + 1]))
    <3>1. kind = "original"
      BY <1>0, <1>5, WithoutOutput DEF TypeOK
    <3> QED BY <3>1 DEF Keeps
  <2>3. Status = "sampling" /\ Status' = "sampling"
    BY <2>1 DEF Status
  <2>4. Len(from) < n
    BY <1>1, <1>3, <2>1 DEF Open
  <2>5. Sampling!Consume
    BY <1>0, <1>5, <2>1, <2>2, <2>3, <2>4, ConsumeStep DEF Next
  <2> QED BY <2>5 DEF Sampling!Next
<1>6. CASE DrawOne
  <2> DEFINE keep == Keeps(FromLe9(raw[pos + 1]))
  <2>1. /\ pc = "draw" /\ done < n /\ pos < Len(raw) /\ pos' = pos + 1 /\ pc' = pc
        /\ from' = IF keep THEN Append(from, pos + 1) ELSE from
    BY <1>0, <1>6, DrawOneFacts
  <2>2. Status = "sampling" /\ Status' = "sampling"
    BY <2>1 DEF Status
  <2>3. Len(from) < n
    BY <1>1, <1>3, <2>1 DEF Open
  <2>4. Sampling!Consume
    BY <1>0, <1>6, <2>1, <2>2, <2>3, ConsumeStep DEF Next
  <2> QED BY <2>4 DEF Sampling!Next
<1>7. CASE Fill
  <2> DEFINE keep == Keeps(FromLe9(raw[pos + 1]))
  <2>1. /\ pc = "fill" /\ filled < Take /\ pos < Len(raw) /\ pos' = pos + 1 /\ pc' = pc
        /\ from' = IF keep THEN Append(from, pos + 1) ELSE from
    BY <1>0, <1>7, FillFacts
  <2>2. Status = "sampling" /\ Status' = "sampling"
    BY <2>1 DEF Status
  <2>3. Len(from) < n
    BY <1>1, <1>3, <2>1 DEF Open
  <2>4. Sampling!Consume
    BY <1>0, <1>7, <2>1, <2>2, <2>3, ConsumeStep DEF Next
  <2> QED BY <2>4 DEF Sampling!Next
<1>8. CASE Dry \/ Delivered
  <2>1. /\ pc = "draw" /\ pc' = "done" /\ rc' # -1
        /\ UNCHANGED <<out, cells, done, pos, from>>
    BY <1>1, <1>8 DEF Dry, Delivered, Stop
  <2>2. Len(from) = done
    BY <1>1, <1>3, <2>1 DEF Open
  <2>3. (Len(from) = n /\ done = n) \/ (Len(from) < n /\ done < n /\ ~ HasDraw)
    <3>1. CASE Dry
      BY <2>2, <3>1 DEF Dry
    <3>2. CASE Delivered
      <4>1. done = n
        BY <1>1, <3>2 DEF Delivered
      <4> QED BY <2>2, <4>1
    <3> QED BY <1>8, <3>1, <3>2
  <2>4. Sampling!Finish \/ Sampling!Exhaust
    BY <1>8, <2>1, <2>3, EndStep DEF Next
  <2> QED BY <2>4 DEF Sampling!Next
<1>9. CASE FillDry
  <2>1. /\ pc = "fill" /\ pc' = "done" /\ rc' # -1 /\ filled < Take /\ ~ HasDraw
        /\ UNCHANGED <<out, cells, done, pos, from>>
    BY <1>9 DEF FillDry, Stop
  <2>2. Len(from) < n /\ done < n
    BY <1>1, <1>3, <2>1 DEF Open
  <2>3. Sampling!Finish \/ Sampling!Exhaust
    BY <1>9, <2>1, <2>2, EndStep DEF Next
  <2> QED BY <2>3 DEF Sampling!Next
<1>10. CASE Finish
  <2>1. /\ pc = "block" /\ pc' = "done" /\ rc' # -1
        /\ UNCHANGED <<out, cells, done, pos, from>>
    BY <1>10 DEF Finish, Stop
  <2>2. Len(from) = n /\ done = n
    BY <1>0, <1>10, FinishFacts
  <2>3. Next
    BY <1>10 DEF Next
  <2>4. Sampling!Finish \/ Sampling!Exhaust
    BY <2>1, <2>2, <2>3, EndStep
  <2> QED BY <2>4 DEF Sampling!Next
<1>11. CASE BlockStart \/ Filled \/ MapBlock
  <2>1. Status = "sampling" /\ Status' = "sampling" /\ UNCHANGED <<pos, from>>
    BY <1>11 DEF BlockStart, Filled, MapBlock, Status
  <2> QED BY <2>1, StutterStep
<1>12. CASE UNCHANGED vars
  <2>1. Draws' = Draws /\ Table' = Table
    BY CallOperators
  <2>2. UNCHANGED <<entry, n, out, cells, done, pos, from, pc, rc>>
    BY <1>12 DEF vars, call
  <2>3. Status' = Status /\ Stored' = Stored
    BY <1>2, <2>1, <2>2 DEF Status, Stored
  <2> QED BY <2>1, <2>2, <2>3 DEF Sampling!vars
<1> QED BY <1>4, <1>5, <1>6, <1>7, <1>8, <1>9, <1>10, <1>11, <1>12 DEF Next

\* Every entry point implements bounded rejection sampling: a success delivers
\* the images of the first n accepted draws, a shortage means the source holds
\* fewer.
THEOREM Refinement == Spec => Implements
<1>1. Init => Sampling!Init
  <2> SUFFICES ASSUME Init PROVE Sampling!Init
    OBVIOUS
  <2>1. TypeOK
    BY InitBase DEF BaseInv
  <2>2. Draws \in Seq([kind : {"original", "sda"}, reflected : BOOLEAN, draw : Draw])
    BY <2>1, SourceType DEF AbstractDraw
  <2>3. n \in Nat
    BY <2>1, Numbers
  <2>4. pos = 0 /\ from = <<>> /\ Status = "sampling"
    BY DEF Init, Status
  <2> QED BY <2>2, <2>3, <2>4 DEF Sampling!Init
<1> QED BY <1>1, RefinementStep, SamplerInvariant, PTL DEF Spec, Implements, Sampling!Spec

-----------------------------------------------------------------------------
(* Samples *)

\* No sample is stored without an accepted draw of its own, and no cell of the
\* output is written past the samples stored.
SamplesBacked == done <= Len(from) /\ NothingPast

LEMMA BackedInit == Init => SamplesBacked
<1> SUFFICES ASSUME Init PROVE SamplesBacked
  OBVIOUS
<1>1. done = 0 /\ from = <<>> /\ out = [i \in 1 .. MaxN + 1 |-> Poison]
  BY DEF Init
<1> QED BY <1>1 DEF SamplesBacked, NothingPast

LEMMA CoverStep ==
  ASSUME BaseInv, Next
  PROVE  done' <= Len(from')
<1>0. TypeOK /\ Control /\ TypeOK' /\ History'
  BY BaseStep DEF BaseInv
<1>1. done \in Nat /\ n \in Nat /\ done' \in Nat /\ Len(from) \in Nat /\ Len(from') \in Nat
      /\ filled' \in Nat
  <2>1. UNCHANGED <<n, block>>
    BY CallFrame
  <2>2. n \in Nat /\ block \in Nat /\ done \in Nat /\ Len(from) \in Nat
    BY <1>0, Numbers
  <2>3. done' \in 0 .. n /\ filled' \in 0 .. block
    BY <1>0, <2>1 DEF TypeOK
  <2>4. Len(from') \in Nat
    BY <1>0 DEF TypeOK
  <2> QED BY <2>2, <2>3, <2>4
<1>2. Len(from) = done + Open /\ Open \in Nat
  BY NotDone, HistoryCovers
<1>3. CASE pc' = "done" /\ rc' = -1
  <2>1. Len(from) <= Len(from')
    BY FromGrows
  <2>2. done' = done
    BY <1>3 DEF Next, Check, DrawWithoutOutput, DrawOne, Dry, Delivered,
         BlockStart, Fill, FillDry, Filled, MapBlock, Finish
  <2> QED BY <1>1, <1>2, <2>1, <2>2
<1>4. CASE ~ (pc' = "done" /\ rc' = -1)
  <2>1. Len(from') = done' + Open'
    BY <1>0, <1>4 DEF History
  <2>2. Open' \in Nat
    BY <1>1 DEF Open
  <2>3. \A d \in Nat, k \in Nat : d <= d + k
    OBVIOUS
  <2> QED BY <1>1, <2>1, <2>2, <2>3
<1> QED BY <1>3, <1>4

LEMMA NothingPastStep ==
  ASSUME BaseInv, NothingPast, Next
  PROVE  NothingPast'
<1> SUFFICES ASSUME NEW i \in 1 .. MaxN + 1, i > done' \/ entry = "prepare"
             PROVE  out'[i] = Poison
  BY CallFrame DEF NothingPast
<1>0. TypeOK /\ Control
  BY DEF BaseInv
<1>1. /\ done \in Nat /\ MaxN \in Nat /\ Take \in Nat /\ i \in Nat
      /\ out \in [1 .. MaxN + 1 -> Nat]
  BY <1>0, Numbers DEF TypeOK
<1>2. CASE DrawOne
  <2> DEFINE keep == Keeps(FromLe9(raw[pos + 1]))
             sample == Lookup(Oriented(FromLe9(raw[pos + 1])), Table)
  <2>1. /\ out' = IF keep /\ entry # "prepare" THEN [out EXCEPT ![done + 1] = sample] ELSE out
        /\ (keep /\ done' = done + 1) \/ (~ keep /\ done' = done)
    BY <1>2, DrawOneFacts
  <2> HIDE DEF keep, sample
  <2>2. i > done \/ entry = "prepare"
    BY <1>1, <2>1
  <2>3. out'[i] = out[i]
    BY <1>1, <2>1
  <2> QED BY <2>2, <2>3 DEF NothingPast
<1>3. CASE MapBlock
  <2>1. done' = done + Take /\ entry # "prepare"
    BY <1>0, <1>3 DEF MapBlock, Control
  <2>2. i > done + Take
    BY <2>1
  <2>3. out'[i] = out[i]
    BY <1>1, <1>3, <2>2 DEF MapBlock
  <2>4. i > done
    BY <1>1, <2>2
  <2> QED BY <2>3, <2>4 DEF NothingPast
<1>4. CASE ~ DrawOne /\ ~ MapBlock
  <2>1. done' = done /\ out' = out
    BY <1>4 DEF Next, Check, DrawWithoutOutput, Dry, Delivered,
         BlockStart, Fill, FillDry, Filled, Finish
  <2> QED BY <2>1 DEF NothingPast
<1> QED BY <1>2, <1>3, <1>4

\* Sampling and Promise are the same substitution: what is proved of the one
\* holds of the other.
LEMMA SamePromise ==
  /\ Sampling!Spec => []Promise!SamplingCorrect
  /\ \A s, m : Promise!HoldsFirst(s, m) => Sampling!HoldsFirst(s, m)
<1>1. Sampling!Init => Promise!Init
  BY DEF Sampling!Init, Promise!Init
<1>2. [Sampling!Next]_Sampling!vars => [Promise!Next]_Promise!vars
  BY DEF Sampling!Next, Sampling!Consume, Sampling!Finish, Sampling!Exhaust, Sampling!vars,
         Promise!Next, Promise!Consume, Promise!Finish, Promise!Exhaust, Promise!vars
<1>3. Sampling!Spec => []Promise!SamplingCorrect
  BY <1>1, <1>2, Promise!SamplingIsCorrect, PTL DEF Sampling!Spec, Promise!Spec
<1>4. /\ Sampling!Accepted = Promise!Accepted
      /\ \A S : Sampling!Cardinality(S) = Promise!Cardinality(S)
  BY DEF Sampling!Accepted, Promise!Accepted, Sampling!Cardinality, Promise!Cardinality
<1>5. \A k : Sampling!Rank(k) = Promise!Rank(k)
  BY <1>4 DEF Sampling!Rank, Promise!Rank
<1>6. \A s, m : Promise!HoldsFirst(s, m) => Sampling!HoldsFirst(s, m)
  BY <1>4, <1>5 DEF Sampling!HoldsFirst, Promise!HoldsFirst
<1> QED BY <1>3, <1>6

\* Whatever the entry point, and at every moment of the call, the samples stored
\* are the images of the first accepted draws in order, and nothing is written
\* past them; a prepared candidate maps to the sample of the fused call.
THEOREM SamplesAreTheSame == Spec => []SameSamples
<1>1. SamplerInv /\ SamplesBacked /\ [Next]_vars => SamplesBacked'
  <2>1. SamplerInv /\ SamplesBacked /\ Next => SamplesBacked'
    BY CoverStep, NothingPastStep DEF SamplesBacked, SamplerInv, BaseInv
  <2>2. SamplesBacked /\ UNCHANGED vars => SamplesBacked'
    BY DEF vars, call, SamplesBacked, NothingPast
  <2> QED BY <2>1, <2>2
<1>2. SamplerInv /\ SamplesBacked /\ Promise!SamplingCorrect => SameSamples
  <2> SUFFICES ASSUME SamplerInv, SamplesBacked, Promise!SamplingCorrect PROVE SameSamples
    OBVIOUS
  <2>1. \A i \in 1 .. Len(from) : from[i] \in Promise!Accepted /\ Promise!Rank(from[i]) = i
    BY DEF Promise!SamplingCorrect, Promise!FromRanked
  <2>2. done \in Nat /\ Len(from) \in Nat /\ done <= Len(from)
    BY Numbers DEF SamplerInv, SamplesBacked
  <2>3. \A i \in 1 .. done : Stored[i] = ImageDraw(Draws[from[i]])
    BY DEF SamplerInv, StoredExact
  <2>4. \A i \in 1 .. done : i \in 1 .. Len(from)
    BY <2>2
  <2>5. Promise!HoldsFirst(Stored, done)
    BY <2>1, <2>3, <2>4 DEF Promise!HoldsFirst
  <2> QED BY <2>5, SamePromise DEF SameSamples, SamplesBacked
<1> QED BY <1>1, <1>2, BackedInit, SamePromise, Refinement, SamplerInvariant, PTL
        DEF Spec, Implements
=============================================================================
