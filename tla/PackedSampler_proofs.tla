------------------------ MODULE PackedSampler_proofs ------------------------
(***************************************************************************)
(* Proofs about the bit readers and the packed-bit samplers, for every     *)
(* byte and refill width, candidate width, lane count, stream and request: *)
(* both readers return the stream bit by bit, the counters account for     *)
(* every bit, and all four front ends implement bounded rejection sampling *)
(* of the parsed stream, so they store the same samples.                   *)
(***************************************************************************)
EXTENDS PackedSampler, FiniteSetTheorems, WellFoundedInduction, TLAPS

(***************************************************************************)
(* Arithmetic: powers of two, division, and induction over sets of numbers.*)
(***************************************************************************)

\* A set that holds 0 and every successor of a natural number it holds holds
\* them all.
LEMMA SetInduction ==
  ASSUME NEW T, 0 \in T, \A k \in T : k \in Nat => k + 1 \in T
  PROVE  Nat \subseteq T
<1> SUFFICES ASSUME Nat \ T # {} PROVE FALSE
  OBVIOUS
<1>1. PICK x \in Nat \ T : \A y \in Nat \ T : ~ (<<y, x>> \in OpToRel(<, Nat))
  <2>1. Nat \ T \subseteq Nat
    OBVIOUS
  <2> QED BY <2>1, NatLessThanWellFounded, WFMin
<1>2. \A y \in Nat : y < x => y \in T
  BY <1>1 DEF OpToRel
<1>3. x \in Nat /\ x \notin T
  OBVIOUS
<1>4. x # 0
  BY <1>3
<1>5. x - 1 \in Nat /\ x - 1 < x /\ (x - 1) + 1 = x
  BY <1>3, <1>4
<1>6. x - 1 \in T
  BY <1>2, <1>5
<1> QED BY <1>3, <1>5, <1>6

\* Powers of two count the subsets of an interval, which is all the provers
\* need to know of them.
LEMMA PowIsCount ==
  ASSUME NEW k \in Nat
  PROVE  /\ IsFiniteSet(SUBSET (1 .. k)) /\ Cardinality(SUBSET (1 .. k)) = 2 ^ k
         /\ 2 ^ k \in Nat
<1>1. IsFiniteSet(1 .. k) /\ Cardinality(1 .. k) = k
  BY FS_Interval
<1>2. IsFiniteSet(SUBSET (1 .. k)) /\ Cardinality(SUBSET (1 .. k)) = 2 ^ k
  BY <1>1, FS_SUBSET
<1> QED BY <1>2, FS_CardinalityType

\* One value in no bits.
LEMMA PowZero == 2 ^ 0 = 1
<1>1. SUBSET (1 .. 0) = {{}}
  OBVIOUS
<1>2. Cardinality({{}}) = 1
  BY FS_Singleton
<1> QED BY <1>1, <1>2, PowIsCount

\* A subset of 1..k+1 is one of 1..k, with or without k + 1.
LEMMA PowStep ==
  ASSUME NEW k \in Nat
  PROVE  2 ^ (k + 1) = 2 * 2 ^ k
<1> DEFINE S == SUBSET (1 .. k)
           T == {s \cup {k + 1} : s \in S}
           U == SUBSET (1 .. k + 1)
<1>1. IsFiniteSet(S) /\ Cardinality(S) = 2 ^ k /\ 2 ^ k \in Nat
  BY PowIsCount
<1>2. Cardinality(U) = 2 ^ (k + 1)
  <2>1. k + 1 \in Nat
    OBVIOUS
  <2> QED BY <2>1, PowIsCount
<1>3. 1 .. k + 1 = (1 .. k) \cup {k + 1} /\ k + 1 \notin 1 .. k
  OBVIOUS
<1>4. IsFiniteSet(T) /\ Cardinality(T) = Cardinality(S)
  <2> DEFINE f == [s \in S |-> s \cup {k + 1}]
  <2>0. \A s, t \in S : s \cup {k + 1} = t \cup {k + 1} => s = t
    <3> SUFFICES ASSUME NEW s \in S, NEW t \in S, s \cup {k + 1} = t \cup {k + 1}
                 PROVE  \A x : x \in s <=> x \in t
      OBVIOUS
    <3>1. k + 1 \notin s /\ k + 1 \notin t
      BY <1>3
    <3> QED BY <3>1
  <2>1. f \in [S -> T] /\ \A t \in T : \E s \in S : f[s] = t
    OBVIOUS
  <2>2. IsInjective(f)
    BY <2>0 DEF IsInjective
  <2>3. f \in Bijection(S, T)
    BY <2>1, <2>2 DEF Bijection, Injection, Surjection
  <2> QED BY <1>1, <2>3, FS_Bijection DEF ExistsBijection
<1>5. U = S \cup T
  <2>1. ASSUME NEW u \in U PROVE u \in S \cup T
    <3>1. CASE k + 1 \in u
      <4>1. u \ {k + 1} \in S /\ u = (u \ {k + 1}) \cup {k + 1}
        BY <1>3, <3>1
      <4> QED BY <4>1
    <3>2. CASE k + 1 \notin u
      BY <1>3, <3>2
    <3> QED BY <3>1, <3>2
  <2>2. S \cup T \subseteq U
    BY <1>3
  <2> QED BY <2>1, <2>2
<1>6. S \cap T = {}
  BY <1>3
<1>7. Cardinality(S \cup T) = Cardinality(S) + Cardinality(T)
  <2> HIDE DEF S, T
  <2>1. Cardinality(S \cup T) = Cardinality(S) + Cardinality(T) - Cardinality(S \cap T)
    BY <1>1, <1>4, FS_Union
  <2>2. Cardinality(S \cap T) = 0
    BY <1>6, FS_EmptySet
  <2> QED BY <1>1, <1>4, <2>1, <2>2
<1> HIDE DEF S, T, U
<1> DEFINE p == 2 ^ k
           q == 2 ^ (k + 1)
<1>8. p \in Nat /\ Cardinality(S) = p /\ Cardinality(U) = q
  BY <1>1, <1>2
<1> HIDE DEF p, q
<1>9. q = 2 * p
  BY <1>4, <1>5, <1>7, <1>8
<1> QED BY <1>9 DEF p, q

\* Powers of two are positive.
LEMMA PowType == \A k \in Nat : 2 ^ k \in Nat \ {0}
<1> DEFINE T == {k \in Nat : 2 ^ k \in Nat \ {0}}
<1>1. 0 \in T
  BY PowZero
<1>2. \A k \in T : k \in Nat => k + 1 \in T
  <2> SUFFICES ASSUME NEW k \in T PROVE k + 1 \in Nat /\ 2 ^ (k + 1) \in Nat \ {0}
    OBVIOUS
  <2>1. 2 ^ (k + 1) = 2 * 2 ^ k
    BY PowStep
  <2> DEFINE p == 2 ^ k
  <2>2. p \in Nat \ {0} /\ 2 ^ (k + 1) = 2 * p
    BY <2>1
  <2> HIDE DEF p
  <2>3. 2 * p \in Nat \ {0}
    BY <2>2
  <2> QED BY <2>2, <2>3
<1> HIDE DEF T
<1>3. Nat \subseteq T
  BY <1>1, <1>2, SetInduction
<1> QED BY <1>3 DEF T

\* Widths add where values multiply.
LEMMA PowSum == \A a, b \in Nat : 2 ^ (a + b) = 2 ^ a * 2 ^ b
<1> SUFFICES ASSUME NEW a \in Nat PROVE \A b \in Nat : 2 ^ (a + b) = 2 ^ a * 2 ^ b
  OBVIOUS
<1> DEFINE T == {b \in Nat : 2 ^ (a + b) = 2 ^ a * 2 ^ b}
<1>1. 0 \in T
  <2>1. 2 ^ a \in Nat /\ a + 0 = a
    BY PowType
  <2> DEFINE p == 2 ^ a
  <2>2. p \in Nat
    BY <2>1
  <2> HIDE DEF p
  <2>3. p * 1 = p
    BY <2>2
  <2>4. 2 ^ a * 1 = 2 ^ a
    BY <2>3 DEF p
  <2> QED BY <2>1, <2>4, PowZero
<1>2. \A b \in T : b \in Nat => b + 1 \in T
  <2> SUFFICES ASSUME NEW b \in T PROVE 2 ^ (a + (b + 1)) = 2 ^ a * 2 ^ (b + 1)
    OBVIOUS
  <2> DEFINE p == 2 ^ a
             q == 2 ^ b
             r == 2 ^ (a + b)
             q1 == 2 ^ (b + 1)
             r1 == 2 ^ ((a + b) + 1)
  <2>1. a + (b + 1) = (a + b) + 1 /\ a + b \in Nat /\ b \in Nat
    OBVIOUS
  <2>2. p \in Nat /\ q \in Nat /\ r = p * q
    BY <2>1, PowType
  <2>3. q1 = 2 * q /\ r1 = 2 * r
    BY <2>1, PowStep
  <2>4. 2 ^ (a + (b + 1)) = r1
    BY <2>1
  <2> HIDE DEF p, q, r, q1, r1
  <2>5. r1 = p * q1
    BY <2>2, <2>3
  <2> QED BY <2>4, <2>5 DEF p, q1
<1> HIDE DEF T
<1>3. Nat \subseteq T
  BY <1>1, <1>2, SetInduction
<1> QED BY <1>3 DEF T

\* Division with remainder.
LEMMA DivMod ==
  ASSUME NEW a \in Nat, NEW b \in Nat \ {0}
  PROVE  /\ a \div b \in Nat /\ a % b \in 0 .. b - 1
         /\ a = b * (a \div b) + (a % b)
  BY SMT

\* The higher digit decides.
LEMMA RadixOrder ==
  ASSUME NEW b \in Nat \ {0}, NEW h1 \in Nat, NEW h2 \in Nat,
         NEW l1 \in 0 .. b - 1, NEW l2 \in 0 .. b - 1, h1 < h2
  PROVE  b * h1 + l1 < b * h2 + l2
<1>1. b * (h1 + 1) <= b * h2
  OBVIOUS
<1>2. b * (h1 + 1) = b * h1 + b
  OBVIOUS
<1> QED BY <1>1, <1>2

\* A quotient and a remainder below the divisor are the division's.
LEMMA DivModUnique ==
  ASSUME NEW b \in Nat \ {0}, NEW k \in Nat, NEW r \in 0 .. b - 1
  PROVE  (b * k + r) \div b = k /\ (b * k + r) % b = r
<1> DEFINE a == b * k + r
           k2 == a \div b
           r2 == a % b
<1>0. a \in Nat /\ r \in Nat
  OBVIOUS
<1>1. k2 \in Nat /\ r2 \in 0 .. b - 1 /\ a = b * k2 + r2
  BY <1>0, DivMod
<1> HIDE DEF k2, r2
<1>2. ~ (k < k2)
  <2>1. k < k2 => b * k + r < b * k2 + r2
    BY <1>1, RadixOrder
  <2> QED BY <1>0, <1>1, <2>1
<1>3. ~ (k2 < k)
  <2>1. k2 < k => b * k2 + r2 < b * k + r
    BY <1>1, RadixOrder
  <2> QED BY <1>0, <1>1, <2>1
<1>4. k2 = k
  BY <1>1, <1>2, <1>3
<1>5. r2 = r
  BY <1>1, <1>4
<1> QED BY <1>4, <1>5 DEF k2, r2

\* A shift to the right never makes a value larger.
LEMMA DivAtMost ==
  ASSUME NEW a \in Nat, NEW b \in Nat \ {0}
  PROVE  a \div b \in 0 .. a
<1> DEFINE d == a \div b
           r == a % b
<1>1. d \in Nat /\ r \in 0 .. b - 1 /\ a = b * d + r
  BY DivMod
<1> HIDE DEF d, r
<1>2. d <= b * d /\ b * d \in Nat
  BY <1>1
<1>3. d <= a
  BY <1>1, <1>2
<1> QED BY <1>1, <1>3 DEF d

\* Two divisions are one, and the digits of both make the remainder.
LEMMA DivDiv ==
  ASSUME NEW x \in Nat, NEW a \in Nat \ {0}, NEW b \in Nat \ {0}
  PROVE  /\ (x \div a) \div b = x \div (a * b)
         /\ x % (a * b) = (x % a) + a * ((x \div a) % b)
<1> DEFINE q == x \div a
           r == x % a
           q2 == q \div b
           r2 == q % b
           l == a * r2 + r
           ab == a * b
<1>1. q \in Nat /\ r \in 0 .. a - 1 /\ x = a * q + r
  BY DivMod
<1> HIDE DEF q, r
<1>2. q2 \in Nat /\ r2 \in 0 .. b - 1 /\ q = b * q2 + r2
  BY <1>1, DivMod
<1> HIDE DEF q2, r2
<1>3. l \in 0 .. ab - 1
  <2>1. a * r2 <= a * (b - 1)
    BY <1>2
  <2>2. a * (b - 1) = a * b - a
    OBVIOUS
  <2>3. a * r2 \in Nat /\ a * b \in Nat
    BY <1>2
  <2> QED BY <1>1, <2>1, <2>2, <2>3
<1>4. x = ab * q2 + l
  <2>1. a * (b * q2 + r2) = (a * b) * q2 + a * r2
    BY <1>2
  <2> QED BY <1>1, <1>2, <2>1
<1>5. ab \in Nat \ {0}
  OBVIOUS
<1> HIDE DEF l, ab
<1>6. (ab * q2 + l) \div ab = q2 /\ (ab * q2 + l) % ab = l
  BY <1>2, <1>3, <1>5, DivModUnique
<1>7. x \div ab = q2 /\ x % ab = l
  BY <1>4, <1>6
<1>8. x % ab = r + a * r2
  BY <1>1, <1>2, <1>7 DEF l
<1> QED BY <1>7, <1>8 DEF q, r, q2, r2, ab

(***************************************************************************)
(* Runs of bits.                                                           *)
(***************************************************************************)

\* A run of c bits is below 2^c.
LEMMA SliceType ==
  ASSUME NEW s \in Nat, NEW f \in Nat, NEW c \in Nat
  PROVE  Slice(s, f, c) \in 0 .. 2 ^ c - 1
<1>1. 2 ^ f \in Nat \ {0} /\ 2 ^ c \in Nat \ {0}
  BY PowType
<1> DEFINE F == 2 ^ f
           C == 2 ^ c
<1>2. F \in Nat \ {0} /\ C \in Nat \ {0}
  BY <1>1
<1> HIDE DEF F, C
<1>3. s \div F \in Nat
  BY <1>2, DivMod
<1>4. (s \div F) % C \in 0 .. C - 1
  BY <1>2, <1>3, DivMod
<1> QED BY <1>4 DEF Slice, F, C

\* No bits are zero.
LEMMA SliceEmpty ==
  ASSUME NEW s \in Nat, NEW f \in Nat
  PROVE  Slice(s, f, 0) = 0
<1>1. Slice(s, f, 0) \in 0 .. 2 ^ 0 - 1
  BY SliceType
<1> QED BY <1>1, PowZero

\* Adjacent runs of bits are one run: the bits of the later one lie above.
LEMMA SliceJoin ==
  ASSUME NEW s \in Nat, NEW f \in Nat, NEW c \in Nat, NEW d \in Nat
  PROVE  Slice(s, f, c + d) = Slice(s, f, c) + 2 ^ c * Slice(s, f + c, d)
<1> DEFINE F == 2 ^ f
           C == 2 ^ c
           D == 2 ^ d
           x == s \div F
<1>1. F \in Nat \ {0} /\ C \in Nat \ {0} /\ D \in Nat \ {0}
  BY PowType
<1>2. 2 ^ (f + c) = F * C /\ 2 ^ (c + d) = C * D
  BY PowSum
<1>3. Slice(s, f, c) = x % C /\ Slice(s, f, c + d) = x % (C * D)
  BY <1>2 DEF Slice
<1>4. Slice(s, f + c, d) = (s \div (F * C)) % D
  BY <1>2 DEF Slice
<1>5. x \in Nat
  <2> HIDE DEF F
  <2> QED BY <1>1, DivMod
<1>6. (s \div F) \div C = s \div (F * C)
  <2> HIDE DEF F, C
  <2> QED BY <1>1, DivDiv
<1>7. x % (C * D) = (x % C) + C * ((x \div C) % D)
  <2> HIDE DEF x, C, D
  <2> QED BY <1>1, <1>5, DivDiv
<1>8. Slice(s, f + c, d) = (x \div C) % D
  BY <1>4, <1>6
<1> HIDE DEF x, D
<1> QED BY <1>3, <1>7, <1>8

\* Masking takes the first bits of a run, shifting leaves the others.
LEMMA SliceCut ==
  ASSUME NEW s \in Nat, NEW f \in Nat, NEW c \in Nat, NEW b \in 0 .. c
  PROVE  /\ Slice(s, f, c) % 2 ^ b = Slice(s, f, b)
         /\ Slice(s, f, c) \div 2 ^ b = Slice(s, f + b, c - b)
<1> DEFINE B == 2 ^ b
           lo == Slice(s, f, b)
           hi == Slice(s, f + b, c - b)
           d == c - b
<1>1. b \in Nat /\ d \in Nat /\ b + d = c
  OBVIOUS
<1>2. B \in Nat \ {0}
  BY <1>1, PowType
<1>3. Slice(s, f, c) = lo + B * hi
  <2> HIDE DEF d
  <2>1. Slice(s, f, b + d) = Slice(s, f, b) + 2 ^ b * Slice(s, f + b, d)
    BY <1>1, SliceJoin
  <2> QED BY <1>1, <2>1 DEF d
<1>4. lo \in 0 .. B - 1
  BY <1>1, SliceType
<1>5. hi \in Nat
  <2> HIDE DEF d
  <2> DEFINE D == 2 ^ d
             h == Slice(s, f + b, d)
  <2>0. f + b \in Nat
    BY <1>1
  <2>1. h \in 0 .. D - 1 /\ D \in Nat
    BY <1>1, <2>0, SliceType, PowType
  <2> HIDE DEF D, h
  <2>2. h \in Nat
    BY <2>1
  <2> QED BY <2>2 DEF h, d
<1> HIDE DEF B, lo, hi
<1>6. lo + B * hi = B * hi + lo
  BY <1>2, <1>4, <1>5
<1>7. (B * hi + lo) \div B = hi /\ (B * hi + lo) % B = lo
  BY <1>2, <1>4, <1>5, DivModUnique
<1> QED BY <1>3, <1>6, <1>7 DEF B, lo, hi

\* A wider field holds more values.
LEMMA PowMono ==
  ASSUME NEW a \in Nat, NEW b \in Nat, a <= b
  PROVE  2 ^ a <= 2 ^ b
<1> DEFINE A == 2 ^ a
           d == b - a
<1>1. d \in Nat /\ b = a + d
  OBVIOUS
<1> HIDE DEF d
<1> DEFINE D == 2 ^ d
           B == 2 ^ b
<1>2. A \in Nat \ {0} /\ D \in Nat \ {0} /\ B \in Nat
  BY <1>1, PowType
<1>3. B = A * D
  BY <1>1, PowSum
<1> HIDE DEF A, D, B
<1>4. A <= A * D
  BY <1>2
<1> QED BY <1>3, <1>4 DEF A, B

\* Bits that fit the reservoir are not masked by its width.
LEMMA ReservoirFits ==
  ASSUME NEW x \in Nat, NEW a \in Nat, NEW b \in Nat, a <= b, x < 2 ^ a
  PROVE  x % 2 ^ b = x
<1> DEFINE A == 2 ^ a
           B == 2 ^ b
<1>1. A \in Nat /\ B \in Nat \ {0} /\ A <= B /\ x < A
  BY PowType, PowMono
<1> HIDE DEF A, B
<1>2. x \in 0 .. B - 1 /\ B * 0 + x = x
  BY <1>1
<1>3. (B * 0 + x) % B = x
  BY <1>1, <1>2, DivModUnique
<1> QED BY <1>2, <1>3 DEF B

(***************************************************************************)
(* The bit readers.                                                        *)
(***************************************************************************)

\* What a reader can hold.
ReaderRecord ==
  [pos : 0 .. len, reservoir : 0 .. ResMod - 1,
   available : 0 .. ByteBits * RefillBytes, consumed : Nat,
   loaded : Nat, fast : Nat, tail : Nat]

\* The fast reader's counters.
Counted(r) ==
  Fast => /\ r.loaded = r.pos
          /\ r.loaded = RefillBytes * r.fast + r.tail

\* The reservoir holds a candidate, or a sign bit, and the byte it ends in.
LEMMA ReaderConstants ==
  /\ ByteBits \in Nat \ {0} /\ RefillBytes \in Nat \ {0} /\ DrawBits \in Nat \ {0}
  /\ ByteBits * RefillBytes \in Nat
  /\ DrawBits + ByteBits - 1 <= ByteBits * RefillBytes
  /\ 1 + ByteBits - 1 <= ByteBits * RefillBytes
BY ReaderAssumption, PackedAssumption

\* A byte-wise load keeps the reservoir a run of the stream: no byte is lost
\* to the width of the reservoir, none overlaps the bits already there.
LEMMA PushedExact ==
  ASSUME stream \in Nat, len \in Nat, NEW r \in ReaderRecord, InSync(r, stream, len),
         NEW k \in Nat, r.available + ByteBits * k <= ByteBits * RefillBytes
  PROVE  /\ Pushed(r, stream, k) = Slice(stream, r.consumed, r.available + ByteBits * k)
         /\ Pushed(r, stream, k) \in 0 .. ResMod - 1
<1> DEFINE f == r.consumed
           c == r.available
           d == ByteBits * k
           w == ByteBits * RefillBytes
           C == 2 ^ c
           x == Slice(stream, f, c + d)
           W == 2 ^ w
<1>1. f \in Nat /\ c \in Nat /\ d \in Nat /\ w \in Nat /\ c + d \in Nat
  BY ReaderConstants DEF ReaderRecord
<1>2. f + c = ByteBits * r.pos /\ r.reservoir = Slice(stream, f, c)
  BY DEF InSync
<1>3. x = Slice(stream, f, c) + C * Slice(stream, f + c, d)
  <2> HIDE DEF f, c, d
  <2> QED BY <1>1, SliceJoin
<1>4. x \in Nat /\ x < 2 ^ (c + d)
  <2> HIDE DEF f, c, d
  <2> DEFINE E == 2 ^ (c + d)
  <2>1. x \in 0 .. E - 1 /\ E \in Nat
    BY <1>1, SliceType, PowType
  <2> HIDE DEF E, x
  <2>2. x \in Nat /\ x < E
    BY <2>1
  <2> QED BY <2>2 DEF E
<1>5. x % W = x
  <2>1. c + d <= w
    OBVIOUS
  <2> HIDE DEF c, d, w, x
  <2> QED BY <1>1, <1>4, <2>1, ReservoirFits
<1>6. W \in Nat \ {0}
  <2> HIDE DEF w
  <2> QED BY <1>1, PowType
<1>7. x % W \in 0 .. W - 1
  <2> HIDE DEF W, x
  <2> QED BY <1>4, <1>6, DivMod
<1>8. C \in Nat /\ Slice(stream, f + c, d) \in Nat
  <2> HIDE DEF f, c, d
  <2> DEFINE D == 2 ^ d
             h == Slice(stream, f + c, d)
  <2>1. f + c \in Nat
    BY <1>1
  <2>2. h \in 0 .. D - 1 /\ D \in Nat /\ C \in Nat
    BY <1>1, <2>1, SliceType, PowType
  <2> HIDE DEF D, h, C
  <2>3. h \in Nat /\ C \in Nat
    BY <2>2
  <2> QED BY <2>3 DEF h
<1>9. C * Slice(stream, f + c, d) = Slice(stream, f + c, d) * C
  <2> DEFINE h == Slice(stream, f + c, d)
  <2> HIDE DEF h, C
  <2>1. C * h = h * C
    BY <1>8 DEF h
  <2> QED BY <2>1 DEF h
<1>10. Pushed(r, stream, k) = (Slice(stream, f, c) + Slice(stream, f + c, d) * C) % W
  BY <1>2 DEF Pushed, ResMod
<1>11. Pushed(r, stream, k) = x % W
  BY <1>3, <1>9, <1>10
<1> QED BY <1>5, <1>7, <1>11 DEF ResMod

\* A byte-wise load stops as soon as it has what was asked for, and falls
\* short only at the end of the buffer.
LEMMA BytesToLoadExact ==
  ASSUME len \in Nat, NEW r \in ReaderRecord,
         NEW need \in Nat, need + ByteBits - 1 <= ByteBits * RefillBytes,
         NEW k, k = BytesToLoad(r, len, need)
  PROVE  /\ k \in Nat /\ r.pos + k <= len
         /\ r.available + ByteBits * k <= ByteBits * RefillBytes
         /\ r.available >= need => k = 0
         /\ r.available < need => r.available + ByteBits * k <= need + ByteBits - 1
         /\ r.available + ByteBits * k < need => r.pos + k = len
<1> DEFINE m == need - r.available + ByteBits - 1
           want == m \div ByteBits
           left == len - r.pos
           rem == m % ByteBits
<1>1. /\ ByteBits \in Nat \ {0} /\ r.available \in Nat /\ r.pos \in Nat
      /\ left \in Nat /\ ByteBits * RefillBytes \in Nat
      /\ r.available <= ByteBits * RefillBytes
  BY ReaderConstants DEF ReaderRecord
<1>2. CASE r.available >= need
  <2>1. k = 0
    BY <1>2 DEF BytesToLoad
  <2> QED BY <1>1, <1>2, <2>1
<1>3. CASE r.available < need
  <2>1. m \in Nat
    BY <1>1, <1>3
  <2>2. want \in Nat /\ rem \in 0 .. ByteBits - 1 /\ m = ByteBits * want + rem
    <3> HIDE DEF m
    <3> QED BY <1>1, <2>1, DivMod
  <2>3. ByteBits * want \in Nat
    BY <1>1, <2>2
  <2>4. k = IF want < left THEN want ELSE left
    BY <1>1, <1>3 DEF BytesToLoad
  <2> DEFINE Bw == ByteBits * want
             Bl == ByteBits * left
  <2>5. /\ need <= r.available + Bw
        /\ r.available + Bw <= need + ByteBits - 1
    <3> HIDE DEF want, rem
    <3> QED BY <1>1, <2>2, <2>3
  <2> HIDE DEF want, m, rem, left
  <2>6. CASE want < left
    <3>1. k = want
      BY <2>4, <2>6
    <3>2. r.pos + left = len
      BY <1>1 DEF left
    <3> QED BY <1>1, <1>3, <2>2, <2>5, <2>6, <3>1, <3>2
  <2>7. CASE want >= left
    <3>1. k = left
      BY <1>1, <2>2, <2>4, <2>7
    <3>2. Bl <= Bw /\ Bl \in Nat
      BY <1>1, <2>2, <2>7
    <3>3. r.pos + left = len
      BY <1>1 DEF left
    <3> QED BY <1>1, <1>3, <2>2, <2>3, <2>5, <3>1, <3>2, <3>3
  <2> QED BY <1>1, <2>2, <2>6, <2>7
<1> QED BY <1>1, <1>2, <1>3

\* The load that precedes a take.
Load(r, need) ==
  IF Fast THEN FastLoad(r, stream, len, need) ELSE SlowLoad(r, stream, len, need)

\* What is true of a reader at every moment.
Sound(r) == r \in ReaderRecord /\ InSync(r, stream, len) /\ Counted(r)

\* Whichever path a load takes, the reader stays sound, it has the bits asked
\* for unless the buffer ended, and the byte reader has less than a byte more.
LEMMA LoadExact ==
  ASSUME stream \in Nat, len \in Nat, NEW r, Sound(r),
         NEW need \in Nat, need + ByteBits - 1 <= ByteBits * RefillBytes,
         NEW q, q = Load(r, need)
  PROVE  /\ Sound(q)
         /\ q.consumed = r.consumed
         /\ q.available < need => q.pos = len
         /\ ~ Fast /\ r.available < ByteBits =>
              q.available < need \/ q.available - need < ByteBits
<1>1. /\ ByteBits \in Nat \ {0} /\ RefillBytes \in Nat \ {0}
      /\ ByteBits * RefillBytes \in Nat
      /\ r \in ReaderRecord /\ InSync(r, stream, len)
      /\ r.pos \in 0 .. len /\ r.consumed \in Nat /\ r.loaded \in Nat
      /\ r.available \in 0 .. ByteBits * RefillBytes
      /\ r.fast \in Nat /\ r.tail \in Nat
      /\ r.consumed + r.available = ByteBits * r.pos
  BY ReaderConstants DEF Sound, ReaderRecord, InSync
<1> DEFINE k == BytesToLoad(r, len, need)
           pushed == Pushed(r, stream, k)
           bits == ByteBits * k
<1>2. /\ k \in Nat /\ r.pos + k <= len
      /\ r.available + bits <= ByteBits * RefillBytes
      /\ r.available >= need => k = 0
      /\ r.available < need => r.available + bits <= need + ByteBits - 1
      /\ r.available + bits < need => r.pos + k = len
  BY <1>1, BytesToLoadExact
<1>3. /\ pushed = Slice(stream, r.consumed, r.available + bits)
      /\ pushed \in 0 .. ResMod - 1
  <2> HIDE DEF k
  <2> QED BY <1>1, <1>2, PushedExact
<1>4. bits \in Nat /\ ByteBits * (r.pos + k) = ByteBits * r.pos + bits
  <2> HIDE DEF k
  <2> QED BY <1>1, <1>2
<1> HIDE DEF pushed, k, bits
<1>5. CASE Fast /\ r.available >= need
  <2>1. q = r
    BY <1>5 DEF Load, FastLoad
  <2> QED BY <1>1, <1>5, <2>1
<1>6. CASE Fast /\ r.available < need /\ r.available = 0 /\ len - r.pos >= RefillBytes
  <2> DEFINE w == ByteBits * RefillBytes
             word == Slice(stream, ByteBits * r.pos, w)
  <2>1. q = [r EXCEPT !.pos = r.pos + RefillBytes, !.reservoir = word, !.available = w,
                      !.loaded = r.loaded + RefillBytes, !.fast = r.fast + 1]
    BY <1>1, <1>6 DEF Load, FastLoad
  <2>2. ByteBits * r.pos \in Nat /\ w \in Nat /\ r.consumed = ByteBits * r.pos
    BY <1>1, <1>6
  <2>3. word \in 0 .. ResMod - 1
    BY <2>2, SliceType DEF ResMod
  <2> DEFINE B0 == ByteBits * r.pos
             B1 == ByteBits * (r.pos + RefillBytes)
             L0 == RefillBytes * r.fast
             L1 == RefillBytes * (r.fast + 1)
  <2>4. B1 = B0 + w /\ L1 = L0 + RefillBytes /\ L0 \in Nat
    BY <1>1
  <2>5. /\ q.pos = r.pos + RefillBytes /\ q.reservoir = word /\ q.available = w
        /\ q.loaded = r.loaded + RefillBytes /\ q.fast = r.fast + 1
        /\ q.consumed = r.consumed /\ q.tail = r.tail
    BY <1>1, <2>1 DEF ReaderRecord
  <2>6. q \in ReaderRecord
    <3> HIDE DEF word
    <3>1. r.pos + RefillBytes \in 0 .. len /\ w \in 0 .. w
      BY <1>1, <1>6, <2>2
    <3>2. r.loaded + RefillBytes \in Nat /\ r.fast + 1 \in Nat
      BY <1>1
    <3> HIDE DEF w
    <3> QED BY <1>1, <2>1, <2>3, <3>1, <3>2 DEF ReaderRecord, w
  <2>7. InSync(q, stream, len)
    <3>1. q.consumed + q.available = ByteBits * q.pos
      <4> HIDE DEF B0, B1, L0, L1, w
      <4>1. r.consumed + w = B1
        BY <1>1, <2>2, <2>4 DEF B0
      <4> QED BY <2>5, <4>1 DEF B1, w
    <3>2. q.reservoir = Slice(stream, q.consumed, q.available)
      BY <2>2, <2>5
    <3>3. q.pos <= len
      BY <1>1, <1>6, <2>5
    <3> QED BY <3>1, <3>2, <3>3 DEF InSync
  <2>8. Counted(q)
    <3>1. r.loaded = r.pos /\ r.loaded = L0 + r.tail
      BY <1>6 DEF Sound, Counted
    <3> HIDE DEF L0, L1, w, B0, B1
    <3>2. q.loaded = q.pos
      BY <2>5, <3>1
    <3>3. q.loaded = L1 + q.tail
      BY <1>1, <2>4, <2>5, <3>1
    <3> QED BY <2>5, <3>2, <3>3 DEF Counted, L1
  <2>9. ~ (q.available < need)
    BY <1>1, <2>2, <2>5
  <2> QED BY <1>6, <2>5, <2>6, <2>7, <2>8, <2>9 DEF Sound
<1>7. CASE ~ Fast \/ (r.available < need /\ ~ (r.available = 0 /\ len - r.pos >= RefillBytes))
  <2>1. \/ /\ ~ Fast
           /\ q = [r EXCEPT !.pos = r.pos + k, !.reservoir = pushed,
                            !.available = r.available + bits]
        \/ /\ Fast
           /\ q = [r EXCEPT !.pos = r.pos + k, !.reservoir = pushed,
                            !.available = r.available + bits,
                            !.loaded = r.loaded + k, !.tail = r.tail + k]
    BY <1>1, <1>7 DEF Load, FastLoad, SlowLoad, k, pushed, bits
  <2>2. /\ q.pos = r.pos + k /\ q.reservoir = pushed /\ q.available = r.available + bits
        /\ q.consumed = r.consumed
    BY <1>1, <2>1 DEF ReaderRecord
  <2>3. q \in ReaderRecord
    <3> DEFINE w == ByteBits * RefillBytes
    <3>1. r.pos + k \in 0 .. len /\ r.available + bits \in 0 .. w
      BY <1>1, <1>2, <1>4
    <3>2. r.loaded + k \in Nat /\ r.tail + k \in Nat
      BY <1>1, <1>2
    <3> HIDE DEF w
    <3> QED BY <1>1, <1>3, <2>1, <3>1, <3>2 DEF ReaderRecord, w
  <2>4. InSync(q, stream, len)
    <3>1. r.consumed + (r.available + bits) = ByteBits * (r.pos + k)
      <4> DEFINE B0 == ByteBits * r.pos
                 B1 == ByteBits * (r.pos + k)
      <4>1. B1 = B0 + bits /\ r.consumed + r.available = B0
        BY <1>1, <1>4
      <4> HIDE DEF B0, B1
      <4>2. r.consumed + (r.available + bits) = B1
        BY <1>1, <1>4, <4>1
      <4> QED BY <4>2 DEF B1
    <3> QED BY <1>2, <1>3, <2>2, <3>1 DEF InSync
  <2>5. Counted(q)
    <3> SUFFICES ASSUME Fast
                 PROVE  q.loaded = q.pos /\ q.loaded = RefillBytes * q.fast + q.tail
      BY DEF Counted
    <3> DEFINE L0 == RefillBytes * r.fast
    <3>1. /\ q.loaded = r.loaded + k /\ q.tail = r.tail + k /\ q.fast = r.fast
      BY <1>1, <2>1 DEF ReaderRecord
    <3>2. r.loaded = r.pos /\ r.loaded = L0 + r.tail /\ L0 \in Nat
      BY <1>1 DEF Sound, Counted
    <3> HIDE DEF L0
    <3>3. q.loaded = L0 + q.tail /\ q.loaded = q.pos
      BY <1>1, <1>2, <2>2, <3>1, <3>2
    <3> QED BY <3>1, <3>3 DEF L0
  <2>6. q.available < need => q.pos = len
    BY <1>2, <2>2
  <2>7. ~ Fast /\ r.available < ByteBits =>
          q.available < need \/ q.available - need < ByteBits
    <3>1. CASE r.available >= need
      <4>1. bits = 0
        BY <1>1, <1>2, <3>1 DEF bits
      <4> QED BY <1>1, <2>2, <3>1, <4>1
    <3>2. CASE r.available < need
      BY <1>1, <1>2, <1>4, <2>2, <3>2
    <3> QED BY <1>1, <3>1, <3>2
  <2> QED BY <2>2, <2>3, <2>4, <2>5, <2>6, <2>7 DEF Sound
<1>8. r.available >= need \/ r.available < need
  BY <1>1
<1> QED BY <1>5, <1>6, <1>7, <1>8

\* A take returns the next bits of the stream and advances by them, or fails
\* because fewer are left and consumes none.
LEMMA TakeExact ==
  ASSUME stream \in Nat, len \in Nat, NEW r, Sound(r),
         NEW bits \in Nat \ {0}, bits + ByteBits - 1 <= ByteBits * RefillBytes,
         NEW t, t = IF Fast THEN FastTake(r, stream, len, bits)
                            ELSE SlowTake(r, stream, len, bits)
  PROVE  /\ Sound(t.reader)
         /\ t.rc = 0 => /\ r.consumed + bits <= ByteBits * len
                        /\ t.value = Slice(stream, r.consumed, bits)
                        /\ t.reader.consumed = r.consumed + bits
                        /\ ~ Fast /\ r.available < ByteBits =>
                             t.reader.available < ByteBits
         /\ t.rc # 0 => /\ r.consumed + bits > ByteBits * len
                        /\ t.reader.consumed = r.consumed
<1> DEFINE q == Load(r, bits)
           total == ByteBits * len
<1>1. /\ Sound(q) /\ q.consumed = r.consumed
      /\ q.available < bits => q.pos = len
      /\ ~ Fast /\ r.available < ByteBits =>
           q.available < bits \/ q.available - bits < ByteBits
  BY LoadExact
<1>2. t = TakeFrom(q, bits)
  BY DEF Load, FastTake, SlowTake
<1> HIDE DEF q
<1>3. /\ q \in ReaderRecord /\ InSync(q, stream, len) /\ Counted(q)
      /\ q.pos \in Nat /\ q.pos <= len /\ q.consumed \in Nat /\ q.available \in Nat
      /\ q.available <= ByteBits * RefillBytes
      /\ ByteBits * RefillBytes \in Nat /\ ByteBits \in Nat
      /\ q.consumed + q.available = ByteBits * q.pos
      /\ q.reservoir = Slice(stream, q.consumed, q.available)
      /\ q.reservoir \in 0 .. ResMod - 1
  BY <1>1, ReaderConstants DEF Sound, ReaderRecord, InSync
<1>4. ByteBits * q.pos <= total
  BY <1>3
<1>5. CASE q.available < bits
  <2>1. t = [rc |-> -2, value |-> 0, reader |-> q]
    BY <1>2, <1>5 DEF TakeFrom
  <2>2. q.consumed + q.available = total
    BY <1>1, <1>3, <1>5
  <2> HIDE DEF total
  <2>3. r.consumed + bits > total
    BY <1>1, <1>3, <1>5, <2>2
  <2> QED BY <1>1, <2>1, <2>3 DEF total
<1>6. CASE q.available >= bits
  <2> DEFINE P == 2 ^ bits
             low == q.reservoir % P
             high == q.reservoir \div P
             u == [q EXCEPT !.reservoir = high, !.available = q.available - bits,
                            !.consumed = q.consumed + bits]
  <2>1. t = [rc |-> 0, value |-> low, reader |-> u]
    <3>1. ~ (q.available < bits)
      BY <1>3, <1>6
    <3> QED BY <1>2, <3>1 DEF TakeFrom
  <2>2. /\ low = Slice(stream, q.consumed, bits)
        /\ high = Slice(stream, q.consumed + bits, q.available - bits)
    <3>1. bits \in 0 .. q.available
      BY <1>3, <1>6
    <3> QED BY <1>3, <3>1, SliceCut
  <2>3. high \in 0 .. ResMod - 1
    <3>1. P \in Nat \ {0}
      BY PowType
    <3> HIDE DEF P
    <3> DEFINE x == q.reservoir
    <3>2. x \in Nat /\ x <= ResMod - 1 /\ ResMod \in Int
      <4>1. ResMod \in Nat
        BY <1>3, PowType DEF ResMod
      <4> QED BY <1>3, <4>1
    <3> HIDE DEF x
    <3>3. x \div P \in 0 .. x
      BY <3>1, <3>2, DivAtMost
    <3> QED BY <3>2, <3>3 DEF x
  <2> HIDE DEF low, high, P
  <2>4. /\ u.pos = q.pos /\ u.reservoir = high /\ u.available = q.available - bits
        /\ u.consumed = q.consumed + bits /\ u.loaded = q.loaded
        /\ u.fast = q.fast /\ u.tail = q.tail
    BY <1>3 DEF ReaderRecord
  <2>5. u \in ReaderRecord
    <3> DEFINE w == ByteBits * RefillBytes
    <3>1. q.available - bits \in 0 .. w /\ q.consumed + bits \in Nat
      BY <1>3, <1>6
    <3> HIDE DEF w
    <3> QED BY <1>3, <2>3, <3>1 DEF ReaderRecord, w
  <2>6. InSync(u, stream, len)
    <3> DEFINE B0 == ByteBits * q.pos
    <3>1. q.consumed + q.available = B0
      BY <1>3
    <3> HIDE DEF B0
    <3>2. u.consumed + u.available = B0
      BY <1>3, <1>6, <2>4, <3>1
    <3> QED BY <1>3, <2>2, <2>4, <3>2 DEF InSync, B0
  <2>7. Counted(u)
    BY <1>3, <2>4 DEF Counted
  <2>8. q.consumed + bits <= total
    <3> DEFINE B0 == ByteBits * q.pos
    <3>1. q.consumed + q.available = B0 /\ B0 <= total
      BY <1>3, <1>4
    <3>2. total \in Nat /\ B0 \in Nat
      BY <1>3
    <3> HIDE DEF B0, total
    <3> QED BY <1>3, <1>6, <3>1, <3>2
  <2>9. ~ Fast /\ r.available < ByteBits => u.available < ByteBits
    BY <1>1, <1>3, <1>6, <2>4
  <2> HIDE DEF u, total
  <2>10. Sound(t.reader)
    BY <2>1, <2>5, <2>6, <2>7 DEF Sound
  <2>11. t.rc = 0 /\ t.value = low /\ t.reader = u
    BY <2>1
  <2>12. u.consumed = r.consumed + bits /\ r.consumed + bits <= total
    BY <1>1, <2>4, <2>8
  <2> QED BY <1>1, <2>2, <2>9, <2>10, <2>11, <2>12 DEF total
<1> QED BY <1>3, <1>5, <1>6

(***************************************************************************)
(* The reader of a call.                                                   *)
(***************************************************************************)

\* The parameters of the call.
CallOK ==
  /\ frontend \in {"fast_scalar", "fast_batch", "slow_scalar", "slow_batch"}
  /\ wantStats \in BOOLEAN
  /\ n \in 0 .. MaxN /\ len \in 0 .. MaxBytes /\ stream \in Nat

\* The byte reader holds back less than a byte.
Level == ~ Fast /\ ~ Finished(-2) => reader.available < ByteBits

ReaderInv == CallOK /\ Sound(reader) /\ Level

\* What a take of `bits` bits returned.
Took(bits, t) ==
  /\ Sound(t.reader)
  /\ t.rc = 0 => /\ reader.consumed + bits <= ByteBits * len
                 /\ t.value = Slice(stream, reader.consumed, bits)
                 /\ t.reader.consumed = reader.consumed + bits
                 /\ ~ Fast => t.reader.available < ByteBits
  /\ t.rc # 0 => /\ reader.consumed + bits > ByteBits * len
                 /\ t.reader.consumed = reader.consumed

\* Both takes of the samplers are within the reach of TakeExact.
LEMMA TakeTook ==
  ASSUME ReaderInv, pc # "done"
  PROVE  /\ Took(DrawBits, Take(DrawBits))
         /\ Took(1, Take(1))
<1>1. /\ stream \in Nat /\ len \in Nat /\ Sound(reader)
      /\ ~ Fast => reader.available < ByteBits
  BY PackedAssumption DEF ReaderInv, CallOK, Level, Finished
<1>2. ASSUME NEW bits \in Nat \ {0}, bits + ByteBits - 1 <= ByteBits * RefillBytes
      PROVE  Took(bits, Take(bits))
  <2> DEFINE t == Take(bits)
  <2>1. t = IF Fast THEN FastTake(reader, stream, len, bits)
                    ELSE SlowTake(reader, stream, len, bits)
    BY DEF Take
  <2> HIDE DEF t
  <2>2. /\ Sound(t.reader)
        /\ t.rc = 0 => /\ reader.consumed + bits <= ByteBits * len
                       /\ t.value = Slice(stream, reader.consumed, bits)
                       /\ t.reader.consumed = reader.consumed + bits
                       /\ ~ Fast /\ reader.available < ByteBits =>
                             t.reader.available < ByteBits
        /\ t.rc # 0 => /\ reader.consumed + bits > ByteBits * len
                       /\ t.reader.consumed = reader.consumed
    BY <1>1, <1>2, <2>1, TakeExact
  <2>3. Took(bits, t)
    BY <1>1, <2>2 DEF Took
  <2> QED BY <2>3 DEF t
<1> QED BY <1>2, ReaderConstants

\* DrawCandidate and DrawSign as what they do with the take they performed.
CandidateDrawn(t) ==
  LET keep == AcceptCandidate(t.value) IN
  /\ Took(DrawBits, t) /\ reader' = t.reader
  /\ t.rc # 0 => Dry(t.reader) /\ UNCHANGED <<cand, half, pos>>
  /\ t.rc = 0 =>
       /\ Count([st EXCEPT !.attempts = @ + 1, !.random_bits = @ + DrawBits,
                           !.rejections = @ + (IF keep THEN 0 ELSE 1)])
       /\ cand' = IF keep THEN t.value ELSE cand
       /\ half' = keep
       /\ pos' = IF keep THEN pos ELSE pos + 1
       /\ pc' = IF keep THEN "sign" ELSE "draw"
       /\ rc' = rc

SignDrawn(t) ==
  /\ Took(1, t) /\ reader' = t.reader
  /\ t.rc # 0 => Dry(t.reader) /\ UNCHANGED <<lane, half, pos, from>>
  /\ t.rc = 0 =>
       /\ lane' = Append(lane, <<cand, t.value>>)
       /\ half' = FALSE
       /\ pos' = pos + 1 /\ from' = Append(from, pos + 1)
       /\ pc' = (IF Len(lane) + 1 = Batch THEN "map" ELSE "draw")
       /\ rc' = rc
       /\ Count([st EXCEPT !.random_bits = @ + 1])

LEMMA DrawCandidateTook ==
  ASSUME ReaderInv, DrawCandidate
  PROVE  \E t : CandidateDrawn(t)
<1> DEFINE t == Take(DrawBits)
<1>1. Took(DrawBits, t)
  BY TakeTook DEF DrawCandidate
<1>2. CandidateDrawn(t)
  BY <1>1 DEF DrawCandidate, CandidateDrawn
<1> HIDE DEF t
<1> QED BY <1>2

LEMMA DrawSignTook ==
  ASSUME ReaderInv, DrawSign
  PROVE  \E t : SignDrawn(t)
<1> DEFINE t == Take(1)
<1>1. Took(1, t)
  BY TakeTook DEF DrawSign
<1>2. SignDrawn(t)
  BY <1>1 DEF DrawSign, SignDrawn
<1> HIDE DEF t
<1> QED BY <1>2

\* The call is fixed, so a sound reader stored in the state is sound in it.
LEMMA SoundStays ==
  ASSUME UNCHANGED call, NEW r, Sound(r), reader' = r
  PROVE  Sound(reader)'
<1>1. /\ frontend' = frontend /\ len' = len /\ stream' = stream
  BY DEF call
<1>2. Fast' = Fast
  BY <1>1 DEF Fast
<1> QED BY <1>1, <1>2 DEF Sound, ReaderRecord, Counted, InSync

\* A new reader is sound.
LEMMA InitReader == Init => ReaderInv
<1> SUFFICES ASSUME Init PROVE ReaderInv
  OBVIOUS
<1>1. CallOK
  <2>1. len \in Nat /\ ByteBits * len \in Nat
    BY PackedAssumption, ReaderConstants DEF Init
  <2> DEFINE E == 2 ^ (ByteBits * len)
  <2>2. E \in Nat
    BY <2>1, PowType
  <2>3. stream \in 0 .. E - 1
    BY DEF Init
  <2> HIDE DEF E
  <2>4. stream \in Nat
    BY <2>2, <2>3
  <2> QED BY <2>4 DEF Init, CallOK
<1>2. Sound(reader) /\ reader.available < ByteBits
  <2> DEFINE w == ByteBits * RefillBytes
             W == 2 ^ w
  <2>1. w \in Nat
    BY ReaderConstants
  <2>2. W \in Nat \ {0}
    BY <2>1, PowType
  <2> HIDE DEF w
  <2>3. ResMod = W
    BY DEF ResMod, w
  <2> HIDE DEF W
  <2>4. 0 \in 0 .. ResMod - 1 /\ 0 \in 0 .. w /\ 0 \in 0 .. len
    BY <1>1, <2>1, <2>2, <2>3, PackedAssumption DEF CallOK
  <2>5. reader = [pos |-> 0, reservoir |-> 0, available |-> 0, consumed |-> 0,
                  loaded |-> 0, fast |-> 0, tail |-> 0]
    BY DEF Init, NewReader
  <2>6. reader \in ReaderRecord
    BY <2>4, <2>5 DEF ReaderRecord, w
  <2>7. InSync(reader, stream, len)
    <3>1. Slice(stream, 0, 0) = 0
      BY <1>1, SliceEmpty DEF CallOK
    <3>2. ByteBits * 0 = 0 /\ 0 <= len
      BY <2>4, ReaderConstants
    <3> QED BY <2>5, <3>1, <3>2 DEF InSync
  <2>8. Counted(reader)
    BY <2>5, ReaderConstants DEF Counted
  <2> QED BY <2>5, <2>6, <2>7, <2>8, ReaderConstants DEF Sound
<1> QED BY <1>1, <1>2 DEF ReaderInv, Level

\* The reader is sound at every moment, whoever took from it and however the
\* takes ended.
LEMMA ReaderInvariant == Spec => []ReaderInv
<1>1. Init => ReaderInv
  BY InitReader
<1>2. ReaderInv /\ [Next]_vars => ReaderInv'
  <2> SUFFICES ASSUME ReaderInv, [Next]_vars PROVE ReaderInv'
    OBVIOUS
  <2>0. /\ UNCHANGED call /\ CallOK'
    <3>1. UNCHANGED call
      BY DEF Next, vars, Start, DrawCandidate, DrawSign, MapLanes, Finish
    <3> QED BY <3>1 DEF ReaderInv, CallOK, call
  <2>1. Fast' = Fast
    BY <2>0 DEF call, Fast
  <2>2. CASE DrawCandidate
    <3>1. PICK t : /\ Took(DrawBits, t) /\ reader' = t.reader
                   /\ t.rc # 0 => Dry(t.reader)
      BY <2>2, DrawCandidateTook DEF CandidateDrawn
    <3>2. Sound(reader)'
      BY <2>0, <3>1, SoundStays DEF Took
    <3>3. Level'
      BY <2>1, <3>1 DEF Took, Level, Finished, Dry
    <3> QED BY <2>0, <3>2, <3>3 DEF ReaderInv
  <2>3. CASE DrawSign
    <3>1. PICK t : /\ Took(1, t) /\ reader' = t.reader
                   /\ t.rc # 0 => Dry(t.reader)
      BY <2>3, DrawSignTook DEF SignDrawn
    <3>2. Sound(reader)'
      BY <2>0, <3>1, SoundStays DEF Took
    <3>3. Level'
      BY <2>1, <3>1 DEF Took, Level, Finished, Dry
    <3> QED BY <2>0, <3>2, <3>3 DEF ReaderInv
  <2>4. CASE Start \/ MapLanes \/ Finish \/ UNCHANGED vars
    <3>1. reader' = reader /\ (Finished(-2) => Finished(-2)')
      BY <2>4 DEF Start, MapLanes, Finish, vars, Finished
    <3>2. Sound(reader)'
      BY <2>0, <3>1, SoundStays DEF ReaderInv
    <3>3. Level'
      BY <2>1, <3>1 DEF Level, ReaderInv
    <3> QED BY <2>0, <3>2, <3>3 DEF ReaderInv
  <2> QED BY <2>2, <2>3, <2>4 DEF Next
<1> QED BY <1>1, <1>2, PTL DEF Spec

\* Neither reader of online/common ever skips, repeats or reorders a bit, for
\* every byte width, refill width and stream: across word refills, byte-wise
\* refills and failed takes the reservoir holds exactly the bits that follow
\* the consumed ones; the fast reader counts the bytes it loads, and the byte
\* reader holds back less than a byte nobody asked for.
THEOREM ReaderStaysInSync == Spec => []ReaderInSync
<1>1. ReaderInv => ReaderInSync
  BY DEF ReaderInv, ReaderInSync, Sound, Counted, Level
<1> QED BY <1>1, ReaderInvariant, PTL

(***************************************************************************)
(* Type correctness.                                                       *)
(***************************************************************************)

\* What holds of every implementation of bounded rejection sampling, under the
\* substitution of this one.
Promise == INSTANCE RejectionSampling_proofs WITH
  Draw <- (0 .. CandMod - 1) \X {0, 1}, Accept <- DrawAccepted, Image <- DrawImage,
  draws <- Draws, status <- Status,
  result <- IF Finished(0) THEN [i \in 1 .. n |-> out[i]] ELSE <<>>

\* A mapped sample is again a word.
LEMMA MapType == \A c, s : MapParts(c, s) \in Word
<1> SUFFICES ASSUME NEW c, NEW s PROVE MapParts(c, s) \in Word
  OBVIOUS
<1>1. /\ WordMod \in Nat \ {0}
      /\ Len(Thresholds) \in Nat /\ Len(Thresholds) < WordMod
      /\ DOMAIN Thresholds = 1 .. Len(Thresholds)
  BY ProfileAssumption
<1>2. Ge(c) \in 0 .. Len(Thresholds)
  <2> DEFINE S == {i \in DOMAIN Thresholds : c >= Thresholds[i]}
  <2>1. S \subseteq 1 .. Len(Thresholds)
    BY <1>1
  <2> HIDE DEF S
  <2>2. Cardinality(S) \in 0 .. Len(Thresholds)
    BY <1>1, <2>1, Promise!CountBound DEF Cardinality, Promise!Cardinality
  <2> QED BY <2>2 DEF S, Ge
<1>3. ((WordMod - 1 - Ge(c)) + 1) \in Nat /\ Ge(c) \in Word
  BY <1>1, <1>2 DEF Word
<1>4. ((WordMod - 1 - Ge(c)) + 1) % WordMod \in 0 .. WordMod - 1
  BY <1>1, <1>3
<1> QED BY <1>3, <1>4 DEF MapParts, ApplySign, Word

\* Where the call stands: what each pc implies of the batch and the request.
PhaseInv ==
  /\ pc \in {"draw", "sign"} /\ done < n => Len(lane) < Batch
  /\ pc \in {"sign", "map"} => done < n
  /\ pc = "map" => Len(lane) = Batch
  /\ done >= n => lane = <<>>
  /\ pc = "sign" => half
  /\ half => pc = "sign" \/ Finished(-2)
  /\ pc = "start" => done = 0 /\ lane = <<>> /\ reader = NewReader
  /\ pc # "done" => rc = 0
  /\ Finished(0) => done = n
  /\ Batched => done % Lanes = 0 \/ done = n

\* The type of the statistics.
StInv == st \in [attempts : Nat, rejections : Nat, random_bytes : Nat, random_bits : Nat]

ShapeInv == ReaderInv /\ TypeOK /\ PhaseInv

\* A batch never passes the request, and is a full vector unless it ends it.
LEMMA BatchBound ==
  ASSUME CallOK, done \in 0 .. n
  PROVE  /\ Batch \in Nat
         /\ done < n => Batch >= 1 /\ done + Batch <= n
         /\ Batched /\ done < n => Batch = Lanes \/ done + Batch = n
  BY PackedAssumption DEF CallOK, Batch

\* The batch is fixed until its samples are stored.
LEMMA BatchStays ==
  ASSUME UNCHANGED call, UNCHANGED done
  PROVE  Batch' = Batch
  BY DEF call, Batch, Batched

\* What a take of a candidate or of a sign can yield.
LEMMA CandidateType ==
  ASSUME CallOK, NEW f \in Nat
  PROVE  /\ Slice(stream, f, DrawBits) \in 0 .. CandMod - 1
         /\ Slice(stream, f, 1) \in {0, 1}
<1>1. stream \in Nat /\ DrawBits \in Nat /\ CandMod = 2 ^ DrawBits
  BY PackedAssumption DEF CallOK
<1>2. Slice(stream, f, DrawBits) \in 0 .. 2 ^ DrawBits - 1
  BY <1>1, SliceType
<1>3. Slice(stream, f, 1) \in 0 .. 2 ^ 1 - 1
  BY <1>1, SliceType
<1>4. 2 ^ 1 = 2
  <2>1. 2 ^ (0 + 1) = 2 * 2 ^ 0
    BY PowStep
  <2> QED BY <2>1, PowZero
<1> QED BY <1>1, <1>2, <1>3, <1>4

\* Running dry leaves the statistics well-typed.
LEMMA DrySt ==
  ASSUME StInv, NEW r, r.pos \in Nat, Dry(r)
  PROVE  StInv'
BY DEF StInv, Dry, Count

\* Every call starts well-formed.
LEMMA InitShape == Init => TypeOK /\ PhaseInv
<1> SUFFICES ASSUME Init PROVE TypeOK /\ PhaseInv
  OBVIOUS
<1>1. ReaderInv
  BY InitReader
<1>2. n \in Nat /\ MaxN \in Nat /\ Lanes \in Nat \ {0} /\ Poison \in Word
  BY PackedAssumption DEF Init
<1>3. reader \in [pos : 0 .. len, reservoir : 0 .. ResMod - 1,
                 available : 0 .. ByteBits * RefillBytes, consumed : Nat,
                 loaded : Nat, fast : Nat, tail : Nat]
  BY <1>1 DEF ReaderInv, Sound, ReaderRecord
<1>4. Batch \in Nat /\ (done < n => Batch >= 1)
  BY <1>1, <1>2, BatchBound DEF ReaderInv, Init
<1>5. lane \in Seq((0 .. Q - 1) \X {0, 1}) /\ Len(lane) = 0
  BY DEF Init
<1>6. 0 \in 0 .. Q - 1
  BY ProfileAssumption
<1>7. st \in [attempts : Nat, rejections : Nat, random_bytes : Nat, random_bits : Nat]
  BY DEF Init, StaleStats
<1>11. out \in [1 .. MaxN + 1 -> Word]
  BY <1>2 DEF Init
<1>12. done \in 0 .. n /\ Len(lane) <= Batch /\ cand \in 0 .. Q - 1 /\ half \in BOOLEAN
  <2>1. done = 0 /\ cand = 0
    BY DEF Init
  <2>2. half \in BOOLEAN
    BY Zenon DEF Init
  <2> QED BY <1>2, <1>4, <1>5, <1>6, <2>1, <2>2
<1>8. TypeOK
  BY <1>3, <1>5, <1>7, <1>11, <1>12 DEF Init, TypeOK
<1>9. done % Lanes = 0
  <2>1. Lanes * 0 + 0 = 0 /\ 0 \in 0 .. Lanes - 1
    BY <1>2
  <2>2. (Lanes * 0 + 0) % Lanes = 0
    BY <1>2, <2>1, DivModUnique
  <2> QED BY <2>1, <2>2 DEF Init
<1>10. PhaseInv
  BY <1>2, <1>4, <1>5, <1>9 DEF Init, PhaseInv, Finished
<1> QED BY <1>8, <1>10

\* Drawing a candidate keeps the shape.
LEMMA CandidateShape ==
  ASSUME ShapeInv, DrawCandidate, CallOK', Sound(reader)'
  PROVE  TypeOK' /\ PhaseInv'
<1>1. PICK t : CandidateDrawn(t)
  BY DrawCandidateTook DEF ShapeInv
<1> USE DEF CandidateDrawn
<1>2. /\ pc = "draw" /\ done < n /\ UNCHANGED <<call, out, done, lane, from>>
      /\ UNCHANGED <<frontend, wantStats, n, len, stream>>
  BY DEF DrawCandidate, call
<1>3. Batch' = Batch /\ Batched' = Batched
  BY <1>2, BatchStays DEF Batched
<1>4. reader' \in ReaderRecord' /\ t.reader.pos \in Nat
  BY <1>1 DEF Sound, ReaderRecord, CallOK
<1>5. CASE t.rc # 0
  <2>1. pc' = "done" /\ rc' = -2 /\ UNCHANGED <<cand, half, pos>>
    BY <1>1, <1>5 DEF Dry
  <2>2. StInv'
    BY <1>1, <1>4, <1>5, DrySt DEF StInv, ShapeInv, TypeOK
  <2>3. TypeOK'
    BY <1>2, <1>3, <1>4, <2>1, <2>2 DEF ShapeInv, TypeOK, StInv, ReaderRecord
  <2>4. PhaseInv'
    BY <1>2, <1>3, <2>1 DEF ShapeInv, PhaseInv, Finished
  <2> QED BY <2>3, <2>4
<1>6. CASE t.rc = 0
  <2>1. t.value \in 0 .. CandMod - 1
    <3>1. t.value = Slice(stream, reader.consumed, DrawBits)
      BY <1>1, <1>6 DEF Took
    <3>2. CallOK /\ reader.consumed \in Nat
      BY DEF ShapeInv, ReaderInv, TypeOK
    <3> QED BY <3>1, <3>2, CandidateType
  <2>2. cand' \in 0 .. Q - 1
    <3>1. cand \in 0 .. Q - 1 /\ Q \in Nat /\ CandMod \in Nat
      BY ProfileAssumption DEF ShapeInv, TypeOK
    <3>2. cand' = cand \/ (cand' = t.value /\ t.value < Q)
      BY <1>1, <1>6 DEF AcceptCandidate
    <3> QED BY <2>1, <3>1, <3>2
  <2>3. StInv'
    <3>1. Count([st EXCEPT !.attempts = @ + 1, !.random_bits = @ + DrawBits,
                           !.rejections = @ + (IF AcceptCandidate(t.value) THEN 0 ELSE 1)])
      BY <1>1, <1>6
    <3>2. st.rejections + (IF AcceptCandidate(t.value) THEN 0 ELSE 1) \in Nat
      BY DEF ShapeInv, TypeOK
    <3>3. st.attempts + 1 \in Nat /\ st.random_bits + DrawBits \in Nat
      <4>1. st.attempts \in Nat /\ st.random_bits \in Nat
        BY DEF ShapeInv, TypeOK
      <4> QED BY <4>1, ReaderConstants
    <3> QED BY <3>1, <3>2, <3>3, Zenon DEF Count, StInv, ShapeInv, TypeOK
  <2>4. half' \in BOOLEAN /\ (half' <=> AcceptCandidate(t.value))
    <3>1. half' = AcceptCandidate(t.value)
      BY <1>1, <1>6
    <3>2. AcceptCandidate(t.value) \in BOOLEAN
      BY DEF AcceptCandidate
    <3> QED BY <3>1, <3>2, Zenon
  <2>5. /\ pc' = IF half' THEN "sign" ELSE "draw"
        /\ rc' = rc
    BY <1>1, <1>6, <2>4
  <2>6. TypeOK'
    BY <1>2, <1>3, <1>4, <2>2, <2>3, <2>4, <2>5 DEF ShapeInv, TypeOK, StInv, ReaderRecord
  <2>7. PhaseInv'
    BY <1>2, <1>3, <2>4, <2>5 DEF ShapeInv, PhaseInv, Finished
  <2> QED BY <2>6, <2>7
<1> QED BY <1>5, <1>6

\* Drawing a sign keeps the shape: the lane that completes the batch is its
\* last one.
LEMMA SignShape ==
  ASSUME ShapeInv, DrawSign, CallOK', Sound(reader)'
  PROVE  TypeOK' /\ PhaseInv'
<1>1. PICK t : SignDrawn(t)
  BY DrawSignTook DEF ShapeInv
<1> USE DEF SignDrawn
<1>2. /\ pc = "sign" /\ UNCHANGED <<call, out, done, cand>>
      /\ UNCHANGED <<frontend, wantStats, n, len, stream>>
  BY DEF DrawSign, call
<1>3. /\ Batch' = Batch /\ Batched' = Batched /\ Batch \in Nat
      /\ done < n /\ Len(lane) < Batch
  BY <1>2, BatchStays, BatchBound DEF Batched, ShapeInv, PhaseInv, ReaderInv, TypeOK
<1>4. reader' \in ReaderRecord' /\ t.reader.pos \in Nat
  BY <1>1 DEF Sound, ReaderRecord, CallOK
<1>5. CASE t.rc # 0
  <2>1. pc' = "done" /\ rc' = -2 /\ UNCHANGED <<lane, half, pos>>
    BY <1>1, <1>5 DEF Dry
  <2>2. StInv'
    BY <1>1, <1>4, <1>5, DrySt DEF StInv, ShapeInv, TypeOK
  <2>3. TypeOK'
    BY <1>2, <1>3, <1>4, <2>1, <2>2 DEF ShapeInv, TypeOK, StInv, ReaderRecord
  <2>4. PhaseInv'
    BY <1>2, <1>3, <2>1 DEF ShapeInv, PhaseInv, Finished
  <2> QED BY <2>3, <2>4
<1>6. CASE t.rc = 0
  <2>1. t.value \in {0, 1}
    <3>1. t.value = Slice(stream, reader.consumed, 1)
      BY <1>1, <1>6 DEF Took
    <3>2. CallOK /\ reader.consumed \in Nat
      BY DEF ShapeInv, ReaderInv, TypeOK
    <3> QED BY <3>1, <3>2, CandidateType
  <2>2. lane' \in Seq((0 .. Q - 1) \X {0, 1}) /\ Len(lane') = Len(lane) + 1
    <3> DEFINE D == (0 .. Q - 1) \X {0, 1}
    <3>1. lane \in Seq(D) /\ <<cand, t.value>> \in D
      BY <2>1 DEF ShapeInv, TypeOK
    <3>2. lane' = Append(lane, <<cand, t.value>>)
      BY <1>1, <1>6
    <3> HIDE DEF D
    <3>3. lane' \in Seq(D) /\ Len(lane') = Len(lane) + 1
      BY <3>1, <3>2
    <3> QED BY <3>3 DEF D
  <2>3. Len(lane) \in Nat
    BY DEF ShapeInv, TypeOK
  <2>4. StInv'
    <3>1. st.random_bits + 1 \in Nat
      BY DEF ShapeInv, TypeOK
    <3>2. Count([st EXCEPT !.random_bits = @ + 1])
      BY <1>1, <1>6
    <3> QED BY <3>1, <3>2, Zenon DEF Count, StInv, ShapeInv, TypeOK
  <2>5. /\ half' = FALSE /\ rc' = rc
        /\ pc' = IF Len(lane) + 1 = Batch THEN "map" ELSE "draw"
    BY <1>1, <1>6
  <2>6. Len(lane') <= Batch /\ (pc' = "map" => Len(lane') = Batch)
        /\ (pc' = "draw" => Len(lane') < Batch)
    BY <1>3, <2>2, <2>3, <2>5
  <2>7. TypeOK'
    BY <1>2, <1>3, <1>4, <2>2, <2>4, <2>5, <2>6
       DEF ShapeInv, TypeOK, StInv, ReaderRecord
  <2>8. done \in Nat /\ n \in Nat
    BY DEF ShapeInv, TypeOK
  <2>9. PhaseInv'
    BY <1>2, <1>3, <2>5, <2>6, <2>8 DEF ShapeInv, PhaseInv, Finished
  <2> QED BY <2>7, <2>9
<1> QED BY <1>5, <1>6

\* Storing a batch keeps the shape: the samples end at a vector boundary or at
\* the end of the request.
LEMMA MapShape ==
  ASSUME ShapeInv, MapLanes
  PROVE  TypeOK' /\ PhaseInv'
<1>1. /\ pc = "map" /\ done' = done + Len(lane) /\ lane' = <<>> /\ pc' = "draw"
      /\ UNCHANGED <<call, reader, cand, half, rc>>
      /\ UNCHANGED <<frontend, wantStats, n, len, stream>>
      /\ Batched' = Batched
  BY DEF MapLanes, call, Batched
<1>2. /\ done < n /\ Len(lane) = Batch /\ done \in 0 .. n /\ n \in Nat
      /\ Batch \in Nat /\ Batch >= 1 /\ done + Batch <= n
      /\ (Batched => Batch = Lanes \/ done + Batch = n)
  BY <1>1, BatchBound DEF ShapeInv, PhaseInv, ReaderInv, CallOK, TypeOK
<1>3. done' \in 0 .. n' /\ CallOK'
  BY <1>1, <1>2 DEF ShapeInv, ReaderInv, CallOK
<1>4. Batch' \in Nat /\ (done' < n' => Batch' >= 1)
  <2>1. CallOK' /\ (done \in 0 .. n)' => (Batch \in Nat /\ (done < n => Batch >= 1))'
    BY BatchBound, PTL
  <2> QED BY <1>3, <2>1
<1>5. out' \in [1 .. MaxN + 1 -> Word]
  BY MapType DEF MapLanes, ShapeInv, TypeOK
<1>6. StInv'
  <2>1. reader.pos \in Nat
    BY DEF ShapeInv, ReaderInv, Sound, ReaderRecord, CallOK
  <2> QED BY <2>1 DEF MapLanes, Count, ShapeInv, TypeOK, StInv
<1>7. lane' \in Seq((0 .. Q - 1) \X {0, 1}) /\ Len(lane') = 0
  BY <1>1
<1>8. TypeOK'
  BY <1>1, <1>3, <1>4, <1>5, <1>6, <1>7 DEF ShapeInv, TypeOK, StInv
<1>9. Batched' => done' % Lanes = 0 \/ done' = n'
  <2> SUFFICES ASSUME Batched, done + Batch # n PROVE done' % Lanes = 0
    BY <1>1, <1>2
  <2>1. done % Lanes = 0 /\ Batch = Lanes /\ Lanes \in Nat \ {0} /\ done \in Nat
    BY <1>2, PackedAssumption DEF ShapeInv, PhaseInv
  <2> DEFINE q == done \div Lanes
  <2>2. q \in Nat /\ done = Lanes * q + (done % Lanes)
    BY <2>1, DivMod
  <2> HIDE DEF q
  <2>3. done + Lanes = Lanes * (q + 1) + 0 /\ 0 \in 0 .. Lanes - 1 /\ q + 1 \in Nat
    BY <2>1, <2>2
  <2>4. (Lanes * (q + 1) + 0) % Lanes = 0
    BY <2>1, <2>3, DivModUnique
  <2> QED BY <1>1, <1>2, <2>1, <2>3, <2>4
<1>10. PhaseInv'
  BY <1>1, <1>2, <1>3, <1>4, <1>7, <1>9 DEF ShapeInv, PhaseInv, Finished
<1> QED BY <1>8, <1>10

\* Types and phases are inductive together, on top of the reader's invariant.
LEMMA ShapeInvariant == Spec => []ShapeInv
<1>1. Init => TypeOK /\ PhaseInv
  BY InitShape
<1>2. ShapeInv /\ ReaderInv' /\ [Next]_vars => ShapeInv'
  <2> SUFFICES ASSUME ShapeInv, ReaderInv', [Next]_vars PROVE TypeOK' /\ PhaseInv'
    BY DEF ShapeInv
  <2>0. CallOK' /\ Sound(reader)'
    BY DEF ReaderInv
  <2>1. CASE DrawCandidate
    BY <2>0, <2>1, CandidateShape
  <2>2. CASE DrawSign
    BY <2>0, <2>2, SignShape
  <2>3. CASE MapLanes
    BY <2>3, MapShape
  <2>4. CASE Start
    <3>1. /\ pc = "start" /\ pc' = "draw"
          /\ UNCHANGED <<call, reader, out, done, lane, cand, half, pos, from, rc>>
          /\ UNCHANGED <<frontend, wantStats, n, len, stream>>
      BY <2>4 DEF Start, call
    <3>2. Batch' = Batch /\ Batched' = Batched
      BY <3>1, BatchStays DEF Batched
    <3>3. Batch \in Nat /\ (done < n => Batch >= 1) /\ done = 0 /\ Len(lane) = 0 /\ rc = 0
      BY <3>1, BatchBound DEF ShapeInv, TypeOK, PhaseInv, ReaderInv
    <3>4. StInv'
      BY <2>4 DEF Start, Count, ZeroStats, StInv, ShapeInv, TypeOK
    <3>5. TypeOK'
      BY <3>1, <3>2, <3>4 DEF ShapeInv, TypeOK, StInv
    <3>6. PhaseInv'
      BY <3>1, <3>2, <3>3 DEF ShapeInv, TypeOK, PhaseInv, Finished
    <3> QED BY <3>5, <3>6
  <2>5. CASE Finish
    <3>1. /\ pc = "draw" /\ done >= n /\ pc' = "done" /\ rc' = 0
          /\ UNCHANGED <<call, reader, out, done, lane, cand, half, pos, from>>
          /\ UNCHANGED <<frontend, wantStats, n, len, stream>>
      BY <2>5 DEF Finish, call
    <3>2. Batch' = Batch /\ Batched' = Batched
      BY <3>1, BatchStays DEF Batched
    <3>3. done = n /\ ~ half
      BY <3>1 DEF ShapeInv, TypeOK, PhaseInv, Finished
    <3>4. StInv'
      BY <2>5 DEF Finish, Count, StInv, ShapeInv, TypeOK
    <3>5. TypeOK'
      BY <3>1, <3>2, <3>4 DEF ShapeInv, TypeOK, StInv
    <3>6. PhaseInv'
      BY <3>1, <3>2, <3>3 DEF ShapeInv, PhaseInv, Finished
    <3> QED BY <3>5, <3>6
  <2>6. CASE UNCHANGED vars
    <3>1. /\ UNCHANGED call /\ UNCHANGED done
          /\ UNCHANGED <<frontend, wantStats, n, len, stream>>
      BY <2>6 DEF vars, call
    <3>2. Batch' = Batch /\ Batched' = Batched
      BY <3>1, BatchStays DEF Batched
    <3> QED BY <2>6, <3>1, <3>2 DEF vars, ShapeInv, TypeOK, PhaseInv, Finished
  <2> QED BY <2>1, <2>2, <2>3, <2>4, <2>5, <2>6 DEF Next
<1>3. ReaderInv /\ TypeOK /\ PhaseInv => ShapeInv
  BY DEF ShapeInv
<1> QED BY <1>1, <1>2, <1>3, ReaderInvariant, PTL DEF Spec

(***************************************************************************)
(* Statistics.                                                             *)
(***************************************************************************)

\* When random_bytes is current, between the reports.
BytesInv ==
  wantStats /\ pc # "start" =>
    /\ ~ Fast /\ pc = "draw" /\ done >= n => st.random_bytes = reader.pos
    /\ Fast /\ ~ Finished(0) => st.random_bytes = 0

AccountInv == BitAccounting /\ BytesInv

\* The two halves of BitAccounting once the call has started.
Balance ==
  /\ st.attempts = st.rejections + (done + Len(lane)) + (IF half THEN 1 ELSE 0)
  /\ st.random_bits = DrawBits * st.attempts + (done + Len(lane))
  /\ st.random_bits = reader.consumed
Bytes ==
  /\ Finished(0) => st.random_bytes = reader.pos
  /\ Finished(-2) => st.random_bytes = IF Fast THEN 0 ELSE reader.pos

\* BitAccounting once statistics are wanted and the call has started, and
\* before.
LEMMA AccountParts ==
  /\ wantStats /\ pc # "start" => (BitAccounting <=> Balance /\ Bytes)
  /\ ~ wantStats \/ pc = "start" => (BitAccounting <=> st = StaleStats)
BY DEF BitAccounting, Balance, Bytes

\* A candidate is charged once, with its bits, kept or not.
LEMMA CandidateAccount ==
  ASSUME ShapeInv, AccountInv, DrawCandidate
  PROVE  AccountInv'
<1>1. PICK t : CandidateDrawn(t)
  BY DrawCandidateTook DEF ShapeInv
<1> USE DEF CandidateDrawn
<1>2. /\ pc = "draw" /\ pc' # "start" /\ done < n /\ UNCHANGED <<done, lane, n, wantStats>>
      /\ Fast' = Fast
  BY <1>1 DEF DrawCandidate, call, Fast, Dry
<1>3. ~ half
  BY <1>2 DEF ShapeInv, PhaseInv, Finished
<1>4. CASE ~ wantStats
  <2>1. st' = st
    BY <1>1, <1>4 DEF Count, Dry
  <2>2. st = StaleStats
    BY <1>4, AccountParts DEF AccountInv
  <2>3. BitAccounting'
    BY <1>2, <1>4, <2>1, <2>2 DEF BitAccounting, StaleStats
  <2> QED BY <1>2, <1>4, <2>3 DEF AccountInv, BytesInv
<1>5. CASE wantStats
  <2> DEFINE total == DrawBits * st.attempts
             acc == done + Len(lane)
  <2>1. Balance /\ Bytes /\ BytesInv
    BY <1>2, <1>5, AccountParts DEF AccountInv
  <2>2. /\ st.attempts \in Nat /\ st.rejections \in Nat /\ st.random_bits \in Nat
        /\ acc \in Nat /\ total \in Nat /\ reader.consumed \in Nat
        /\ n \in Nat /\ done \in Nat
        /\ DrawBits * (st.attempts + 1) = total + DrawBits
    <3>1. /\ st.attempts \in Nat /\ st.rejections \in Nat /\ st.random_bits \in Nat
          /\ done \in Nat /\ Len(lane) \in Nat /\ reader.consumed \in Nat /\ n \in Nat
      BY DEF ShapeInv, TypeOK
    <3> QED BY <3>1, ReaderConstants
  <2>3. st.attempts = st.rejections + acc /\ st.random_bits = total + acc
        /\ st.random_bits = reader.consumed
    BY <1>3, <2>1, <2>2 DEF Balance
  <2>4. CASE t.rc # 0
    <3>1. /\ st' = IF Fast THEN st ELSE [st EXCEPT !.random_bytes = reader'.pos]
          /\ pc' = "done" /\ rc' = -2 /\ half' = half
      BY <1>1, <1>5, <2>4 DEF Dry, Count
    <3>2. /\ st'.attempts = st.attempts /\ st'.rejections = st.rejections
          /\ st'.random_bits = st.random_bits
          /\ st'.random_bytes = IF Fast THEN st.random_bytes ELSE reader'.pos
      BY <3>1 DEF ShapeInv, TypeOK
    <3>3. reader'.consumed = reader.consumed
      BY <1>1, <2>4 DEF Took
    <3>4. Balance'
      BY <1>2, <2>1, <3>1, <3>2, <3>3 DEF Balance
    <3>5. Bytes' /\ BytesInv'
      BY <1>2, <1>5, <2>1, <3>1, <3>2 DEF Bytes, BytesInv, Finished
    <3>6. (wantStats /\ pc # "start" => (BitAccounting <=> Balance /\ Bytes))'
      BY AccountParts, PTL
    <3> QED BY <1>2, <1>5, <3>4, <3>5, <3>6 DEF AccountInv
  <2>5. CASE t.rc = 0
    <3>1. /\ st' = [st EXCEPT !.attempts = st.attempts + 1,
                              !.random_bits = st.random_bits + DrawBits,
                              !.rejections = st.rejections
                                + (IF AcceptCandidate(t.value) THEN 0 ELSE 1)]
          /\ half' = AcceptCandidate(t.value)
          /\ pc' = (IF AcceptCandidate(t.value) THEN "sign" ELSE "draw")
      BY <1>1, <1>5, <2>5 DEF Count
    <3>2. /\ st'.attempts = st.attempts + 1
          /\ st'.rejections = st.rejections + (IF AcceptCandidate(t.value) THEN 0 ELSE 1)
          /\ st'.random_bits = st.random_bits + DrawBits
          /\ st'.random_bytes = st.random_bytes
      BY <3>1 DEF ShapeInv, TypeOK
    <3>3. reader'.consumed = reader.consumed + DrawBits
      BY <1>1, <2>5 DEF Took
    <3>4. Balance'
      <4>1. st'.attempts = st'.rejections + acc + (IF half' THEN 1 ELSE 0)
        <5>1. CASE AcceptCandidate(t.value)
          BY <2>2, <2>3, <3>1, <3>2, <5>1
        <5>2. CASE ~ AcceptCandidate(t.value)
          BY <2>2, <2>3, <3>1, <3>2, <5>2
        <5> QED BY <5>1, <5>2
      <4>2. st'.random_bits = DrawBits * st'.attempts + acc
        <5> HIDE DEF total, acc
        <5> QED BY <2>2, <2>3, <3>2, ReaderConstants
      <4>3. st'.random_bits = reader'.consumed
        BY <2>3, <3>2, <3>3
      <4> QED BY <1>2, <4>1, <4>2, <4>3 DEF Balance
    <3>5. Bytes' /\ BytesInv'
      <4>1. pc' # "done" /\ ~ (done' >= n')
        BY <1>2, <2>2, <3>1
      <4>2. Fast => st.random_bytes = 0
        BY <1>2, <1>5, <2>1 DEF BytesInv, Finished
      <4> QED BY <1>2, <3>2, <4>1, <4>2 DEF Bytes, BytesInv, Finished
    <3>6. (wantStats /\ pc # "start" => (BitAccounting <=> Balance /\ Bytes))'
      BY AccountParts, PTL
    <3> QED BY <1>2, <1>5, <3>4, <3>5, <3>6 DEF AccountInv
  <2> QED BY <2>4, <2>5
<1>6. wantStats \in BOOLEAN
  BY DEF ShapeInv, TypeOK
<1> QED BY <1>4, <1>5

\* A sign bit is charged when it is drawn, and only then.
LEMMA SignAccount ==
  ASSUME ShapeInv, AccountInv, DrawSign
  PROVE  AccountInv'
<1>1. PICK t : SignDrawn(t)
  BY DrawSignTook DEF ShapeInv
<1> USE DEF SignDrawn
<1>2. /\ pc = "sign" /\ pc' # "start" /\ UNCHANGED <<done, n, wantStats>>
      /\ Fast' = Fast
  BY <1>1 DEF DrawSign, call, Fast, Dry
<1>3. half /\ done < n
  BY <1>2 DEF ShapeInv, PhaseInv, Finished
<1>4. CASE ~ wantStats
  <2>1. st' = st
    BY <1>1, <1>4 DEF Count, Dry
  <2>2. st = StaleStats
    BY <1>4, AccountParts DEF AccountInv
  <2>3. BitAccounting'
    BY <1>2, <1>4, <2>1, <2>2 DEF BitAccounting, StaleStats
  <2> QED BY <1>2, <1>4, <2>3 DEF AccountInv, BytesInv
<1>5. CASE wantStats
  <2> DEFINE total == DrawBits * st.attempts
             acc == done + Len(lane)
  <2>1. Balance /\ Bytes /\ BytesInv
    BY <1>2, <1>5, AccountParts DEF AccountInv
  <2>0. /\ st.attempts \in Nat /\ st.rejections \in Nat /\ st.random_bits \in Nat
        /\ done \in Nat /\ Len(lane) \in Nat /\ reader.consumed \in Nat /\ n \in Nat
    BY DEF ShapeInv, TypeOK
  <2>2. acc \in Nat /\ total \in Nat
    BY <2>0, ReaderConstants
  <2>3. st.attempts = st.rejections + acc + 1 /\ st.random_bits = total + acc
        /\ st.random_bits = reader.consumed
    BY <1>3, <2>1, <2>2 DEF Balance
  <2>4. CASE t.rc # 0
    <3>1. /\ st' = IF Fast THEN st ELSE [st EXCEPT !.random_bytes = reader'.pos]
          /\ pc' = "done" /\ rc' = -2 /\ half' = half /\ lane' = lane
      BY <1>1, <1>5, <2>4 DEF Dry, Count
    <3>2. /\ st'.attempts = st.attempts /\ st'.rejections = st.rejections
          /\ st'.random_bits = st.random_bits
          /\ st'.random_bytes = IF Fast THEN st.random_bytes ELSE reader'.pos
      BY <3>1 DEF ShapeInv, TypeOK
    <3>3. reader'.consumed = reader.consumed
      BY <1>1, <2>4 DEF Took
    <3>4. Balance'
      BY <1>2, <2>1, <3>1, <3>2, <3>3 DEF Balance
    <3>5. Bytes' /\ BytesInv'
      BY <1>2, <1>5, <2>1, <3>1, <3>2 DEF Bytes, BytesInv, Finished
    <3>6. (wantStats /\ pc # "start" => (BitAccounting <=> Balance /\ Bytes))'
      BY AccountParts, PTL
    <3> QED BY <1>2, <1>5, <3>4, <3>5, <3>6 DEF AccountInv
  <2>5. CASE t.rc = 0
    <3>1. /\ st' = [st EXCEPT !.random_bits = st.random_bits + 1]
          /\ half' = FALSE /\ lane' = Append(lane, <<cand, t.value>>)
          /\ pc' = (IF Len(lane) + 1 = Batch THEN "map" ELSE "draw")
      BY <1>1, <1>5, <2>5 DEF Count
    <3>2. /\ st'.attempts = st.attempts
          /\ st'.rejections = st.rejections
          /\ st'.random_bits = st.random_bits + 1
          /\ st'.random_bytes = st.random_bytes
      BY <3>1 DEF ShapeInv, TypeOK
    <3>3. reader'.consumed = reader.consumed + 1
      BY <1>1, <2>5 DEF Took
    <3>4. done' + Len(lane') = acc + 1
      <4>1. Len(lane') = Len(lane) + 1
        BY <3>1 DEF ShapeInv, TypeOK
      <4> QED BY <1>2, <2>0, <4>1
    <3>5. Balance'
      <4> HIDE DEF acc
      <4>1. st'.attempts = st'.rejections + (acc + 1) + (IF half' THEN 1 ELSE 0)
        BY <2>0, <2>2, <2>3, <3>1, <3>2
      <4>2. st'.random_bits = DrawBits * st'.attempts + (acc + 1)
        <5> HIDE DEF total
        <5>1. DrawBits * st'.attempts = total
          BY <3>2 DEF total
        <5> QED BY <2>2, <2>3, <3>2, <5>1
      <4>3. st'.random_bits = reader'.consumed
        BY <2>3, <3>2, <3>3
      <4> QED BY <3>4, <4>1, <4>2, <4>3 DEF Balance
    <3>6. Bytes' /\ BytesInv'
      <4>1. pc' # "done" /\ ~ (done' >= n')
        BY <1>2, <1>3, <2>0, <3>1
      <4>2. Fast => st.random_bytes = 0
        BY <1>2, <1>5, <2>1 DEF BytesInv, Finished
      <4> QED BY <1>2, <3>2, <4>1, <4>2 DEF Bytes, BytesInv, Finished
    <3>7. (wantStats /\ pc # "start" => (BitAccounting <=> Balance /\ Bytes))'
      BY AccountParts, PTL
    <3> QED BY <1>2, <1>5, <3>5, <3>6, <3>7 DEF AccountInv
  <2> QED BY <2>4, <2>5
<1> QED BY <1>4, <1>5

\* Storing a batch moves no bits; the byte reader reports its bytes.
LEMMA MapAccount ==
  ASSUME ShapeInv, AccountInv, MapLanes
  PROVE  AccountInv'
<1>1. /\ pc = "map" /\ pc' = "draw" /\ done' = done + Len(lane) /\ lane' = <<>>
      /\ Count(IF Fast THEN st ELSE [st EXCEPT !.random_bytes = reader.pos])
      /\ UNCHANGED <<n, wantStats, reader, half>> /\ Fast' = Fast
  BY DEF MapLanes, call, Fast
<1>2. CASE ~ wantStats
  <2>1. st' = st
    BY <1>1, <1>2 DEF Count
  <2>2. st = StaleStats
    BY <1>2, AccountParts DEF AccountInv
  <2>3. BitAccounting'
    BY <1>1, <1>2, <2>1, <2>2 DEF BitAccounting, StaleStats
  <2> QED BY <1>1, <1>2, <2>3 DEF AccountInv, BytesInv
<1>3. CASE wantStats
  <2>1. Balance /\ BytesInv
    BY <1>1, <1>3, AccountParts DEF AccountInv
  <2>2. /\ st'.attempts = st.attempts /\ st'.rejections = st.rejections
        /\ st'.random_bits = st.random_bits
        /\ st'.random_bytes = IF Fast THEN st.random_bytes ELSE reader.pos
    BY <1>1, <1>3 DEF Count, ShapeInv, TypeOK
  <2>3. done' + Len(lane') = done + Len(lane)
    BY <1>1 DEF ShapeInv, TypeOK
  <2>4. Balance'
    BY <1>1, <2>1, <2>2, <2>3 DEF Balance
  <2>5. Bytes' /\ BytesInv'
    BY <1>1, <1>3, <2>1, <2>2 DEF Bytes, BytesInv, Finished
  <2>6. (wantStats /\ pc # "start" => (BitAccounting <=> Balance /\ Bytes))'
    BY AccountParts, PTL
  <2> QED BY <1>1, <1>3, <2>4, <2>5, <2>6 DEF AccountInv
<1> QED BY <1>2, <1>3

\* The statistics are cleared before the first take.
LEMMA StartAccount ==
  ASSUME ShapeInv, AccountInv, Start
  PROVE  AccountInv'
<1>1. /\ pc = "start" /\ pc' = "draw" /\ Count(ZeroStats)
      /\ UNCHANGED <<n, wantStats, reader, done, lane, half>> /\ Fast' = Fast
  BY DEF Start, call, Fast
<1>2. st = StaleStats
  BY <1>1, AccountParts DEF AccountInv
<1>3. CASE ~ wantStats
  <2>1. BitAccounting'
    BY <1>1, <1>2, <1>3 DEF BitAccounting, StaleStats, Count
  <2> QED BY <1>1, <1>3, <2>1 DEF AccountInv, BytesInv
<1>4. CASE wantStats
  <2>1. st' = ZeroStats
    BY <1>1, <1>4 DEF Count
  <2>2. /\ reader.consumed = 0 /\ reader.pos = 0 /\ done = 0 /\ Len(lane) = 0 /\ ~ half
    BY <1>1 DEF ShapeInv, PhaseInv, NewReader, Finished
  <2>3. DrawBits * 0 = 0
    BY ReaderConstants
  <2>4. Balance'
    BY <1>1, <2>1, <2>2, <2>3 DEF Balance, ZeroStats
  <2>5. Bytes' /\ BytesInv'
    BY <1>1, <2>1, <2>2 DEF Bytes, BytesInv, Finished, ZeroStats
  <2>6. (wantStats /\ pc # "start" => (BitAccounting <=> Balance /\ Bytes))'
    BY AccountParts, PTL
  <2> QED BY <1>1, <1>4, <2>4, <2>5, <2>6 DEF AccountInv
<1> QED BY <1>3, <1>4

\* FINISH_STATS reports the bytes of the fast reader.
LEMMA FinishAccount ==
  ASSUME ShapeInv, AccountInv, Finish
  PROVE  AccountInv'
<1>1. /\ pc = "draw" /\ pc' = "done" /\ rc' = 0 /\ done >= n
      /\ Count(IF Fast THEN [st EXCEPT !.random_bytes = reader.loaded] ELSE st)
      /\ UNCHANGED <<n, wantStats, reader, done, lane, half>> /\ Fast' = Fast
  BY DEF Finish, call, Fast
<1>2. CASE ~ wantStats
  <2>1. st' = st
    BY <1>1, <1>2 DEF Count
  <2>2. st = StaleStats
    BY <1>2, AccountParts DEF AccountInv
  <2>3. BitAccounting'
    BY <1>1, <1>2, <2>1, <2>2 DEF BitAccounting, StaleStats
  <2> QED BY <1>1, <1>2, <2>3 DEF AccountInv, BytesInv
<1>3. CASE wantStats
  <2>1. Balance /\ BytesInv
    BY <1>1, <1>3, AccountParts DEF AccountInv
  <2>2. Fast => reader.loaded = reader.pos
    BY DEF ShapeInv, ReaderInv, Sound, Counted
  <2>3. /\ st'.attempts = st.attempts /\ st'.rejections = st.rejections
        /\ st'.random_bits = st.random_bits
        /\ st'.random_bytes = IF Fast THEN reader.pos ELSE st.random_bytes
    BY <1>1, <1>3, <2>2 DEF Count, ShapeInv, TypeOK
  <2>4. Balance'
    BY <1>1, <2>1, <2>3 DEF Balance
  <2>5. Bytes' /\ BytesInv'
    BY <1>1, <1>3, <2>1, <2>3 DEF Bytes, BytesInv, Finished
  <2>6. (wantStats /\ pc # "start" => (BitAccounting <=> Balance /\ Bytes))'
    BY AccountParts, PTL
  <2> QED BY <1>1, <1>3, <2>4, <2>5, <2>6 DEF AccountInv
<1> QED BY <1>2, <1>3

\* The counters conserve the bits taken from the reader at every moment, on
\* success and on -2, for every front end: attempts are rejections, samples
\* and at most one candidate without its sign, and random_bits is what the
\* reader consumed.
THEOREM BitsAreAccounted == Spec => []BitAccounting
<1>1. Init => AccountInv
  BY DEF Init, AccountInv, BitAccounting, BytesInv
<1>2. ShapeInv /\ AccountInv /\ [Next]_vars => AccountInv'
  <2> SUFFICES ASSUME ShapeInv, AccountInv, [Next]_vars PROVE AccountInv'
    OBVIOUS
  <2>1. CASE UNCHANGED vars
    BY <2>1 DEF vars, call, AccountInv, BitAccounting, BytesInv, Finished, Fast
  <2> QED BY <2>1, StartAccount, CandidateAccount, SignAccount, MapAccount, FinishAccount
          DEF Next
<1>3. AccountInv => BitAccounting
  BY DEF AccountInv
<1> QED BY <1>1, <1>2, <1>3, ShapeInvariant, PTL DEF Spec

(***************************************************************************)
(* The parse of the stream.                                                *)
(***************************************************************************)

\* Bits of the packed source.
Total == ByteBits * len

\* The body of Parse, for any function in its place.
ParseBody(f, k) ==
  LET c == Slice(stream, k, DrawBits)
      left == Total - k
  IN  IF left < DrawBits THEN <<>>
      ELSE IF ~ AcceptCandidate(c) THEN <<<<c, 0>>>> \o f[k + DrawBits]
      ELSE IF left < DrawBits + 1 THEN <<>>
      ELSE <<<<c, Slice(stream, k + DrawBits, 1)>>>> \o f[k + DrawBits + 1]

\* Parsing at bit k depends on later bits only.
LEMMA BodyLooksAhead ==
  ASSUME Total \in Nat, NEW k \in 0 .. Total, NEW f, NEW g,
         \A j \in 0 .. Total : j > k => f[j] = g[j]
  PROVE  ParseBody(f, k) = ParseBody(g, k)
<1>1. CASE Total - k < DrawBits
  BY <1>1 DEF ParseBody
<1>2. CASE ~ (Total - k < DrawBits) /\ Total - k < DrawBits + 1
  <2>1. f[k + DrawBits] = g[k + DrawBits]
    BY <1>2, ReaderConstants
  <2> QED BY <1>2, <2>1 DEF ParseBody
<1>3. CASE ~ (Total - k < DrawBits) /\ ~ (Total - k < DrawBits + 1)
  <2>1. /\ f[k + DrawBits] = g[k + DrawBits]
        /\ f[k + DrawBits + 1] = g[k + DrawBits + 1]
    BY <1>3, ReaderConstants
  <2> QED BY <1>3, <2>1 DEF ParseBody
<1> QED BY <1>1, <1>2, <1>3

\* So the recursion of Parse has a solution, built from the end of the stream.
LEMMA ParseExists ==
  ASSUME Total \in Nat
  PROVE  \E f : f = [k \in 0 .. Total |-> ParseBody(f, k)]
<1> DEFINE D == 0 .. Total
           Solves(f, j) == /\ f = [k \in D |-> f[k]]
                           /\ \A k \in D : k >= Total - j => f[k] = ParseBody(f, k)
           T == {j \in Nat : j <= Total => \E f : Solves(f, j)}
<1>1. 0 \in T
  <2> DEFINE e == [k \in D |-> <<>>]
  <2>1. ParseBody(e, Total) = <<>>
    BY ReaderConstants DEF ParseBody
  <2>2. Solves(e, 0)
    BY <2>1
  <2> QED BY <2>2
<1>2. ASSUME NEW j \in Nat, j + 1 <= Total, NEW f, Solves(f, j)
      PROVE  \E g : Solves(g, j + 1)
  <2> DEFINE m == Total - (j + 1)
             g == [k \in D |-> IF k = m THEN ParseBody(f, m) ELSE f[k]]
  <2>1. m \in D
    BY <1>2
  <2>2. \A k \in D : k > m => g[k] = f[k]
    OBVIOUS
  <2>3. \A k \in D : k >= m => ParseBody(g, k) = ParseBody(f, k)
    <3> SUFFICES ASSUME NEW k \in D, k >= m PROVE ParseBody(g, k) = ParseBody(f, k)
      OBVIOUS
    <3>1. \A i \in D : i > k => g[i] = f[i]
      BY <2>1, <2>2
    <3> HIDE DEF g, m
    <3> QED BY <3>1, BodyLooksAhead
  <2>4. \A k \in D : k >= m => g[k] = ParseBody(f, k)
    <3> SUFFICES ASSUME NEW k \in D, k >= m PROVE g[k] = ParseBody(f, k)
      OBVIOUS
    <3>1. CASE k = m
      BY <3>1
    <3>2. CASE k # m
      <4>1. k >= Total - j
        BY <1>2, <3>2
      <4> QED BY <1>2, <3>2, <4>1
    <3> QED BY <3>1, <3>2
  <2>5. Solves(g, j + 1)
    BY <2>3, <2>4
  <2> QED BY <2>5
<1>7. \A j \in T : j \in Nat => j + 1 \in T
  <2> HIDE DEF Solves
  <2>1. \A j \in Nat : j + 1 <= Total => j <= Total
    OBVIOUS
  <2> QED BY <1>2, <2>1
<1>3. Total \in T
  <2> HIDE DEF T
  <2>1. Nat \subseteq T
    BY <1>1, <1>7, SetInduction
  <2> QED BY <2>1
<1>4. PICK f : Solves(f, Total)
  BY <1>3
<1>5. \A k \in D : f[k] = ParseBody(f, k)
  BY <1>4
<1>6. f = [k \in D |-> ParseBody(f, k)]
  BY <1>4, <1>5
<1> QED BY <1>6

\* Hence Parse unfolds.
LEMMA ParseStep ==
  ASSUME Total \in Nat, NEW k \in 0 .. Total
  PROVE  Parse[k] = ParseBody(Parse, k)
<1>1. Parse = CHOOSE f : f = [j \in 0 .. Total |-> ParseBody(f, j)]
  BY DEF Parse, ParseBody, Total
<1>2. Parse = [j \in 0 .. Total |-> ParseBody(Parse, j)]
  BY <1>1, ParseExists
<1> QED BY <1>2

\* The parse is the call's: no step changes it.
LEMMA ParseStays ==
  ASSUME UNCHANGED <<len, stream>>
  PROVE  Draws' = Draws /\ Parse' = Parse
BY DEF Draws, Parse

\* Parsing yields candidates with sign bits.
LEMMA ParseType ==
  ASSUME CallOK, Total \in Nat
  PROVE  \A k \in 0 .. Total : Parse[k] \in Seq((0 .. CandMod - 1) \X {0, 1})
<1> DEFINE D == (0 .. CandMod - 1) \X {0, 1}
           P(j) == \A k \in 0 .. Total : k >= Total - j => Parse[k] \in Seq(D)
           T == {j \in Nat : P(j)}
<1>1. ASSUME NEW k \in 0 .. Total,
             \A i \in 0 .. Total : i > k => Parse[i] \in Seq(D)
      PROVE  Parse[k] \in Seq(D)
  <2> DEFINE c == Slice(stream, k, DrawBits)
             s == Slice(stream, k + DrawBits, 1)
  <2>1. <<c, 0>> \in D /\ <<c, s>> \in D
    <3>1. k + DrawBits \in Nat
      BY ReaderConstants
    <3> QED BY <3>1, CandidateType
  <2>2. Parse[k] = ParseBody(Parse, k)
    BY ParseStep
  <2> HIDE DEF c, s, D
  <2>3. \A x \in D, t \in Seq(D) : <<x>> \o t \in Seq(D)
    OBVIOUS
  <2>4. <<>> \in Seq(D)
    OBVIOUS
  <2>5. CASE Total - k < DrawBits
    BY <2>2, <2>4, <2>5 DEF ParseBody
  <2>6. CASE ~ (Total - k < DrawBits) /\ ~ AcceptCandidate(c)
    <3>1. Parse[k + DrawBits] \in Seq(D)
      BY <1>1, <2>6, ReaderConstants
    <3>2. Parse[k] = <<<<c, 0>>>> \o Parse[k + DrawBits]
      BY <2>2, <2>6 DEF ParseBody, c
    <3> QED BY <2>1, <2>3, <3>1, <3>2
  <2>7. CASE ~ (Total - k < DrawBits) /\ AcceptCandidate(c) /\ Total - k < DrawBits + 1
    BY <2>2, <2>4, <2>7 DEF ParseBody, c
  <2>8. CASE ~ (Total - k < DrawBits) /\ AcceptCandidate(c) /\ ~ (Total - k < DrawBits + 1)
    <3>1. Parse[k + DrawBits + 1] \in Seq(D)
      BY <1>1, <2>8, ReaderConstants
    <3>2. Parse[k] = <<<<c, s>>>> \o Parse[k + DrawBits + 1]
      BY <2>2, <2>8 DEF ParseBody, c, s
    <3> QED BY <2>1, <2>3, <3>1, <3>2
  <2> QED BY <2>5, <2>6, <2>7, <2>8
<1>2. 0 \in T
  <2>1. \A k \in 0 .. Total : k >= Total - 0 => k = Total
    OBVIOUS
  <2>2. Parse[Total] \in Seq(D)
    <3> HIDE DEF D
    <3>1. Total \in 0 .. Total /\ \A i \in 0 .. Total : ~ (i > Total)
      OBVIOUS
    <3> QED BY <1>1, <3>1
  <2> HIDE DEF D
  <2> QED BY <2>1, <2>2
<1>3. ASSUME NEW j \in Nat, P(j) PROVE P(j + 1)
  <2> HIDE DEF D
  <2> SUFFICES ASSUME NEW k \in 0 .. Total, k >= Total - (j + 1)
               PROVE  Parse[k] \in Seq(D)
    OBVIOUS
  <2>1. \A i \in 0 .. Total : i > k => i >= Total - j
    OBVIOUS
  <2> QED BY <1>1, <1>3, <2>1
<1>6. \A j \in T : j \in Nat => j + 1 \in T
  <2> HIDE DEF P
  <2> QED BY <1>3
<1> HIDE DEF T
<1>4. Nat \subseteq T
  BY <1>2, <1>6, SetInduction
<1>5. Total \in T
  BY <1>4
<1>7. P(Total)
  BY <1>5 DEF T
<1>8. \A k \in 0 .. Total : k >= Total - Total
  OBVIOUS
<1> QED BY <1>7, <1>8

(***************************************************************************)
(* The scan of the stream, and the history of the call.                    *)
(***************************************************************************)

\* Draw p of the parse ends at bit k.
Aligned(p, k) ==
  /\ k \in 0 .. Total /\ p \in Nat
  /\ Len(Draws) = p + Len(Parse[k])
  /\ \A i \in 1 .. Len(Parse[k]) : Draws[p + i] = Parse[k][i]

\* The bit at which the draw in progress began.
ScanFrom == reader.consumed - (IF half THEN DrawBits ELSE 0)

\* The draws completed are the ones parsed before that bit.
ScanInv ==
  /\ Aligned(pos, ScanFrom)
  /\ half => cand = Slice(stream, ScanFrom, DrawBits) /\ ScanFrom + DrawBits <= Total

\* The stream has a natural number of bits.
LEMMA TotalType == CallOK => Total \in Nat
BY ReaderConstants, PackedAssumption DEF CallOK, Total

\* Taking the next draw keeps position and bit aligned.
LEMMA AlignedNext ==
  ASSUME CallOK, NEW p, NEW k, Aligned(p, k), NEW m \in 0 .. Total,
         NEW d, Parse[k] = <<d>> \o Parse[m]
  PROVE  p < Len(Draws) /\ Draws[p + 1] = d /\ Aligned(p + 1, m)
<1> DEFINE D == (0 .. CandMod - 1) \X {0, 1}
           s == Parse[k]
           t == Parse[m]
<1>1. s \in Seq(D) /\ t \in Seq(D)
  BY TotalType, ParseType DEF Aligned
<1>2. s = <<d>> \o t
  OBVIOUS
<1>3. /\ p \in Nat /\ Len(Draws) = p + Len(s)
      /\ \A i \in 1 .. Len(s) : Draws[p + i] = s[i]
  BY DEF Aligned
<1> HIDE DEF s, t, D
<1>4. Len(s) = Len(t) + 1 /\ s[1] = d /\ \A i \in 1 .. Len(t) : s[i + 1] = t[i]
  BY <1>1, <1>2
<1>5. Len(t) \in Nat
  BY <1>1
<1>6. p < Len(Draws) /\ Draws[p + 1] = d
  BY <1>3, <1>4, <1>5
<1>7. Len(Draws) = (p + 1) + Len(t)
  BY <1>3, <1>4, <1>5
<1>8. \A i \in 1 .. Len(t) : Draws[(p + 1) + i] = t[i]
  <2> SUFFICES ASSUME NEW i \in 1 .. Len(t) PROVE Draws[(p + 1) + i] = t[i]
    OBVIOUS
  <2>1. i + 1 \in 1 .. Len(s) /\ (p + 1) + i = p + (i + 1)
    BY <1>3, <1>4, <1>5
  <2> QED BY <1>3, <1>4, <2>1
<1>9. p + 1 \in Nat
  BY <1>3
<1>10. Aligned(p + 1, m)
  BY <1>7, <1>8, <1>9, Zenon DEF Aligned, t
<1> QED BY <1>6, <1>10

\* Where nothing more can be parsed, every draw has been taken.
LEMMA AlignedEnd ==
  ASSUME NEW p, NEW k, Aligned(p, k), Parse[k] = <<>>
  PROVE  p = Len(Draws)
BY DEF Aligned

\* The alignment of the next state, from a place of this one.
LEMMA AlignedThen ==
  ASSUME UNCHANGED call, NEW p, NEW k, Aligned(p, k), pos' = p, ScanFrom' = k
  PROVE  Aligned(pos, ScanFrom)'
<1>1. UNCHANGED <<len, stream>>
  BY DEF call
<1>2. Draws' = Draws /\ Parse' = Parse /\ Total' = Total
  BY <1>1, ParseStays DEF Total
<1> QED BY <1>2 DEF Aligned

\* DrawCandidate finds the stream dry exactly when no draw is left, rejects
\* the next draw of the parse, or takes the first half of it.
LEMMA CandidateScan ==
  ASSUME ShapeInv, ScanInv, DrawCandidate
  PROVE  /\ ScanInv'
         /\ \/ /\ pc' = "done" /\ rc' = -2 /\ pos' = pos /\ pos = Len(Draws)
            \/ /\ pc' = "draw" /\ rc' = rc /\ pos' = pos + 1 /\ pos < Len(Draws)
               /\ ~ DrawAccepted(Draws[pos + 1])
            \/ /\ pc' = "sign" /\ rc' = rc /\ pos' = pos
<1>1. PICK t : CandidateDrawn(t)
  BY DrawCandidateTook DEF ShapeInv
<1> USE DEF CandidateDrawn
<1>2. /\ UNCHANGED call /\ ~ half /\ CallOK /\ reader.consumed \in Nat
      /\ stream' = stream /\ Total' = Total /\ Total \in Nat
  <2>1. pc = "draw" /\ UNCHANGED call
    BY DEF DrawCandidate
  <2> QED BY <2>1, TotalType DEF ShapeInv, PhaseInv, ReaderInv, TypeOK, Finished, call, Total
<1> DEFINE k == reader.consumed
           c == Slice(stream, k, DrawBits)
<1>3. ScanFrom = k /\ Aligned(pos, k) /\ k \in 0 .. Total
  <2>1. ScanFrom = k
    BY <1>2 DEF ScanFrom
  <2>2. Aligned(pos, k)
    BY <2>1 DEF ScanInv
  <2> QED BY <2>1, <2>2 DEF Aligned
<1>4. Parse[k] = ParseBody(Parse, k)
  BY <1>2, <1>3, ParseStep
<1>5. CASE t.rc # 0
  <2>1. /\ pc' = "done" /\ rc' = -2 /\ UNCHANGED <<cand, half, pos>>
        /\ reader'.consumed = k
    BY <1>1, <1>5 DEF Dry, Took
  <2>2. Total - k < DrawBits
    <3>1. k + DrawBits > Total
      BY <1>1, <1>5 DEF Took, Total
    <3> QED BY <1>2, <3>1, ReaderConstants
  <2>3. Parse[k] = <<>>
    BY <1>4, <2>2 DEF ParseBody
  <2>4. pos = Len(Draws)
    BY <1>3, <2>3, AlignedEnd
  <2>5. ScanFrom' = k
    BY <1>2, <2>1 DEF ScanFrom
  <2>6. ScanInv'
    <3>1. Aligned(pos, ScanFrom)'
      BY <1>2, <1>3, <2>1, <2>5, AlignedThen
    <3> QED BY <1>2, <2>1, <3>1 DEF ScanInv
  <2> QED BY <2>1, <2>4, <2>6
<1>6. CASE t.rc = 0
  <2>1. /\ t.value = c /\ reader'.consumed = k + DrawBits /\ k + DrawBits <= Total
    BY <1>1, <1>6 DEF Took, Total
  <2>2. ~ (Total - k < DrawBits) /\ k + DrawBits \in 0 .. Total
    BY <1>2, <2>1, ReaderConstants
  <2>3. CASE AcceptCandidate(c)
    <3>1. /\ cand' = c /\ half' /\ pos' = pos /\ pc' = "sign" /\ rc' = rc
      BY <1>1, <1>6, <2>1, <2>3
    <3>2. ScanFrom' = k
      BY <1>2, <2>1, <3>1, ReaderConstants DEF ScanFrom
    <3>3. Aligned(pos, ScanFrom)'
      BY <1>2, <1>3, <3>1, <3>2, AlignedThen
    <3> QED BY <1>2, <2>1, <3>1, <3>2, <3>3 DEF ScanInv
  <2>4. CASE ~ AcceptCandidate(c)
    <3>1. ~ half' /\ pos' = pos + 1 /\ pc' = "draw" /\ rc' = rc
      BY <1>1, <1>6, <2>1, <2>4
    <3>2. Parse[k] = <<<<c, 0>>>> \o Parse[k + DrawBits]
      BY <1>4, <2>2, <2>4 DEF ParseBody
    <3>3. pos < Len(Draws) /\ Draws[pos + 1] = <<c, 0>> /\ Aligned(pos + 1, k + DrawBits)
      <4> HIDE DEF c, k
      <4> QED BY <1>2, <1>3, <2>2, <3>2, AlignedNext
    <3>4. ~ DrawAccepted(Draws[pos + 1])
      BY <2>4, <3>3 DEF DrawAccepted
    <3>5. ScanFrom' = k + DrawBits
      BY <1>2, <2>1, <3>1, ReaderConstants DEF ScanFrom
    <3>6. Aligned(pos, ScanFrom)'
      BY <1>2, <3>1, <3>3, <3>5, AlignedThen
    <3> QED BY <3>1, <3>3, <3>4, <3>6 DEF ScanInv
  <2> QED BY <2>3, <2>4
<1> QED BY <1>5, <1>6

\* DrawSign finds the stream dry exactly when the draw is cut off, and no
\* other is left, or completes the next draw of the parse.
LEMMA SignScan ==
  ASSUME ShapeInv, ScanInv, DrawSign
  PROVE  /\ ScanInv'
         /\ \/ /\ pc' = "done" /\ rc' = -2 /\ UNCHANGED <<lane, pos, from>>
               /\ pos = Len(Draws)
            \/ /\ pc' \in {"draw", "map"} /\ rc' = rc
               /\ pos' = pos + 1 /\ from' = Append(from, pos + 1)
               /\ pos < Len(Draws) /\ DrawAccepted(Draws[pos + 1])
               /\ lane' = Append(lane, Draws[pos + 1])
<1>1. PICK t : SignDrawn(t)
  BY DrawSignTook DEF ShapeInv
<1> USE DEF SignDrawn
<1>2. /\ UNCHANGED call /\ half /\ CallOK /\ reader.consumed \in Nat
      /\ stream' = stream /\ cand' = cand /\ Total' = Total /\ Total \in Nat
      /\ cand \in 0 .. Q - 1
  <2>1. pc = "sign" /\ UNCHANGED call /\ cand' = cand
    BY DEF DrawSign
  <2> QED BY <2>1, TotalType DEF ShapeInv, PhaseInv, ReaderInv, TypeOK, Finished, call, Total
<1> DEFINE k == ScanFrom
           s == Slice(stream, k + DrawBits, 1)
<1>3. /\ k + DrawBits = reader.consumed /\ Aligned(pos, k) /\ k \in 0 .. Total
      /\ cand = Slice(stream, k, DrawBits) /\ k + DrawBits <= Total
  <2>1. k = reader.consumed - DrawBits
    BY <1>2 DEF ScanFrom
  <2>2. k + DrawBits = reader.consumed
    BY <1>2, <2>1, ReaderConstants
  <2> QED BY <1>2, <2>2 DEF ScanInv, Aligned
<1> HIDE DEF k
<1>4. Parse[k] = ParseBody(Parse, k)
  BY <1>2, <1>3, ParseStep
<1>5. AcceptCandidate(cand) /\ ~ (Total - k < DrawBits)
  BY <1>2, <1>3, ReaderConstants, ProfileAssumption DEF AcceptCandidate
<1>6. CASE t.rc # 0
  <2>1. /\ pc' = "done" /\ rc' = -2 /\ UNCHANGED <<lane, half, pos, from>>
        /\ reader'.consumed = reader.consumed
    BY <1>1, <1>6 DEF Dry, Took
  <2>2. Total - k < DrawBits + 1
    <3>1. reader.consumed + 1 > Total
      BY <1>1, <1>6 DEF Took, Total
    <3> QED BY <1>2, <1>3, <3>1, ReaderConstants
  <2>3. Parse[k] = <<>>
    BY <1>3, <1>4, <1>5, <2>2 DEF ParseBody
  <2>4. pos = Len(Draws)
    BY <1>3, <2>3, AlignedEnd
  <2>5. ScanFrom' = k
    BY <1>2, <2>1 DEF ScanFrom, k
  <2>6. Aligned(pos, ScanFrom)'
    BY <1>2, <1>3, <2>1, <2>5, AlignedThen
  <2>7. ScanInv'
    BY <1>2, <1>3, <2>5, <2>6 DEF ScanInv
  <2> QED BY <2>1, <2>4, <2>7
<1>7. CASE t.rc = 0
  <2>1. /\ t.value = s /\ reader'.consumed = k + DrawBits + 1 /\ k + DrawBits + 1 <= Total
    BY <1>1, <1>3, <1>7 DEF Took, Total
  <2>2. ~ (Total - k < DrawBits + 1) /\ k + DrawBits + 1 \in 0 .. Total
    BY <1>2, <1>3, <2>1, ReaderConstants
  <2>3. Parse[k] = <<<<cand, s>>>> \o Parse[k + DrawBits + 1]
    BY <1>3, <1>4, <1>5, <2>2 DEF ParseBody
  <2>4. /\ pos < Len(Draws) /\ Draws[pos + 1] = <<cand, s>>
        /\ Aligned(pos + 1, k + DrawBits + 1)
    <3> DEFINE d == <<cand, s>>
               m == k + DrawBits + 1
    <3>1. m \in 0 .. Total /\ Parse[k] = <<d>> \o Parse[m]
      BY <2>2, <2>3
    <3> HIDE DEF d, m
    <3>2. pos < Len(Draws) /\ Draws[pos + 1] = d /\ Aligned(pos + 1, m)
      BY <1>2, <1>3, <3>1, AlignedNext
    <3> QED BY <3>2 DEF d, m
  <2>5. DrawAccepted(Draws[pos + 1])
    BY <1>5, <2>4 DEF DrawAccepted
  <2>6. /\ lane' = Append(lane, Draws[pos + 1]) /\ ~ half' /\ rc' = rc
        /\ pos' = pos + 1 /\ from' = Append(from, pos + 1)
        /\ pc' \in {"draw", "map"}
    BY <1>1, <1>7, <2>1, <2>4
  <2>7. ScanFrom' = k + DrawBits + 1
    <3>1. k + DrawBits + 1 \in Nat
      BY <2>2
    <3> QED BY <2>1, <2>6, <3>1 DEF ScanFrom
  <2>8. Aligned(pos, ScanFrom)'
    BY <1>2, <2>4, <2>6, <2>7, AlignedThen
  <2>9. ScanInv'
    BY <2>6, <2>8 DEF ScanInv
  <2> QED BY <2>4, <2>5, <2>6, <2>9
<1> QED BY <1>6, <1>7

\* The lanes and the samples are the draws the history names.
HistoryInv ==
  /\ from \in Seq(1 .. Len(Draws))
  /\ Len(from) = done + Len(lane)
  /\ \A j \in 1 .. Len(lane) : lane[j] = Draws[from[done + j]]
  /\ \A i \in 1 .. done : out[i] = DrawImage(Draws[from[i]])
  /\ \A i \in done + 1 .. MaxN + 1 : out[i] = Poison

\* The parsed stream is a source of draws.
LEMMA DrawsType == CallOK => Draws \in Seq((0 .. CandMod - 1) \X {0, 1})
<1> SUFFICES ASSUME CallOK PROVE Draws \in Seq((0 .. CandMod - 1) \X {0, 1})
  OBVIOUS
<1>1. Total \in Nat /\ 0 \in 0 .. Total
  BY TotalType
<1> QED BY <1>1, ParseType DEF Draws

\* What a step that stores nothing and completes no accepted draw leaves of
\* the history.
LEMMA HistoryStays ==
  ASSUME HistoryInv, UNCHANGED <<call, out, done, lane, from>>
  PROVE  HistoryInv'
<1>1. Draws' = Draws
  BY ParseStays DEF call
<1> QED BY <1>1 DEF HistoryInv, DrawImage

\* A drawn lane is the draw the history names.
LEMMA SignHistory ==
  ASSUME ShapeInv, ScanInv, HistoryInv, DrawSign
  PROVE  HistoryInv'
<1>1. /\ UNCHANGED <<call, out, done>> /\ Draws' = Draws
  BY ParseStays DEF DrawSign, call
<1>2. CASE UNCHANGED <<lane, from>>
  BY <1>1, <1>2, HistoryStays
<1>3. CASE /\ from' = Append(from, pos + 1) /\ pos < Len(Draws)
           /\ lane' = Append(lane, Draws[pos + 1])
  <2>1. /\ pos + 1 \in 1 .. Len(Draws) /\ done \in Nat
        /\ lane \in Seq((0 .. Q - 1) \X {0, 1})
    <3>1. pos \in Nat /\ Len(Draws) \in Nat
      BY DrawsType DEF ScanInv, Aligned, ShapeInv, ReaderInv
    <3> QED BY <1>3, <3>1 DEF ShapeInv, TypeOK
  <2> DEFINE S == 1 .. Len(Draws)
             L == Len(lane)
             d == Draws[pos + 1]
  <2>2. /\ from \in Seq(S) /\ pos + 1 \in S /\ Len(from) = done + L /\ L \in Nat
    BY <2>1 DEF HistoryInv
  <2>3. Len(lane') = L + 1 /\ lane'[L + 1] = d /\ \A j \in 1 .. L : lane'[j] = lane[j]
    <3> HIDE DEF d
    <3> QED BY <1>3, <2>1 DEF d
  <2> HIDE DEF S, L
  <2>4. /\ from' \in Seq(S) /\ Len(from') = done + (L + 1)
        /\ from'[done + L + 1] = pos + 1
        /\ \A i \in 1 .. done + L : from'[i] = from[i]
    <3>1. /\ from' \in Seq(S) /\ Len(from') = Len(from) + 1
          /\ from'[Len(from) + 1] = pos + 1
          /\ \A i \in 1 .. Len(from) : from'[i] = from[i]
      BY <1>3, <2>2
    <3>2. (done + L) + 1 = done + (L + 1)
      BY <2>1, <2>2
    <3> QED BY <2>2, <3>1, <3>2
  <2>5. \A j \in 1 .. L + 1 : lane'[j] = Draws[from'[done + j]]
    <3> SUFFICES ASSUME NEW j \in 1 .. L + 1 PROVE lane'[j] = Draws[from'[done + j]]
      OBVIOUS
    <3>1. CASE j = L + 1
      <4>1. done + j = done + L + 1
        BY <2>1, <2>2, <3>1
      <4> QED BY <2>3, <2>4, <3>1, <4>1
    <3>2. CASE j # L + 1
      <4>1. j \in 1 .. L /\ done + j \in 1 .. done + L
        BY <2>1, <2>2, <3>2
      <4>2. lane[j] = Draws[from[done + j]]
        BY <4>1 DEF HistoryInv, L
      <4> QED BY <2>3, <2>4, <4>1, <4>2
    <3> QED BY <3>1, <3>2
  <2>6. \A i \in 1 .. done : out[i] = DrawImage(Draws[from'[i]])
    <3>1. \A i \in 1 .. done : i \in 1 .. done + L
      BY <2>1, <2>2
    <3> QED BY <2>4, <3>1 DEF HistoryInv
  <2>7. \A i \in 1 .. done' : out'[i] = DrawImage(Draws[from[i]])'
    BY <1>1, <2>6 DEF DrawImage
  <2>8. \A i \in done' + 1 .. MaxN + 1 : out'[i] = Poison
    BY <1>1 DEF HistoryInv
  <2>9. from' \in Seq(1 .. Len(Draws'))
    BY <1>1, <2>4 DEF S
  <2>10. Len(from') = done' + Len(lane')
    BY <1>1, <2>3, <2>4
  <2>11. \A j \in 1 .. Len(lane') : lane'[j] = Draws'[from'[done' + j]]
    BY <1>1, <2>3, <2>5
  <2> QED BY <2>7, <2>8, <2>9, <2>10, <2>11 DEF HistoryInv
<1> QED BY <1>2, <1>3, SignScan

\* Storing a batch writes the images of its draws behind the ones before.
LEMMA MapHistory ==
  ASSUME ShapeInv, HistoryInv, MapLanes
  PROVE  HistoryInv'
<1>1. /\ UNCHANGED <<call, from>> /\ done' = done + Len(lane) /\ lane' = <<>>
      /\ Draws' = Draws
      /\ out' = [i \in DOMAIN out |->
                   IF i \in done + 1 .. done + Len(lane)
                   THEN MapParts(lane[i - done][1], lane[i - done][2]) ELSE out[i]]
  BY ParseStays DEF MapLanes, call
<1> DEFINE L == Len(lane)
<1>2. /\ done \in Nat /\ L \in Nat /\ MaxN \in Nat /\ DOMAIN out = 1 .. MaxN + 1
      /\ done + L <= MaxN
  <2>1. /\ done \in 0 .. n /\ L \in Nat /\ MaxN \in Nat /\ DOMAIN out = 1 .. MaxN + 1
        /\ n \in 0 .. MaxN
    BY PackedAssumption DEF ShapeInv, TypeOK
  <2>2. pc = "map" /\ done < n /\ L = Batch
    BY DEF ShapeInv, PhaseInv, MapLanes
  <2>3. done + Batch <= n
    BY <2>1, <2>2, BatchBound DEF ShapeInv, ReaderInv
  <2> QED BY <2>1, <2>2, <2>3
<1> HIDE DEF L
<1>3. \A i \in 1 .. MaxN + 1 :
        /\ i \in done + 1 .. done + L =>
             out'[i] = MapParts(lane[i - done][1], lane[i - done][2])
        /\ i \notin done + 1 .. done + L => out'[i] = out[i]
  BY <1>1, <1>2 DEF L
<1>4. \A i \in 1 .. done + L : out'[i] = DrawImage(Draws[from[i]])
  <2> SUFFICES ASSUME NEW i \in 1 .. done + L
               PROVE  out'[i] = DrawImage(Draws[from[i]])
    OBVIOUS
  <2>0. i \in 1 .. MaxN + 1
    BY <1>2
  <2>1. CASE i <= done
    <3>1. i \in 1 .. done /\ i \notin done + 1 .. done + L
      BY <1>2, <2>1
    <3> QED BY <1>3, <2>0, <3>1 DEF HistoryInv
  <2>2. CASE i > done
    <3>1. i \in done + 1 .. done + L /\ i - done \in 1 .. L /\ done + (i - done) = i
      BY <1>2, <2>2
    <3> DEFINE j == i - done
    <3>2. lane[j] = Draws[from[i]]
      <4>1. j \in 1 .. Len(lane) /\ done + j = i
        BY <3>1 DEF L
      <4> HIDE DEF j
      <4> QED BY <4>1 DEF HistoryInv
    <3>3. out'[i] = MapParts(lane[j][1], lane[j][2])
      BY <1>3, <2>0, <3>1
    <3> HIDE DEF j
    <3> QED BY <3>2, <3>3 DEF DrawImage
  <2> QED BY <1>2, <2>1, <2>2
<1>5. \A i \in (done + L) + 1 .. MaxN + 1 : out'[i] = Poison
  <2> SUFFICES ASSUME NEW i \in (done + L) + 1 .. MaxN + 1 PROVE out'[i] = Poison
    OBVIOUS
  <2>1. i \in 1 .. MaxN + 1 /\ i \in done + 1 .. MaxN + 1 /\ i \notin done + 1 .. done + L
    BY <1>2
  <2> QED BY <1>3, <2>1 DEF HistoryInv
<1>6. Len(lane') = 0 /\ done' = done + L /\ Len(from) = done + L
  BY <1>1 DEF L, HistoryInv
<1>7. Len(from') = done' + Len(lane')
  BY <1>1, <1>2, <1>6
<1>8. \A i \in 1 .. done' : out'[i] = DrawImage(Draws[from[i]])'
  BY <1>1, <1>4, <1>6 DEF DrawImage
<1>9. \A i \in done' + 1 .. MaxN + 1 : out'[i] = Poison
  BY <1>5, <1>6
<1>10. from' \in Seq(1 .. Len(Draws'))
  BY <1>1 DEF HistoryInv
<1>11. \A j \in 1 .. Len(lane') : lane'[j] = Draws'[from'[done' + j]]
  BY <1>6
<1> QED BY <1>7, <1>8, <1>9, <1>10, <1>11 DEF HistoryInv

(***************************************************************************)
(* Refinement, and what it gives the caller.                               *)
(***************************************************************************)

StoryInv == ShapeInv /\ ScanInv /\ HistoryInv

\* Scan and history are inductive together, on top of the shape.
LEMMA StoryInvariant == Spec => []StoryInv
<1>1. Init => ScanInv /\ HistoryInv
  <2> SUFFICES ASSUME Init PROVE ScanInv /\ HistoryInv
    OBVIOUS
  <2>1. CallOK
    BY InitReader DEF ReaderInv
  <2>2. Total \in Nat /\ 0 \in 0 .. Total
    BY <2>1, TotalType
  <2>3. Draws \in Seq((0 .. CandMod - 1) \X {0, 1})
    BY <2>1, DrawsType
  <2>4. pos = 0 /\ ~ half /\ reader.consumed = 0
    BY DEF Init, NewReader
  <2>5. ScanFrom = 0
    BY <2>4 DEF ScanFrom
  <2>6. Aligned(0, 0)
    <3> DEFINE s == Parse[0]
    <3>1. s = Draws /\ Len(s) \in Nat
      BY <2>3 DEF Draws
    <3> HIDE DEF s
    <3>2. Len(Draws) = 0 + Len(s) /\ \A i \in 1 .. Len(s) : Draws[0 + i] = s[i]
      BY <3>1
    <3> QED BY <2>2, <3>2 DEF s, Aligned
  <2>7. ScanInv
    BY <2>4, <2>5, <2>6 DEF ScanInv
  <2>8. done = 0 /\ from = <<>> /\ lane = <<>> /\ out = [i \in 1 .. MaxN + 1 |-> Poison]
    BY DEF Init
  <2>9. MaxN \in Nat
    BY PackedAssumption
  <2>10. HistoryInv
    BY <2>8, <2>9 DEF HistoryInv
  <2> QED BY <2>7, <2>10
<1>2. StoryInv /\ ShapeInv' /\ [Next]_vars => StoryInv'
  <2> SUFFICES ASSUME StoryInv, ShapeInv', [Next]_vars PROVE ScanInv' /\ HistoryInv'
    BY DEF StoryInv
  <2>0. ShapeInv /\ ScanInv /\ HistoryInv
    BY DEF StoryInv
  <2>1. CASE DrawCandidate
    <3>1. UNCHANGED <<call, out, done, lane, from>>
      BY <2>1 DEF DrawCandidate
    <3> QED BY <2>0, <2>1, <3>1, CandidateScan, HistoryStays
  <2>2. CASE DrawSign
    BY <2>0, <2>2, SignScan, SignHistory
  <2>3. CASE Start \/ MapLanes \/ Finish \/ UNCHANGED vars
    <3>1. /\ UNCHANGED <<call, reader, cand, half, pos>>
      BY <2>3 DEF Start, MapLanes, Finish, vars
    <3>2. ScanFrom' = ScanFrom /\ stream' = stream /\ Total' = Total
      BY <3>1 DEF ScanFrom, call, Total
    <3>3. Aligned(pos, ScanFrom)'
      <4> DEFINE k == ScanFrom
      <4>1. Aligned(pos, k) /\ ScanFrom' = k /\ pos' = pos
        BY <2>0, <3>1, <3>2 DEF ScanInv
      <4> HIDE DEF k
      <4> QED BY <3>1, <4>1, AlignedThen
    <3>4. ScanInv'
      BY <2>0, <3>1, <3>2, <3>3 DEF ScanInv
    <3>5. CASE MapLanes
      BY <2>0, <3>4, <3>5, MapHistory
    <3>6. CASE Start \/ Finish \/ UNCHANGED vars
      <4>1. UNCHANGED <<call, out, done, lane, from>>
        BY <3>6 DEF Start, Finish, vars
      <4> QED BY <2>0, <3>4, <4>1, HistoryStays
    <3> QED BY <2>3, <3>5, <3>6
  <2> QED BY <2>1, <2>2, <2>3 DEF Next
<1>3. ShapeInv /\ ScanInv /\ HistoryInv => StoryInv
  BY DEF StoryInv
<1> QED BY <1>1, <1>2, <1>3, ShapeInvariant, PTL DEF Spec

\* Every front end implements bounded rejection sampling of the parsed stream:
\* a rejected candidate, or an accepted one with its sign, is one Consume,
\* Finish is the abstract Finish, running dry is Exhaust, and drawing half a
\* draw or storing a batch stutters.
THEOREM Refinement == Spec => Implements
<1>1. Init => Sampling!Init
  <2> SUFFICES ASSUME Init PROVE Sampling!Init
    OBVIOUS
  <2>1. CallOK
    BY InitReader DEF ReaderInv
  <2>2. Draws \in Seq((0 .. CandMod - 1) \X {0, 1}) /\ n \in Nat
    BY <2>1, DrawsType, PackedAssumption DEF CallOK
  <2> QED BY <2>2 DEF Init, Sampling!Init, Status, Finished
<1>2. StoryInv /\ [Next]_vars => [Sampling!Next]_Sampling!vars
  <2> SUFFICES ASSUME StoryInv, [Next]_vars PROVE [Sampling!Next]_Sampling!vars
    OBVIOUS
  <2>0. /\ ShapeInv /\ ScanInv /\ HistoryInv
        /\ n \in Nat /\ done \in Nat /\ Len(lane) \in Nat /\ Len(from) = done + Len(lane)
    <3>1. ShapeInv /\ ScanInv /\ HistoryInv
      BY DEF StoryInv
    <3>2. n \in Nat /\ done \in Nat /\ Len(lane) \in Nat
      BY <3>1 DEF ShapeInv, TypeOK
    <3> QED BY <3>1, <3>2 DEF HistoryInv
  <2>1. UNCHANGED <<n, len, stream>> /\ Draws' = Draws
    <3>1. UNCHANGED call
      BY DEF Next, vars, Start, DrawCandidate, DrawSign, MapLanes, Finish
    <3> QED BY <3>1, ParseStays DEF call
  <2>2. pc # "done" => Status = "sampling" /\ ~ Finished(0)
    BY DEF Status, Finished
  <2>3. pc' # "done" => Status' = "sampling" /\ ~ Finished(0)'
    BY DEF Status, Finished
  <2>4. pc' = "done" /\ rc' = -2 => Status' = "exhausted" /\ ~ Finished(0)'
    BY DEF Status, Finished
  <2>5. pc \in {"draw", "sign"} /\ done < n => Len(from) < n
    <3> SUFFICES ASSUME pc \in {"draw", "sign"}, done < n PROVE Len(from) < n
      OBVIOUS
    <3>1. Len(lane) < Batch /\ Batch \in Nat /\ done + Batch <= n
      BY <2>0, BatchBound DEF ShapeInv, PhaseInv, ReaderInv, TypeOK
    <3> QED BY <2>0, <3>1
  <2>6. CASE DrawCandidate
    <3>1. pc = "draw" /\ done < n /\ from' = from
      BY <2>6 DEF DrawCandidate
    <3>2. CASE pc' = "done" /\ rc' = -2 /\ pos' = pos /\ pos = Len(Draws)
      <4>1. Sampling!Exhaust
        BY <2>1, <2>2, <2>4, <2>5, <3>1, <3>2 DEF Sampling!Exhaust
      <4> QED BY <4>1 DEF Sampling!Next
    <3>3. CASE /\ pc' = "draw" /\ pos' = pos + 1 /\ pos < Len(Draws)
               /\ ~ DrawAccepted(Draws[pos + 1])
      <4>1. Sampling!Consume
        BY <2>1, <2>2, <2>3, <2>5, <3>1, <3>3 DEF Sampling!Consume
      <4> QED BY <4>1 DEF Sampling!Next
    <3>4. CASE pc' = "sign" /\ pos' = pos
      BY <2>1, <2>2, <2>3, <3>1, <3>4 DEF Sampling!vars
    <3> QED BY <2>0, <2>6, <3>2, <3>3, <3>4, CandidateScan
  <2>7. CASE DrawSign
    <3>1. pc = "sign" /\ done < n
      BY <2>0, <2>7 DEF DrawSign, ShapeInv, PhaseInv
    <3>2. CASE pc' = "done" /\ rc' = -2 /\ UNCHANGED <<lane, pos, from>> /\ pos = Len(Draws)
      <4>1. Sampling!Exhaust
        BY <2>1, <2>2, <2>4, <2>5, <3>1, <3>2 DEF Sampling!Exhaust
      <4> QED BY <4>1 DEF Sampling!Next
    <3>3. CASE /\ pc' \in {"draw", "map"} /\ pos' = pos + 1 /\ from' = Append(from, pos + 1)
               /\ pos < Len(Draws) /\ DrawAccepted(Draws[pos + 1])
      <4>1. Sampling!Consume
        BY <2>1, <2>2, <2>3, <2>5, <3>1, <3>3 DEF Sampling!Consume
      <4> QED BY <4>1 DEF Sampling!Next
    <3> QED BY <2>0, <2>7, <3>2, <3>3, SignScan
  <2>8. CASE Finish
    <3>1. /\ pc = "draw" /\ pc' = "done" /\ rc' = 0 /\ done >= n
          /\ UNCHANGED <<out, done, pos, from>>
      BY <2>8 DEF Finish
    <3>2. done = n /\ Len(from) = n
      BY <2>0, <3>1 DEF ShapeInv, TypeOK, PhaseInv
    <3>3. Finished(0)' /\ Status' = "ok"
      BY <3>1 DEF Finished, Status
    <3>4. [i \in 1 .. n' |-> out'[i]] = [i \in 1 .. n |-> DrawImage(Draws[from[i]])]
      BY <2>0, <2>1, <3>1, <3>2 DEF HistoryInv
    <3>5. Sampling!Finish
      BY <2>1, <2>2, <3>1, <3>2, <3>3, <3>4 DEF Sampling!Finish
    <3> QED BY <3>5 DEF Sampling!Next
  <2>9. CASE Start \/ MapLanes
    <3>1. pc # "done" /\ pc' # "done" /\ UNCHANGED <<pos, from>>
      BY <2>9 DEF Start, MapLanes
    <3> QED BY <2>1, <2>2, <2>3, <3>1 DEF Sampling!vars
  <2>10. CASE UNCHANGED vars
    <3>1. UNCHANGED <<n, out, pos, from, pc, rc>>
      BY <2>10 DEF vars, call
    <3> QED BY <2>1, <3>1 DEF Sampling!vars, Status, Finished
  <2> QED BY <2>6, <2>7, <2>8, <2>9, <2>10 DEF Next
<1> QED BY <1>1, <1>2, StoryInvariant, PTL DEF Spec, Implements, Sampling!Spec

\* Sampling and Promise are the same substitution: what one says of the source
\* the other says, and what is proved of Promise holds of the implementation.
LEMMA SamePromise ==
  /\ Sampling!Spec => []Promise!SamplingCorrect
  /\ Sampling!Spec => []Promise!ResultPromised
  /\ \A s, m : Promise!HoldsFirst(s, m) => Sampling!HoldsFirst(s, m)
  /\ \A m : Promise!HoldsFewer(m) => Sampling!HoldsFewer(m)
<1>1. Sampling!Init => Promise!Init
  BY DEF Sampling!Init, Promise!Init
<1>2. [Sampling!Next]_Sampling!vars => [Promise!Next]_Promise!vars
  BY DEF Sampling!Next, Sampling!Consume, Sampling!Finish, Sampling!Exhaust, Sampling!vars,
         Promise!Next, Promise!Consume, Promise!Finish, Promise!Exhaust, Promise!vars
<1>3. Sampling!Spec => []Promise!SamplingCorrect
  BY <1>1, <1>2, Promise!SamplingIsCorrect, PTL DEF Sampling!Spec, Promise!Spec
<1>4. Sampling!Spec => []Promise!ResultPromised
  BY <1>1, <1>2, Promise!PromiseKept, PTL DEF Sampling!Spec, Promise!Spec
<1>5. /\ Sampling!Accepted = Promise!Accepted
      /\ \A S : Sampling!Cardinality(S) = Promise!Cardinality(S)
  BY DEF Sampling!Accepted, Promise!Accepted, Sampling!Cardinality, Promise!Cardinality
<1>6. \A k : Sampling!Rank(k) = Promise!Rank(k)
  BY <1>5 DEF Sampling!Rank, Promise!Rank
<1>7. \A s, m : Promise!HoldsFirst(s, m) => Sampling!HoldsFirst(s, m)
  BY <1>5, <1>6 DEF Sampling!HoldsFirst, Promise!HoldsFirst
<1>8. \A m : Promise!HoldsFewer(m) => Sampling!HoldsFewer(m)
  BY <1>5 DEF Sampling!HoldsFewer, Promise!HoldsFewer
<1> QED BY <1>3, <1>4, <1>7, <1>8

\* All four front ends store the images of the first accepted draws of the
\* stream, in order, a batch as a whole or not at all, and touch nothing past
\* them: scalar or vector, fast or byte-wise, the same bytes give the same
\* samples, also when the source runs dry.
THEOREM StoredInOrder == Spec => []OutputPrefix
<1>1. StoryInv /\ Promise!SamplingCorrect => OutputPrefix
  <2> SUFFICES ASSUME StoryInv, Promise!SamplingCorrect PROVE OutputPrefix
    OBVIOUS
  <2>1. /\ done \in Nat /\ Len(lane) \in Nat /\ Len(from) = done + Len(lane)
        /\ \A i \in 1 .. done : out[i] = DrawImage(Draws[from[i]])
        /\ \A i \in done + 1 .. MaxN + 1 : out[i] = Poison
        /\ (Batched => done % Lanes = 0 \/ done = n)
    BY DEF StoryInv, ShapeInv, TypeOK, PhaseInv, HistoryInv
  <2>2. \A i \in 1 .. Len(from) :
          from[i] \in Promise!Accepted /\ Promise!Rank(from[i]) = i
    BY DEF Promise!SamplingCorrect, Promise!FromRanked
  <2>3. \A i \in 1 .. done : i \in 1 .. Len(from)
    BY <2>1
  <2>4. Promise!HoldsFirst(out, done)
    BY <2>1, <2>2, <2>3 DEF Promise!HoldsFirst
  <2>5. Sampling!HoldsFirst(out, done)
    BY <2>4, SamePromise
  <2> QED BY <2>1, <2>5 DEF OutputPrefix
<1> QED BY <1>1, StoryInvariant, SamePromise, Refinement, PTL DEF Implements

\* -2 is a real shortage: the whole stream holds fewer complete accepted draws
\* than were asked for.
THEOREM ShortageIsReal == Spec => [](Finished(-2) => Sampling!HoldsFewer(n))
<1>1. Promise!ResultPromised => (Finished(-2) => Sampling!HoldsFewer(n))
  BY SamePromise DEF Promise!ResultPromised, Status, Finished
<1> QED BY <1>1, SamePromise, Refinement, PTL DEF Implements

\* Every variable keeps its type: the reservoir never overflows its width, a
\* batch never exceeds the request, and every stored value is a word.
THEOREM TypeCorrect == Spec => []TypeOK
<1>1. ShapeInv => TypeOK
  BY DEF ShapeInv
<1> QED BY <1>1, ShapeInvariant, PTL
=============================================================================
