---------------------------- MODULE FalconLimbs ----------------------------
(***************************************************************************)
(* The 72-bit arithmetic of Falcon's Gaussian0 base sampler: a draw is     *)
(* nine little-endian bytes, held as three limbs and compared by a borrow  *)
(* chain in 32-bit unsigned arithmetic (online/falcon/falcon_reverse_tail, *)
(* the acceptance test and the reflection of falcon_base_sampler).         *)
(*                                                                         *)
(* A draw is the integer its nine bytes encode.  In the code LimbMod is    *)
(* 2^24, UintMod is 2^32, MidMod is 2^16 and Rows is 19.                   *)
(***************************************************************************)
EXTENDS Integers, FiniteSets

CONSTANTS
  LimbMod,       \* values of a limb
  UintMod,       \* values of the unsigned type a limb is stored in
  MidMod,        \* values of the part of v2 that sdat_u72.lo holds
  Rows,          \* FALCON_GAUSSIAN0_TAIL_ROWS
  OriginalTail,  \* the official reverse tail, a row of limbs each
  SdaTail,       \* the SDA reverse tail
  QLimbs,        \* the SDA rejection bound q
  Cumulative     \* the frozen cumulative SDA table, one entry less than Rows

Limb == 0 .. LimbMod - 1
Limbs == [v0 : Limb, v1 : Limb, v2 : Limb]
Draw == 0 .. LimbMod * LimbMod * LimbMod - 1

Value(x) == x.v0 + LimbMod * x.v1 + LimbMod * LimbMod * x.v2

ZeroLimbs == [v0 |-> 0, v1 |-> 0, v2 |-> 0]

\* A limb is a whole number of bits below a spare top bit for the borrow, both
\* tables end with the zero sentinel, and the low limb of q is not zero, so
\* that q - 1 needs no borrow.
ASSUME LimbAssumption ==
  /\ LimbMod \in Nat \ {0} /\ UintMod \in Nat /\ 2 * LimbMod <= UintMod
  /\ UintMod % LimbMod = 0
  /\ MidMod \in Nat \ {0}
  /\ Rows \in Nat \ {0}
  /\ OriginalTail \in [1 .. Rows -> Limbs] /\ OriginalTail[Rows] = ZeroLimbs
  /\ SdaTail \in [1 .. Rows -> Limbs] /\ SdaTail[Rows] = ZeroLimbs
  /\ QLimbs \in Limbs /\ QLimbs.v0 > 0

\* The SDA tail is the frozen cumulative table read from the other end.
ASSUME TailAssumption ==
  /\ Cumulative \in [1 .. Rows - 1 -> Nat]
  /\ \A u \in 1 .. Rows - 1 : Value(SdaTail[u]) = Value(QLimbs) - Cumulative[u]

\* Both tails descend.
ASSUME SortedAssumption ==
  \A i, j \in 1 .. Rows : i < j =>
    /\ Value(OriginalTail[j]) <= Value(OriginalTail[i])
    /\ Value(SdaTail[j]) <= Value(SdaTail[i])

FALCON_BASE_SUPPORT_MAX == Rows - 1

-----------------------------------------------------------------------------
(* Decoding *)

\* falcon_u72_limbs_from_le9 and its inline twin.
FromLe9(d) == [v0 |-> d % LimbMod, v1 |-> (d \div LimbMod) % LimbMod,
               v2 |-> ((d \div LimbMod) \div LimbMod) % LimbMod]

\* sdat_u72_from_le9: the low eight bytes and the high one.
SdatFromLe9(d) == [lo |-> d % (LimbMod * LimbMod * MidMod),
                   hi |-> d \div (LimbMod * LimbMod * MidMod)]

\* falcon_u72_limbs_from_sdat: v2 straddles lo and hi.
FromSdat(x) == [v0 |-> x.lo % LimbMod, v1 |-> (x.lo \div LimbMod) % LimbMod,
                v2 |-> ((x.lo \div (LimbMod * LimbMod)) % MidMod) + x.hi * MidMod]

\* sdat_u72_ge.
SdatGe(a, b) == a.hi > b.hi \/ (a.hi = b.hi /\ a.lo >= b.lo)

-----------------------------------------------------------------------------
(* Comparison and lookup *)

\* Unsigned subtraction: a difference of two limbs and a borrow is taken back
\* into 0 .. UintMod - 1.
Wrap(v) == IF v < 0 THEN v + UintMod ELSE v

\* The top bit of the wrapped difference.
Borrow(v) == IF 2 * Wrap(v) >= UintMod THEN 1 ELSE 0

\* Mutant: the borrow of the middle limb is not passed on.
LtNoBorrow(a, b) == Borrow(a.v2 - b.v2)

\* falcon_u72_limbs_lt, also written out inside the lookup loop.
Lt(a, b) ==
  LET c0 == Borrow(a.v0 - b.v0)
      c1 == Borrow(a.v1 - b.v1 - c0)
  IN  Borrow(a.v2 - b.v2 - c1)

\* falcon_gaussian0_reverse_tail_lookup: how many rows exceed the candidate.
Lookup(x, tail) == Cardinality({u \in 1 .. Rows : Lt(x, tail[u]) = 1})

\* online_lookup_u72 on the cumulative table.
CumulativeLookup(x) ==
  Cardinality({i \in 1 .. Rows - 1 : SdatGe(x, SdatFromLe9(Cumulative[i]))})

\* Mutant: q itself is accepted.
IsAcceptedInclusive(x) ==
  IF x.v2 # QLimbs.v2 THEN x.v2 < QLimbs.v2
  ELSE IF x.v1 # QLimbs.v1 THEN x.v1 < QLimbs.v1
  ELSE x.v0 <= QLimbs.v0

\* sda_candidate_is_accepted, most significant limb first.
IsAccepted(x) ==
  IF x.v2 # QLimbs.v2 THEN x.v2 < QLimbs.v2
  ELSE IF x.v1 # QLimbs.v1 THEN x.v1 < QLimbs.v1
  ELSE x.v0 < QLimbs.v0

\* Mutant: the reflection forgets to subtract one from q.
ReverseCoordinateFromQ(x) ==
  LET b0 == IF QLimbs.v0 < x.v0 THEN 1 ELSE 0
      b1 == IF QLimbs.v1 < x.v1 + b0 THEN 1 ELSE 0
  IN  [v0 |-> Wrap(QLimbs.v0 - x.v0) % LimbMod,
       v1 |-> Wrap(QLimbs.v1 - x.v1 - b0) % LimbMod,
       v2 |-> Wrap(QLimbs.v2 - x.v2 - b1)]

\* Mutant: the middle limb is not masked.
ReverseCoordinateUnmasked(x) ==
  LET w0 == QLimbs.v0 - 1
      b0 == IF w0 < x.v0 THEN 1 ELSE 0
      b1 == IF QLimbs.v1 < x.v1 + b0 THEN 1 ELSE 0
  IN  [v0 |-> Wrap(w0 - x.v0) % LimbMod,
       v1 |-> Wrap(QLimbs.v1 - x.v1 - b0),
       v2 |-> Wrap(QLimbs.v2 - x.v2 - b1)]

\* sda_reverse_coordinate: q - 1 - x, limb by limb with explicit borrows.
ReverseCoordinate(x) ==
  LET w0 == QLimbs.v0 - 1
      b0 == IF w0 < x.v0 THEN 1 ELSE 0
      b1 == IF QLimbs.v1 < x.v1 + b0 THEN 1 ELSE 0
  IN  [v0 |-> Wrap(w0 - x.v0) % LimbMod,
       v1 |-> Wrap(QLimbs.v1 - x.v1 - b0) % LimbMod,
       v2 |-> Wrap(QLimbs.v2 - x.v2 - b1)]
=============================================================================
