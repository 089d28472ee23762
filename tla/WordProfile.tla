---------------------------- MODULE WordProfile ----------------------------
(***************************************************************************)
(* One FrodoKEM parameter set of the word-oriented SDA sampler: how a      *)
(* uniform word splits into a candidate and a sign bit, when the candidate *)
(* is accepted and which signed sample it maps to.  The real profiles are  *)
(* WordMod = 2^16 with                                                     *)
(*    640:  CandMod = 2^14, Q = 14534, 11 thresholds                       *)
(*    976:  CandMod = 2^13, Q =  7442,  9 thresholds                       *)
(*    1344: CandMod = 2^7,  Q =   102,  4 thresholds.                      *)
(***************************************************************************)
EXTENDS Integers, Sequences, FiniteSets

CONSTANTS
  WordMod,     \* number of values of a source word (2^16 in the code)
  CandMod,     \* number of values of a candidate   (2^random_draw_bits)
  Q,           \* rejection bound of the SDA table (its denominator)
  Thresholds,  \* non-terminal cumulative thresholds of the table
  OrigThresholds  \* thresholds of the original Frodo table of the same set

Word == 0 .. WordMod - 1

\* The candidate mask and the sign bit above it fit in the word, and the
\* table is not degenerate.
ASSUME ProfileAssumption ==
  /\ WordMod \in Nat \ {0}
  /\ CandMod \in Nat \ {0}
  /\ 2 * CandMod <= WordMod
  /\ Q \in 1 .. CandMod
  /\ Thresholds \in Seq(1 .. Q)
  /\ Len(Thresholds) < WordMod
  /\ OrigThresholds \in Seq(Word)
  /\ Len(OrigThresholds) < WordMod

\* frodoXXX_word_candidate: the low bits.
Candidate(z) == z % CandMod

\* frodoXXX_word_sign: the bit above the candidate.
SignBit(z) == (z \div CandMod) % 2

\* frodoXXX_word_accept.
AcceptCandidate(c) == c < Q

\* geXXX / geXXX_sda: branch-free count of the thresholds at or below c.
Ge(c) == Cardinality({i \in DOMAIN Thresholds : c >= Thresholds[i]})

\* signXXX / sign_sda: ((-(s)) ^ mag) + s in 16-bit arithmetic.
ApplySign(mag, s) ==
  IF s = 1 THEN ((WordMod - 1 - mag) + 1) % WordMod ELSE mag

Accepts(z) == AcceptCandidate(Candidate(z))
MapParts(c, s) == ApplySign(Ge(c), s)
Map(z) == MapParts(Candidate(z), SignBit(z))

\* The original sampler takes its sign from bit 0 and the 15 bits above it
\* are the uniform value, compared strictly with the official table.
OrigValue(z) == z \div 2
OrigSign(z) == z % 2
Gt(c) == Cardinality({i \in DOMAIN OrigThresholds : c > OrigThresholds[i]})
OrigMapParts(c, s) == ApplySign(Gt(c), s)
OrigMap(z) == OrigMapParts(OrigValue(z), OrigSign(z))
=============================================================================
