------------------------- MODULE MCFrodoWordSampler -------------------------
(***************************************************************************)
(* A four-bit word (two candidate bits, a sign bit, one ignored bit) with  *)
(* rejection bound 3 and two thresholds.  The enumerated words are an      *)
(* accepted positive, an accepted negative, an accepted one whose ignored  *)
(* bit is set, and a rejected word with its sign bit set.                  *)
(***************************************************************************)
EXTENDS FrodoWordSampler

MCThresholds == <<1, 2>>
MCOrigThresholds == <<2, 5>>
MCInputWords == {1, 6, 8, 7}
=============================================================================
