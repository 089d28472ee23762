-------------------------- MODULE MCFrodoDispatch --------------------------
(***************************************************************************)
(* Four-bit words with three-bit candidates and bound 6, two-bit bytes,    *)
(* vectors of two.  The words are accepted and rejected ones of both       *)
(* signs, and between them they meet the original thresholds at equality.  *)
(***************************************************************************)
EXTENDS FrodoDispatch

MCThresholds == <<2, 4>>
MCOrigThresholds == <<2, 5, 7>>
MCInputWords == {4, 10, 13, 15}
=============================================================================
