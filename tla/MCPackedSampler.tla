-------------------------- MODULE MCPackedSampler --------------------------
(***************************************************************************)
(* Two-bit bytes, refills of two bytes, three-bit candidates with bound 6: *)
(* a candidate spans bytes, an accepted draw empties a refill exactly, a   *)
(* rejected one leaves a bit that forces the byte-wise path, and sources   *)
(* of up to five bytes end inside a candidate and before a sign bit.       *)
(***************************************************************************)
EXTENDS PackedSampler

MCThresholds == <<2, 4>>
MCOrigThresholds == <<2>>
=============================================================================
