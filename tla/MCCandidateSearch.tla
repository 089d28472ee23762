------------------------- MODULE MCCandidateSearch -------------------------
(* Two stages of two points and one, up to two rows of two vectors each,   *)
(* three cells of epsilons, the middle one the paper's, two searches.      *)
EXTENDS CandidateSearch

CONSTANTS frozen, other

MCPoints == <<2, 1>>
MCVectors == {frozen, other}
=============================================================================
