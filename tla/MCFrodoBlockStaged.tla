------------------------- MODULE MCFrodoBlockStaged -------------------------
(***************************************************************************)
(* The four-bit profile of MCFrodoWordSampler.  Blocks of one and two      *)
(* samples against up to three requested samples give full blocks, a short *)
(* last block and a source that runs out inside the first, a middle or the *)
(* last block; block 0 and a workspace smaller than the block are refused. *)
(***************************************************************************)
EXTENDS FrodoBlockStaged

MCThresholds == <<1, 2>>
MCOrigThresholds == <<2, 5>>
MCInputWords == {1, 6, 7}
=============================================================================
