-------------------------- MODULE MCFalconSampler --------------------------
(***************************************************************************)
(* One-bit limbs: eight draws, q = 5 and a support of four samples, without *)
(* a gap.  The source mixes draws at both ends of the accepted             *)
(* range (0, 4), one inside it (2) and the bound itself (5).               *)
(***************************************************************************)
EXTENDS FalconSampler

MCLimbs(k) == [v0 |-> k % 2, v1 |-> (k \div 2) % 2, v2 |-> k \div 4]
MCTail(f) == [i \in 1 .. 4 |-> MCLimbs(f[i])]
MCOriginalTail == MCTail(<<6, 3, 1, 0>>)
MCSdaTail == MCTail(<<4, 2, 1, 0>>)
MCQLimbs == MCLimbs(5)
MCCumulative == <<1, 3, 4>>
=============================================================================
