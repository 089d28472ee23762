--------------------------- MODULE MCFalconLookup ---------------------------
(***************************************************************************)
(* Limbs of two bits stored in an unsigned of three, so that a limb just   *)
(* leaves the top bit free, and a v2 that straddles lo and hi.  The tables *)
(* have zero limbs at the top, equal top limbs in consecutive rows and a   *)
(* row of value one, as the real ones do; q = 45.                          *)
(***************************************************************************)
EXTENDS FalconLookup

MCLimbs(n) == [v0 |-> n % 4, v1 |-> (n \div 4) % 4, v2 |-> n \div 16]

MCTail(f) == [i \in 1 .. 6 |-> MCLimbs(f[i])]
MCOriginalTail == MCTail(<<43, 35, 17, 6, 1, 0>>)
MCSdaTail == MCTail(<<29, 23, 18, 4, 1, 0>>)
MCQLimbs == MCLimbs(45)
MCCumulative == <<16, 22, 27, 41, 44>>
=============================================================================
