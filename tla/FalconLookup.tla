---------------------------- MODULE FalconLookup ----------------------------
(***************************************************************************)
(* One pass of the reverse-tail kernel of Falcon's base sampler, row by    *)
(* row, in the three coordinate systems it is used with:                   *)
(*   original   falcon_original_gaussian0_*: the official table            *)
(*   direct     falcon_sda_gaussian0_*: an accepted draw as it comes       *)
(*   reflected  the audit variant: an accepted draw x as q - 1 - x         *)
(* Its names differ from those of FalconSampler, so that one module can    *)
(* reason about both.                                                      *)
(***************************************************************************)
EXTENDS FalconLimbs

VARIABLES
  system,       \* coordinate system
  draw,       \* the nine bytes drawn
  x,          \* the candidate the kernel is given
  u, z,       \* rows done and the count so far
  at

lookupVars == <<system, draw, x, u, z, at>>

TailOf(k) == IF k = "original" THEN OriginalTail ELSE SdaTail

LookupInit ==
  /\ system \in {"original", "direct", "reflected"}
  /\ draw \in Draw
  /\ x = ZeroLimbs /\ u = 0 /\ z = 0
  /\ at = "decode"

\* DecodeDraw, and for the SDA kinds test; a rejected draw never reaches the kernel.
DecodeDraw ==
  /\ at = "decode"
  /\ LET c == FromLe9(draw) IN
       IF system # "original" /\ ~ IsAccepted(c)
       THEN at' = "rejected" /\ x' = c
       ELSE at' = "scan" /\ x' = IF system = "reflected" THEN ReverseCoordinate(c) ELSE c
  /\ UNCHANGED <<system, draw, u, z>>

\* One turn of the fixed 19-row loop.
ScanRow ==
  /\ at = "scan" /\ u < Rows
  /\ u' = u + 1
  /\ z' = z + Lt(x, TailOf(system)[u + 1])
  /\ UNCHANGED <<system, draw, x, at>>

Return ==
  /\ at = "scan" /\ u = Rows
  /\ at' = "done"
  /\ UNCHANGED <<system, draw, x, u, z>>

LookupNext == DecodeDraw \/ ScanRow \/ Return

LookupSpec == LookupInit /\ [][LookupNext]_lookupVars

-----------------------------------------------------------------------------
\* The candidate given to the kernel always has proper limbs: the masks of the
\* reflection undo every wrap, and no borrow is left at the top.
LookupTypeOK ==
  /\ system \in {"original", "direct", "reflected"} /\ draw \in Draw
  /\ x \in Limbs
  /\ u \in 0 .. Rows /\ z \in 0 .. u
  /\ at \in {"decode", "scan", "rejected", "done"}

-----------------------------------------------------------------------------
(* Safety *)

\* The integer the kernel looks up.
Coordinate == IF system = "reflected" THEN Value(QLimbs) - 1 - draw ELSE draw

\* The borrow chain compares integers: whatever the limbs, the result is the
\* sample whose interval of the reverse tail holds the draw, so it lies in the
\* support and the error return after the lookup is never taken.
InverseCdf ==
  at = "done" =>
    /\ z \in 0 .. FALCON_BASE_SUPPORT_MAX
    /\ z > 0 => Coordinate < Value(TailOf(system)[z])
    /\ Value(TailOf(system)[z + 1]) <= Coordinate
    /\ z = Lookup(x, TailOf(system))

\* Both decoders yield the same limbs; the branching acceptance test, the
\* borrow chain against q and integer comparison agree; and the reflected
\* lookup of a draw is the lookup in the frozen cumulative table.
CoordinatesAgree ==
  /\ FromSdat(SdatFromLe9(draw)) = FromLe9(draw)
  /\ Value(FromLe9(draw)) = draw
  /\ IsAccepted(FromLe9(draw)) <=> Lt(FromLe9(draw), QLimbs) = 1
  /\ at = "rejected" => draw >= Value(QLimbs)
  /\ at = "done" /\ system = "reflected" =>
       z = CumulativeLookup(SdatFromLe9(draw))

\* Draws of a kind that sample s is the image of.
Preimages(s) ==
  {d \in Draw :
     /\ system # "original" => IsAccepted(FromLe9(d))
     /\ s = Lookup(IF system = "reflected" THEN ReverseCoordinate(FromLe9(d))
                                         ELSE FromLe9(d), TailOf(system))}

\* Mass of s: the gap between consecutive tails below the total.
Mass(s) ==
  LET total == IF system = "original" THEN LimbMod * LimbMod * LimbMod
                                    ELSE Value(QLimbs)
  IN  (IF s = 0 THEN total ELSE Value(TailOf(system)[s])) - Value(TailOf(system)[s + 1])

\* Direct and reflected coordinates induce the same exact masses: every sample
\* has as many accepted draws as its interval is long.
MassesExact ==
  at = "decode" => \A s \in 0 .. FALCON_BASE_SUPPORT_MAX : Cardinality(Preimages(s)) = Mass(s)
=============================================================================
