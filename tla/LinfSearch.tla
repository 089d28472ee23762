----------------------------- MODULE LinfSearch -----------------------------
(***************************************************************************)
(* sda_exact_linf_sda_solve: the shortest vector, in the maximum norm, of  *)
(* the SDA lattice of one epsilon, by enumerating denominators.            *)
(*                                                                         *)
(* For a denominator q >= 1 the best numerators are the nearest integers,  *)
(* and MPFR interval arithmetic encloses the norm max(C dist(q), q) of     *)
(* that vector in [lo[q], hi[q]].  For q = 0 the norm is C.  A vector of   *)
(* denominator q is at least q long, so only denominators below the best   *)
(* norm found so far need a look: the bound shrinks while the loop runs.   *)
(* Norms are integers in units of 1/Scale.                                 *)
(***************************************************************************)
EXTENDS Integers

CONSTANTS
  Scale,      \* units of a norm of 1
  MaxQ,       \* bound: denominators whose norms are tabulated
  MaxC,       \* bound: largest norm C of the vector of denominator 0
  MaxExcess,  \* bound: how far a norm's enclosure may start above its q
  MaxWidth,   \* bound: widest enclosure
  MaxLimit    \* longest enumeration the code accepts (10000000)

ASSUME LinfAssumption ==
  /\ Scale \in Nat \ {0}
  /\ MaxQ \in Nat \ {0}
  /\ MaxC \in Nat /\ MaxExcess \in Nat /\ MaxWidth \in Nat
  /\ MaxLimit \in Nat

VARIABLES
  lo, hi,     \* enclosures of the norms, index 0 holding C
  initialQ,   \* denominator of the vector to start from, 0 for none
  best,       \* r->q, r->norm_lower, r->norm_upper
  q, limit,   \* loop variable and its bound
  enumerated, \* r->q_enumerated
  upper,      \* r->q_search_upper
  step, rc

input == <<lo, hi, initialQ>>
linfVars == <<input, best, q, limit, enumerated, upper, step, rc>>

VectorOf(k) == [q |-> k, lo |-> lo[k], hi |-> hi[k]]

\* Mutant: the bound is the norm rounded down.
LimitForFloor(x) == x \div Scale

\* mpfr_get_ui(x, MPFR_RNDU), and one more unless x is an integer.
LimitFor(x) == IF x % Scale = 0 THEN x \div Scale ELSE x \div Scale + 2

\* No numerator is further than 1/2 from its multiple of alpha, so denominator
\* 1 is shorter than C > 1 and denominator 0 never wins.
LinfInit ==
  /\ \E c \in Scale + 1 .. MaxC,
        excess \in [1 .. MaxQ -> 0 .. MaxExcess],
        width \in [1 .. MaxQ -> 0 .. MaxWidth] :
       /\ lo = [k \in 0 .. MaxQ |-> IF k = 0 THEN c ELSE k * Scale + excess[k]]
       /\ hi = [k \in 0 .. MaxQ |-> IF k = 0 THEN c ELSE k * Scale + excess[k] + width[k]]
  /\ hi[1] < lo[0]
  /\ initialQ \in 0 .. MaxQ
  /\ LimitFor(hi[initialQ]) <= MaxQ + 1   \* all the loop can visit is tabulated
  /\ best = VectorOf(0)
  /\ q = 0 /\ limit = 0 /\ enumerated = 0 /\ upper = 0
  /\ step = "start" /\ rc = 0

FirstLimit == LET l == LimitFor(hi[initialQ]) IN IF l < 2 THEN 2 ELSE l

\* Mutant: the enumeration starts at the vector it was given.
StartAtInitial ==
  /\ step = "start"
  /\ best' = VectorOf(initialQ)
  /\ limit' = FirstLimit
  /\ IF FirstLimit > MaxLimit
     THEN step' = "done" /\ rc' = -2 /\ UNCHANGED <<q, upper>>
     ELSE step' = "loop" /\ rc' = rc /\ q' = initialQ + 1 /\ upper' = FirstLimit - 1
  /\ UNCHANGED <<input, enumerated>>

\* The vector to start from replaces the one of denominator 0 unseen.
Start ==
  /\ step = "start"
  /\ best' = VectorOf(initialQ)
  /\ limit' = FirstLimit
  /\ IF FirstLimit > MaxLimit
     THEN step' = "done" /\ rc' = -2 /\ UNCHANGED <<q, upper>>
     ELSE step' = "loop" /\ rc' = rc /\ q' = 1 /\ upper' = FirstLimit - 1
  /\ UNCHANGED <<input, enumerated>>

\* Only an enclosure that lies below the best one's entirely replaces it.
Improves == hi[q] < best.lo

\* Mutant: a candidate that does not improve is skipped without advancing.
TryStuck ==
  /\ step = "loop" /\ q < limit
  /\ enumerated' = IF Improves THEN enumerated + 1 ELSE enumerated
  /\ best' = IF Improves THEN VectorOf(q) ELSE best
  /\ LET l == LimitFor(hi[q]) IN
       IF Improves /\ l < limit THEN limit' = l /\ upper' = l - 1
       ELSE UNCHANGED <<limit, upper>>
  /\ q' = IF Improves THEN q + 1 ELSE q
  /\ UNCHANGED <<input, step, rc>>

\* One denominator.
Try ==
  /\ step = "loop" /\ q < limit
  /\ enumerated' = enumerated + 1
  /\ best' = IF Improves THEN VectorOf(q) ELSE best
  /\ LET l == LimitFor(hi[q]) IN
       IF Improves /\ l < limit THEN limit' = l /\ upper' = l - 1
       ELSE UNCHANGED <<limit, upper>>
  /\ q' = q + 1
  /\ UNCHANGED <<input, step, rc>>

\* nearest_all and norm_cert are never cleared: a finished search is certified.
Finish ==
  /\ step = "loop" /\ q >= limit
  /\ step' = "done"
  /\ UNCHANGED <<input, best, q, limit, enumerated, upper, rc>>

LinfNext == Start \/ Try \/ Finish

\* The search is one thread's loop: it runs as long as it can.
LinfSpec == LinfInit /\ [][LinfNext]_linfVars /\ WF_linfVars(LinfNext)

-----------------------------------------------------------------------------
TypeOK ==
  /\ lo \in [0 .. MaxQ -> Nat] /\ hi \in [0 .. MaxQ -> Nat]
  /\ initialQ \in 0 .. MaxQ
  /\ best \in [q : 0 .. MaxQ, lo : Nat, hi : Nat]
  /\ q \in 0 .. MaxQ + 1
  /\ limit \in 0 .. MaxQ + 1
  /\ enumerated \in 0 .. MaxQ
  /\ upper \in 0 .. MaxQ
  /\ step \in {"start", "loop", "done"}
  /\ rc \in {0, -2}

\* The enclosures the input consists of.
Enclosures ==
  /\ \A k \in 0 .. MaxQ : lo[k] <= hi[k]
  /\ \A k \in 1 .. MaxQ : k * Scale <= lo[k]
  /\ hi[1] < lo[0]
  /\ LimitFor(hi[initialQ]) <= MaxQ + 1

-----------------------------------------------------------------------------
(* Safety *)

\* The inductive invariant: the best vector is the enclosure of its own
\* denominator, no denominator visited so far is certainly shorter, none at or
\* past the shrinking bound can be, and the loop always visits denominator 1,
\* the one that rules out denominator 0.
LoopInv ==
  /\ TypeOK
  /\ Enclosures
  /\ best.lo = lo[best.q] /\ best.hi = hi[best.q]
  /\ step # "start" =>
       /\ limit >= 1
       /\ best.hi <= limit * Scale
  /\ step = "start" => q = 0 /\ enumerated = 0
  /\ step = "loop" \/ (step = "done" /\ rc = 0) =>
       /\ q >= 1 /\ limit >= 1
       /\ q = 1 => limit >= 2
       /\ upper = limit - 1
       /\ enumerated = q - 1
       /\ \A k \in 1 .. q - 1 : best.lo <= hi[k]
  /\ step = "done" /\ rc = 0 => q >= limit

\* A certified result is a shortest vector as far as the enclosures can tell:
\* no vector of any denominator, searched or beyond the reported range, from 0
\* on, is certainly shorter; with enclosures of width zero it is the exact
\* minimum.  The range reported as searched was searched, and whatever lies
\* outside it is at least as long as the result.
Shortest ==
  step = "done" /\ rc = 0 =>
    /\ best.q # 0
    /\ \A k \in 0 .. MaxQ : best.lo <= hi[k]
    /\ (\A k \in 0 .. MaxQ : lo[k] = hi[k]) => \A k \in 0 .. MaxQ : hi[best.q] <= hi[k]
    /\ enumerated >= upper
    /\ \A k \in upper + 1 .. MaxQ : best.hi <= lo[k]

-----------------------------------------------------------------------------
(* Liveness *)

\* The search ends, whatever improvements it meets on the way.
Terminates == <>(step = "done")
=============================================================================
