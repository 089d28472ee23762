------------------------- MODULE RejectionSampling -------------------------
(***************************************************************************)
(* What every bounded sampler of the online phase promises, whatever loop  *)
(* it is written as: it consumes a finite source of draws in order, keeps  *)
(* the accepted ones, and returns the images of the first n accepted       *)
(* draws, or reports that the source held fewer than n.                    *)
(***************************************************************************)
EXTENDS Integers, Sequences, FiniteSets

CONSTANTS
  Draw,          \* values a draw can take
  Accept(_),     \* acceptance test of a draw
  Image(_)       \* sample an accepted draw is mapped to

VARIABLES
  draws,         \* the source
  n,             \* samples requested
  pos,           \* draws consumed so far
  from,          \* positions of the accepted draws, in order
  status,        \* "sampling", "ok" or "exhausted"
  result         \* the samples, once status = "ok"

vars == <<draws, n, pos, from, status, result>>

Init ==
  /\ draws \in Seq(Draw)
  /\ n \in Nat
  /\ pos = 0
  /\ from = <<>>
  /\ status = "sampling"
  /\ result = <<>>

Consume ==
  /\ status = "sampling"
  /\ Len(from) < n
  /\ pos < Len(draws)
  /\ pos' = pos + 1
  /\ from' = IF Accept(draws[pos + 1]) THEN Append(from, pos + 1) ELSE from
  /\ UNCHANGED <<draws, n, status, result>>

Finish ==
  /\ status = "sampling"
  /\ Len(from) = n
  /\ status' = "ok"
  /\ result' = [i \in 1 .. n |-> Image(draws[from[i]])]
  /\ UNCHANGED <<draws, n, pos, from>>

Exhaust ==
  /\ status = "sampling"
  /\ Len(from) < n
  /\ pos = Len(draws)
  /\ status' = "exhausted"
  /\ UNCHANGED <<draws, n, pos, from, result>>

Next == Consume \/ Finish \/ Exhaust

Spec == Init /\ [][Next]_vars

-----------------------------------------------------------------------------
(* What a source promises, whatever consumes it. *)

\* The accepted draws of the whole source, and the place of draw k among them.
Accepted == {k \in 1 .. Len(draws) : Accept(draws[k])}
Rank(k) == Cardinality({j \in Accepted : j <= k})

\* The first m samples in s are the images of the first m accepted draws.
HoldsFirst(s, m) ==
  \A i \in 1 .. m : \E k \in Accepted : Rank(k) = i /\ s[i] = Image(draws[k])

\* The source holds fewer than m accepted draws.
HoldsFewer(m) == Cardinality(Accepted) < m

-----------------------------------------------------------------------------
TypeOK ==
  /\ draws \in Seq(Draw)
  /\ n \in Nat
  /\ pos \in 0 .. Len(draws)
  /\ from \in Seq(1 .. Len(draws))
  /\ status \in {"sampling", "ok", "exhausted"}

\* from lists exactly the accepted positions of the consumed prefix, each
\* once and in stream order.
FromExact ==
  /\ \A i, j \in 1 .. Len(from) : i < j => from[i] < from[j]
  /\ \A i \in 1 .. Len(from) : from[i] <= pos /\ Accept(draws[from[i]])
  /\ \A k \in 1 .. pos :
        Accept(draws[k]) => \E i \in 1 .. Len(from) : from[i] = k

\* A success returns the images of the first n accepted draws.
ResultExact ==
  status = "ok" =>
    /\ Len(from) = n
    /\ result = [i \in 1 .. n |-> Image(draws[from[i]])]

\* A failure is never reported while enough accepted draws remain.
ExhaustedExact ==
  status = "exhausted" => pos = Len(draws) /\ Len(from) < n

\* from[i] is the place of the i-th accepted draw of the whole source, and no
\* accepted draw of the consumed prefix is left out.
FromRanked ==
  /\ \A i \in 1 .. Len(from) : from[i] \in Accepted /\ Rank(from[i]) = i
  /\ Rank(pos) = Len(from)

SamplingCorrect == FromExact /\ FromRanked /\ ResultExact /\ ExhaustedExact

\* The promise in terms of the source and the request alone.
ResultPromised ==
  /\ status = "ok" => HoldsFirst(result, n)
  /\ status = "exhausted" => HoldsFewer(n)
=============================================================================
