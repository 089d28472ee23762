------------------------- MODULE MCTableGeneration -------------------------
(* Two parameter sets, two epsilons each, three masses below 2^3.          *)
EXTENDS TableGeneration

CONSTANTS frodo640, frodo1344

MCParams == <<frodo640, frodo1344>>

\* Two vectors of one denominator, one of a smaller denominator that rejects
\* too much to dominate the baseline, and one result per way to be refused.
MCSolverResults ==
  { [rc |-> 0, q |-> 6, p |-> <<3, 2, 1>>], [rc |-> 0, q |-> 6, p |-> <<2, 2, 2>>],
    [rc |-> 0, q |-> 5, p |-> <<3, 2, 0>>],
    [rc |-> 0, q |-> 2, p |-> <<1, 0, 1>>],   \* internal zero
    [rc |-> 0, q |-> 8, p |-> <<5, 2, 1>>],   \* not compact
    [rc |-> 0, q |-> 4, p |-> <<2, 1, 0>>],   \* masses do not sum to q
    [rc |-> -2, q |-> 0, p |-> <<0, 0, 0>>] } \* the solver gave up

MCQualities ==
  { [sd |-> 0, rd |-> 0, err |-> 0], [sd |-> 1, rd |-> 0, err |-> 0],
    [sd |-> 0, rd |-> 1, err |-> 0], [sd |-> 0, rd |-> 0, err |-> 1] }
MCBaseline == [sd |-> 0, rd |-> 0, err |-> 0]
=============================================================================
