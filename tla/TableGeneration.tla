-------------------------- MODULE TableGeneration --------------------------
(***************************************************************************)
(* From epsilons to verified tables: generate_sdat solves the lattice of   *)
(* every epsilon of a grid (or of one epsilon given by the user), keeps    *)
(* the best structurally valid vector per parameter set and writes the     *)
(* tables it got; verify_sdat, built with the tables of all parameter      *)
(* sets, selects again from the same configurations and compares what it   *)
(* finds with what was compiled in.                                        *)
(*                                                                         *)
(* The solver is deterministic: an epsilon of the grid has one result per  *)
(* parameter set, and a vector has one quality (the MPFR metrics, ranked). *)
(***************************************************************************)
EXTENDS Integers, Sequences, SequencesExt, FiniteSetsExt

CONSTANTS
  Params,        \* the parameter sets --all generates, in order
  NoBaseline,    \* a parameter set without a baseline table (falcon)
  K,             \* c.precision_k
  Trials,        \* c.epsilon_initial_trials
  SolverResults, \* bound: results [rc, q, p] of sda_exact_linf_sda_solve
  Qualities,     \* bound: ranks [sd, rd, err] of a vector's metrics, on its support
                 \* and with the tail
  Baseline,      \* ranks of the baseline's metrics and of 2^-k
  HistoricalQ    \* historical_q

ASSUME GenerationAssumption ==
  /\ K \in 1 .. 16 /\ Trials \in Nat \ {0}
  /\ NoBaseline \notin Range(Params)
  /\ HistoricalQ \in 1 .. 2 ^ K
  /\ Params \in Seq(Range(Params))
  /\ SolverResults \subseteq [rc : Int, q : Nat, p : Seq(Nat)]
  /\ Qualities \subseteq [sd : Nat, rd : Nat, err : Nat]

VARIABLES
  mode,      \* "grid": --config, "all": --all, "epsilon": --config --epsilon
  requested, \* the parameter sets asked for, in order
  solve,     \* result of the solver per parameter set and epsilon of its grid
  quality,   \* metrics of every vector
  next,      \* how many of the requested were tried
  tables,    \* r[0 .. m-1] with names[0 .. m-1], and the set each was generated for
  failures,
  exit,      \* exit status of generate_sdat
  checked,   \* tables the verification has looked at
  ok, verdict, pc

problem == <<mode, requested, solve, quality>>
generationVars == <<problem, next, tables, failures, exit, checked, ok, verdict, pc>>

-----------------------------------------------------------------------------
(* One epsilon *)

NoResult == [q |-> 0]

DrawBits(q) == Min({b \in 0 .. K : q <= 2 ^ b})

\* The gates of solve_svp_candidate: a vector of masses that sum to a compact
\* denominator, without a zero in front of a mass.
StructurallyValid(s) ==
  /\ s.rc = 0
  /\ s.q > 0 /\ FoldSeq(+, 0, s.p) = s.q
  /\ s.q < 2 ^ K
  /\ \A i, j \in DOMAIN s.p : i < j /\ s.p[i] = 0 => s.p[j] = 0

Acceptable(q) == q * 2 ^ DrawBits(HistoricalQ) >= HistoricalQ * 2 ^ DrawBits(q)

\* baseline_dominance_certified
Dominates(s) ==
  LET m == quality[s] IN
    m.err <= Baseline.err /\ m.sd <= Baseline.sd /\ m.rd <= Baseline.rd /\ Acceptable(s.q)

\* production_eligible: only the certificate counts, not the quality.
CandidateOf(s, eps) ==
  IF StructurallyValid(s)
  THEN LET m == quality[s] IN
         [q |-> s.q, p |-> s.p, eps |-> eps, dominance |-> Dominates(s),
          sd |-> m.sd, rd |-> m.rd, err |-> m.err]
  ELSE NoResult

-----------------------------------------------------------------------------
(* The grid of a parameter set *)

\* Mutant: the Renyi divergence is compared before the statistical distance.
KeyRenyiFirst(r) == <<r.q, 2 ^ DrawBits(r.q) - r.q, r.rd, r.sd, r.err, r.eps>> \o r.p

\* What better_min_q compares, the most significant first.
Key(r) == <<r.q, 2 ^ DrawBits(r.q) - r.q, r.sd, r.rd, r.err, r.eps>> \o r.p

LexLess(a, b) ==
  \E j \in DOMAIN a : a[j] < b[j] /\ \A i \in 1 .. j - 1 : a[i] = b[i]

BetterMinQ(c, b) == b.q = 0 \/ LexLess(Key(c), Key(b))

\* The loop of sda_generate_for_config over the grid: the best of its first t
\* candidates.
BestOf(name) ==
  LET Kept[t \in 0 .. Trials] ==
        IF t = 0 THEN NoResult
        ELSE LET c == CandidateOf(solve[name][t], t)
                 b == Kept[t - 1] IN
               IF c.q # 0 /\ BetterMinQ(c, b) THEN c ELSE b
  IN  Kept

SelectFromGrid(name) == BestOf(name)[Trials]

-----------------------------------------------------------------------------
(* generate_sdat *)

GenerationInit ==
  /\ mode \in {"grid", "all", "epsilon"}
  /\ requested \in IF mode = "all" THEN {Params} ELSE {<<Params[1]>>, <<NoBaseline>>}
  /\ solve \in [Range(requested) -> [1 .. Trials -> SolverResults]]
  /\ quality \in [{s \in SolverResults : StructurallyValid(s)} -> Qualities]
  /\ next = 0 /\ tables = <<>> /\ failures = 0 /\ exit = -1
  /\ checked = 0 /\ ok = TRUE /\ verdict = -1
  /\ pc = "generate"

\* one(): the candidate of an epsilon the user gave, anywhere in its range, is
\* taken as it is.
ResultsOf(name) ==
  IF name = NoBaseline THEN {NoResult}
  ELSE IF mode = "epsilon" THEN {CandidateOf(s, 0) : s \in SolverResults}
  ELSE {SelectFromGrid(name)}

\* names[m]: what --all calls a parameter set; with --config whichever set's
\* name, or none, the path of the file holds.
NamesOf(set) == IF mode = "all" THEN {set} ELSE Range(Params) \union {NoBaseline}

\* With --all a failure is counted and the next parameter set takes its place
\* in r[] and names[].
GenerateOne ==
  /\ pc = "generate" /\ next < Len(requested)
  /\ next' = next + 1
  /\ LET set == requested[next + 1] IN
       \E r \in ResultsOf(set), name \in NamesOf(set) :
         IF r.q # 0
         THEN /\ tables' = Append(tables, [set |-> set, name |-> name, r |-> r])
              /\ UNCHANGED <<failures, exit, pc>>
         ELSE /\ IF mode = "all"
                 THEN failures' = failures + 1 /\ UNCHANGED <<exit, pc>>
                 ELSE exit' = 1 /\ pc' = "done" /\ UNCHANGED failures
              /\ UNCHANGED tables
  /\ UNCHANGED <<problem, checked, ok, verdict>>

\* write_outputs, and the status --all-available always reports.  verify_sdat
\* builds only with the baselines of all parameter sets, which the header lists
\* whether they were generated or not, and with no file left truncated because
\* another could not be opened.
Write ==
  /\ pc = "generate" /\ next = Len(requested)
  /\ \/ /\ \E available \in BOOLEAN :
             /\ available => mode = "all"
             /\ exit' = IF available \/ failures > 0 THEN 2 ELSE 0
        /\ pc' = IF mode = "all" /\ failures = 0 THEN "verify" ELSE "done"
     \/ exit' = 1 /\ pc' = "done"
  /\ UNCHANGED <<problem, next, tables, failures, checked, ok, verdict>>

-----------------------------------------------------------------------------
(* verify_sdat --all *)

\* Mutant: the verification remembers its last table only.
VerifyOneLast ==
  /\ pc = "verify" /\ checked < Len(tables)
  /\ checked' = checked + 1
  /\ LET t == tables[checked + 1]
         r == SelectFromGrid(t.name) IN
       ok' = (r.q = t.r.q /\ r.q # 0 /\ r.p = t.r.p /\ r.dominance)
  /\ UNCHANGED <<problem, next, tables, failures, exit, verdict, pc>>

\* verify_one: a table must be what the grid of its configuration selects, and
\* the selected vector must dominate the baseline.
VerifyOne ==
  /\ pc = "verify" /\ checked < Len(tables)
  /\ checked' = checked + 1
  /\ LET t == tables[checked + 1]
         r == SelectFromGrid(t.name) IN
       ok' = (ok /\ r.q = t.r.q /\ r.q # 0 /\ r.p = t.r.p /\ r.dominance)
  /\ UNCHANGED <<problem, next, tables, failures, exit, verdict, pc>>

Report ==
  /\ pc = "verify" /\ checked = Len(tables)
  /\ verdict' = IF ok /\ tables # <<>> THEN 0 ELSE 1
  /\ pc' = "done"
  /\ UNCHANGED <<problem, next, tables, failures, exit, checked, ok>>

GenerationNext == GenerateOne \/ Write \/ VerifyOne \/ Report

GenerationSpec == GenerationInit /\ [][GenerationNext]_generationVars

-----------------------------------------------------------------------------
(* Safety *)

\* The vectors the grid of a parameter set offers.
Eligible(name) ==
  {CandidateOf(solve[name][t], t) : t \in {u \in 1 .. Trials : StructurallyValid(solve[name][u])}}

\* No eligible vector of the grid has a smaller denominator than r, nor among
\* those of r's denominator better metrics, in the order of their importance.
IsBestOf(r, name) ==
  /\ r \in Eligible(name)
  /\ \A c \in Eligible(name) :
       /\ c.q >= r.q
       /\ c.q = r.q => c.sd >= r.sd
       /\ c.q = r.q /\ c.sd = r.sd => c.rd >= r.rd
       /\ c.q = r.q /\ c.sd = r.sd /\ c.rd = r.rd => c.err >= r.err
       /\ c.q = r.q /\ c.sd = r.sd /\ c.rd = r.rd /\ c.err = r.err => c.eps >= r.eps

\* Every parameter set tried has, in the order asked for, the best vector of
\* its grid, as better_min_q orders them: the smallest denominator, however
\* good or bad its metrics are.  Those left out are the failures, and have no
\* eligible vector at all.  With --all a table bears the name of its set, and
\* a status of 0 means that all that was asked for was written.
TablesAreBest ==
  /\ mode = "all" =>
       /\ Len(tables) + failures = next
       /\ \A k \in DOMAIN tables : tables[k].name = tables[k].set
  /\ \E at \in [DOMAIN tables -> 1 .. next] :
       /\ \A k, l \in DOMAIN tables : k < l => at[k] < at[l]
       /\ \A k \in DOMAIN tables : tables[k].set = requested[at[k]]
  /\ mode # "epsilon" => \A i \in 1 .. next :
       LET set == requested[i] IN
         IF set = NoBaseline \/ Eligible(set) = {}
         THEN \A k \in DOMAIN tables : tables[k].set # set
         ELSE \E k \in DOMAIN tables : tables[k].set = set /\ IsBestOf(tables[k].r, set)
  /\ exit = 0 => Len(tables) = Len(requested)

\* The selection_rule every generated report prints: among the valid tables of
\* a grid those that dominate the baseline come first, and only then the
\* smaller denominator.  (better_min_q has no such key: this does not hold.)
DominanceFirst ==
  mode # "epsilon" => \A k \in DOMAIN tables :
    (\E c \in Eligible(tables[k].set) : c.dominance) => tables[k].r.dominance

\* The verification passes exactly when there is a table, every table holds
\* the best vector of the grid its name stands for and all of them dominate
\* the baseline, which the generation does not ask of them.
VerificationExact ==
  verdict # -1 =>
    (verdict = 0 <=>
       /\ tables # <<>>
       /\ \A k \in DOMAIN tables :
            LET t == tables[k] IN
              \E b \in Eligible(t.name) :
                IsBestOf(b, t.name) /\ b.p = t.r.p /\ b.q = t.r.q /\ b.dominance)
=============================================================================
