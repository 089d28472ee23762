-------------------------- MODULE CandidateSearch --------------------------
(***************************************************************************)
(* sda_expanded_search, run again and again over one artifact directory,   *)
(* and verify_sdat --search-dir.  A search visits the points of its        *)
(* stages, files every valid vector a point yields under the candidate     *)
(* equal to it, and writes one file per candidate, the hashes of the bases *)
(* it saw and a summary.  Nothing removes the files of earlier searches, a *)
(* candidate's file that cannot be opened is skipped, and a search may end *)
(* between two files.                                                      *)
(*                                                                         *)
(* An epsilon is the cell of its order among the bounds: two points of one *)
(* cell may have different vectors.                                        *)
(***************************************************************************)
EXTENDS Integers, Sequences, SequencesExt, FiniteSetsExt

CONSTANTS
  Vectors,     \* (n, q, p) of the valid vectors
  Frozen,      \* the frozen reference table
  Points,      \* req[], points per stage
  Rows,        \* most valid vectors of one point: 1 for Frodo, more for Falcon
  Cells,       \* cells the points of all stages lie in
  Paper,       \* those in the paper's interval
  MaxSearches  \* bound on the searches over one directory

ASSUME SearchAssumption ==
  /\ Frozen \in Vectors
  /\ Points \in Seq(Nat \ {0}) /\ Len(Points) \in 1 .. 3
  /\ Rows \in Nat \ {0} /\ MaxSearches \in Nat \ {0}
  /\ Cells \subseteq Nat /\ Paper \subseteq Cells

VARIABLES
  stop,       \* o->stop_on_match
  stage, gi,  \* loop variables, the stages counted from 1
  done,       \* done[]
  items,      \* set.items
  hashes,     \* hashes[0 .. hn-1]
  seq,        \* seq and valid, which advance together
  match,      \* found, mstage, mgrid, minside
  phase,
  files,      \* candidate_<i>.txt: the vector it holds
  hashLines,  \* lines of basis_hashes.csv below its title
  summary,    \* unique_candidate_count in search_summary.txt, 0 without one
  written,    \* candidates write_outputs has been through
  skipped,    \* those of them whose file it could not open
  searches,   \* searches begun
  seen        \* every valid vector of this search, in order

search == <<stage, gi, done, items, hashes, seq, match, seen>>
directory == <<files, hashLines, summary>>
searchVars == <<stop, search, phase, directory, written, skipped, searches>>

NoMatch == [found |-> FALSE]

\* The canonical integer basis is the same for epsilons that round alike.
Hash(eps) == eps \div 2

-----------------------------------------------------------------------------
(* The candidate set *)

Matching(s, v) == {k \in DOMAIN s : s[k].v = v}

\* Mutant: a candidate seen again is taken for the run it is already in.
AgainOneRun(x, n, z, eps) ==
  [x EXCEPT !.last = n, !.occurrences = @ + 1, !.lastStage = z,
            !.epsMin = Min({@, eps}), !.epsMax = Max({@, eps})]

\* contiguous_run_count grows when another vector came in between.
Again(x, n, z, eps) ==
  [x EXCEPT !.last = n, !.occurrences = @ + 1, !.lastStage = z,
            !.runs = IF x.last + 1 # n THEN @ + 1 ELSE @,
            !.epsMin = Min({@, eps}), !.epsMax = Max({@, eps})]

\* sda_candidate_set_add and sda_candidate_set_observe, for the n-th valid
\* vector: first_trial and last_sequence are n.  The grid index is not kept.
Observe(s, v, n, z, eps) ==
  IF Matching(s, v) = {}
  THEN Append(s, [v |-> v, first |-> n, last |-> n, occurrences |-> 1, runs |-> 1,
                  firstStage |-> z, lastStage |-> z, inside |-> eps \in Paper,
                  epsMin |-> eps, epsMax |-> eps])
  ELSE [s EXCEPT ![Min(Matching(s, v))] = Again(@, n, z, eps)]

-----------------------------------------------------------------------------
(* The search *)

Fresh ==
  /\ stage' = 1 /\ gi' = 0 /\ done' = [z \in DOMAIN Points |-> 0]
  /\ items' = <<>> /\ hashes' = <<>> /\ seq' = 0 /\ match' = NoMatch /\ seen' = <<>>
  /\ written' = 0 /\ skipped' = {}

SearchInit ==
  /\ stop = FALSE
  /\ stage = 1 /\ gi = 0 /\ done = [z \in DOMAIN Points |-> 0]
  /\ items = <<>> /\ hashes = <<>> /\ seq = 0 /\ match = NoMatch /\ seen = <<>>
  /\ files = <<>> /\ hashLines = 0 /\ summary = 0
  /\ written = 0 /\ skipped = {} /\ searches = 0
  /\ phase = "exited"

Begin ==
  /\ phase \in {"exited", "complete"} /\ searches < MaxSearches
  /\ searches' = searches + 1
  /\ stop' \in BOOLEAN
  /\ Fresh
  /\ phase' = "search"
  /\ UNCHANGED directory

\* The search is over after its last stage, or after the first point with the
\* frozen table among its rows if it stops on a match.
Advance(found) ==
  IF found /\ stop THEN phase' = "write" /\ UNCHANGED <<stage, gi>>
  ELSE IF gi + 1 < Points[stage] THEN gi' = gi + 1 /\ UNCHANGED <<stage, phase>>
  ELSE IF stage < Len(Points) THEN stage' = stage + 1 /\ gi' = 0 /\ UNCHANGED phase
  ELSE phase' = "write" /\ UNCHANGED <<stage, gi>>

\* One point: its basis hash, and every valid vector the solver has for it.
Point ==
  /\ phase = "search"
  /\ \E eps \in Cells, rows \in BoundedSeq(Vectors, Rows) :
       LET n == Len(rows)
           Observed[i \in 0 .. n] ==
             IF i = 0 THEN items ELSE Observe(Observed[i - 1], rows[i], seq + i, stage, eps)
           here == [found |-> TRUE, stage |-> stage, gi |-> gi, inside |-> eps \in Paper] IN
         /\ done' = [done EXCEPT ![stage] = @ + 1]
         /\ hashes' = IF Hash(eps) \in Range(hashes) THEN hashes ELSE Append(hashes, Hash(eps))
         /\ items' = Observed[n]
         /\ seq' = seq + n
         /\ match' = IF Frozen \in Range(rows) THEN here ELSE match
         /\ seen' = seen \o [i \in 1 .. n |-> [v |-> rows[i], stage |-> stage, gi |-> gi, eps |-> eps]]
         /\ Advance(match'.found)
  /\ UNCHANGED <<stop, directory, written, skipped, searches>>

\* A failed allocation: nothing is written.
Fail ==
  /\ phase = "search"
  /\ phase' = "exited"
  /\ UNCHANGED <<stop, search, directory, written, skipped, searches>>

-----------------------------------------------------------------------------
(* write_outputs *)

\* candidate_<i>.txt is created or overwritten.
WithFile(i, v) == [k \in DOMAIN files \union {i} |-> IF k = i THEN v ELSE files[k]]

\* Mutant: the files are numbered like the array.
WriteCandidateFromZero ==
  /\ phase = "write" /\ written < Len(items)
  /\ written' = written + 1
  /\ \/ files' = WithFile(written, items[written'].v) /\ UNCHANGED skipped
     \/ skipped' = skipped \union {written'} /\ UNCHANGED files
  /\ UNCHANGED <<stop, search, phase, hashLines, summary, searches>>

WriteCandidate ==
  /\ phase = "write" /\ written < Len(items)
  /\ written' = written + 1
  /\ \/ files' = WithFile(written', items[written'].v) /\ UNCHANGED skipped
     \/ skipped' = skipped \union {written'} /\ UNCHANGED files
  /\ UNCHANGED <<stop, search, phase, hashLines, summary, searches>>

WriteHashes ==
  /\ phase = "write" /\ written = Len(items)
  /\ hashLines' = Len(hashes)
  /\ phase' = "summary"
  /\ UNCHANGED <<stop, search, files, summary, written, skipped, searches>>

WriteSummary ==
  /\ phase = "summary"
  /\ summary' = Len(items)
  /\ phase' = "complete"
  /\ UNCHANGED <<stop, search, files, hashLines, written, skipped, searches>>

\* The process ends before its summary is written: killed, or by one of the
\* early returns and unchecked file handles of write_outputs.
Die ==
  /\ phase \in {"write", "summary"}
  /\ phase' = "exited"
  /\ UNCHANGED <<stop, search, directory, written, skipped, searches>>

SearchNext == Begin \/ Point \/ Fail \/ WriteCandidate \/ WriteHashes \/ WriteSummary \/ Die

SearchSpec == SearchInit /\ [][SearchNext]_searchVars

\* verify_search_dir, for files that each hold a valid table: as many as the
\* summary says, and at least one basis hash.
Accepts ==
  /\ summary # 0 /\ Cardinality(DOMAIN files) = summary
  /\ hashLines # 0

-----------------------------------------------------------------------------
(* Safety *)

SeenAt(v) == {j \in DOMAIN seen : seen[j].v = v}

\* The candidates are the distinct vectors of the search in the order they were
\* first seen, and what is kept of each (occurrences, contiguous runs, stages,
\* plateau, whether its first epsilon is the paper's) is what its occurrences
\* in the search amount to.
PlateausExact ==
  /\ seq = Len(seen)
  /\ {items[k].v : k \in DOMAIN items} = {seen[j].v : j \in DOMAIN seen}
  /\ \A k \in DOMAIN items :
       LET at == SeenAt(items[k].v)
           eps == {seen[j].eps : j \in at} IN
         /\ \A l \in 1 .. k - 1 : Min(SeenAt(items[l].v)) < Min(at)
         /\ items[k].occurrences = Cardinality(at)
         /\ items[k].runs = Cardinality({j \in at : j - 1 \notin at})
         /\ items[k].firstStage = seen[Min(at)].stage
         /\ items[k].lastStage = seen[Max(at)].stage
         /\ items[k].inside = (seen[Min(at)].eps \in Paper)
         /\ items[k].epsMin = Min(eps) /\ items[k].epsMax = Max(eps)
  /\ match.found <=> SeenAt(Frozen) # {}
  /\ match.found =>
       LET j == Max(SeenAt(Frozen)) IN match.stage = seen[j].stage /\ match.gi = seen[j].gi
  \* A search that does not stop on its match visits every point.
  /\ phase \in {"write", "summary", "complete"} /\ ~ (stop /\ match.found) => done = Points

\* After a search that wrote all it wanted to, the verification accepts the
\* directory exactly when the search found a candidate and no earlier search
\* left a file beyond them; and what it accepts, candidate by candidate, is what
\* this search found, except where a file could not be opened.
VerifySeparates ==
  phase = "complete" =>
    /\ skipped = {} => (Accepts <=> items # <<>> /\ DOMAIN files = DOMAIN items)
    /\ \A i \in DOMAIN items \ skipped : files[i] = items[i].v
=============================================================================
