# SDA-CDT samplers: specification and proofs

This directory holds TLA+ specifications of the samplers of the repository, the
TLC configurations that check them on small instances, and TLAPS proofs of the
properties that matter for every value of the constants. Each definition is
translated from the source; `PROJECT.json` maps it to file and lines.

## The system

The repository samples small integers from a discrete Gaussian by inverting a
cumulative table (CDT). The *original* samplers use the tables of Frodo and
Falcon, whose total is a power of two. The *SDA* samplers use a table with a
smaller total q and draw a uniform value below q by rejection.

| Part | State it keeps | Operations | Depends on |
|---|---|---|---|
| Tables (`online/common/sdat_tables.c`) | frozen tables, one static AVX2 statistics object | lookup by name, validate, add to the statistics | - |
| Bit readers (`sdat_bitreader*.{c,h}`) | position, 64-bit reservoir, counters | init, take k bits | source bytes |
| Frodo word samplers (`frodo_sample_n_word*.c`, `frodo_sample_n_fast.c`) | cursors `src`, `dst`; `*st` | `frodo_sda_word_sample_n`, `..._accept_before_map` | tables |
| Frodo packed samplers (`frodo_sample_n*.c`) | reader, batch of lanes, `*st` | scalar and AVX2 `sample_n` over either reader | readers, tables |
| Frodo block-staged samplers (`frodo_block_staged.c`) | caller's workspace, timing, `*st` | materialize and map, block by block | word fields, tables, clock callback |
| Frodo dispatcher (`frodo_sampler.c`) | parameter table, `*fs` | choose a sampler by kind, backend, frontend; hand statistics and reader back | all of the above but the staged |
| Table-driven samplers (`sdat_ref.c`, `sdat_avx2.c`) | lanes, `*st`, static AVX2 statistics | `*_ref_sample_batch`, `*_avx2_sample_batch` | randomness callback |
| Falcon limbs (`falcon_reverse_tail.c`) | - | decode nine bytes, compare, look up | reverse-tail tables |
| Falcon samplers (`falcon_base_sampler.c`) | cursors, workspace, counters, timing | single, `sample_n`, `from_le9`, audit, prepare, staged | limbs, callback or buffer |
| Exact search (`sda_exact_linf_sda.c`) | best vector with its enclosed norm, shrinking bound | shortest vector of one epsilon | MPFR intervals |
| Table generation (`sda_generation.c`, `generate_sdat.c`) | best result per grid, tables and names | solve a grid of epsilons, select, write | exact search, metrics |
| Table verification (`verify_sdat.c`) | - | select again and compare with the compiled tables; check a search directory | the two above and below |
| Candidate search (`sda_expanded_search.c`, `sda_random_driver.c`) | candidate set, basis hashes, the match, an artifact directory | visit stages of epsilons, observe vectors, write artifacts | exact search or BKZ |

Everything runs in one thread; a call ends before the next begins. What is hard
is not concurrency but *many loops for one promise*: branchless and branching,
fused and staged, scalar and batched, with and without counters, over three
kinds of source. Each must yield the same samples from the same randomness, and
each fails differently when the source runs dry half way. Buffers are reused:
the output may be the source, a workspace serves every block, a rejected word
leaves its traces in a slot that the next accepted one must overwrite. The
offline programs meet each other through files and compiled tables: one writes
what another, later, checks, and old files stay where a smaller run leaves them.
`PROJECT.json` lists these hazards at their lines.

## Modules

| Module | Models | Checked by | Proved in |
|---|---|---|---|
| `RejectionSampling` | the abstract promise: images of the first n accepted draws in order, or a genuine shortage | as `Implements` | `RejectionSampling_proofs` |
| `WordProfile` | fields, acceptance, threshold count and sign of a Frodo word | with the samplers | types in the samplers' proofs |
| `FrodoWordSampler` | one call of a fused word sampler | `MCFrodoWordSampler` | `FrodoWordSampler_proofs` |
| `FrodoBlockStaged` | one call of a block-staged Frodo sampler, both kinds | `MCFrodoBlockStaged` | `FrodoBlockStaged_proofs` |
| `BitReader` | both bit readers as operators on a reader record | with `PackedSampler` | `PackedSampler_proofs` |
| `PackedSampler` | four packed-bit front ends over `BitReader` | `MCPackedSampler` | `PackedSampler_proofs` |
| `FrodoDispatch` | one call of `frodo_sample_n_dispatch`, over the word, packed and original samplers | `MCFrodoDispatch` | `FrodoDispatch_proofs` |
| `FalconLimbs` | 72-bit arithmetic as three limbs in wrapped unsigned arithmetic | with the two below | `Falcon_proofs` |
| `FalconLookup` | one pass of the lookup kernel, row by row, in three coordinate systems | `MCFalconLookup` | `Falcon_proofs` |
| `FalconSampler` | one call of any Falcon entry point | `MCFalconSampler` | `Falcon_proofs` |
| `TableSampler` | sequences of calls of the table-driven samplers | `MCTableSampler` | `TableSampler_proofs` |
| `LinfSearch` | the enumeration of denominators for one epsilon | `MCLinfSearch` | `Offline_proofs` |
| `TableGeneration` | `generate_sdat` over its parameter sets, then `verify_sdat --all` | `MCTableGeneration` | `Offline_proofs` |
| `CandidateSearch` | repeated expanded searches into one directory, and `verify_sdat --search-dir` | `MCCandidateSearch` | `Offline_proofs` |

State and code correspond closely. In `FrodoWordSampler`, `a` is `dst - out`,
`p` is `src - w`, `out` is the output buffer *and* the source when `inPlace`;
each action is one turn of one loop. In `FrodoBlockStaged` and `FalconSampler`
the workspace, the block loop and the timing callback are explicit. The clock of
`FrodoBlockStaged` moves only with the work, one unit per word materialized or
sample mapped: it shows which work each pair of marks encloses. That of
`FalconSampler` also moves at every reading, as a real one does and as the
repository's test has it: `MarkTicks` per reading, `DrawTicks` per draw,
`SampleTicks` per sample mapped. With (19, 0, 0), the clock of
`check_block_staged` in `test_falcon_base_sampler.c`, `TimingAttributed` gives
the figures the test asserts, 38 nb for the two stages against 19 (3 nb + 1)
outside them. In `PackedSampler` the
stream of bytes is one integer whose low bits come first; a take is a
`BitReader` operator that loads, masks and shifts as the code does; what the
stream holds is `Parse`, a function on bit positions read from the end of the
stream. In
`TableSampler` the callback is the environment: at each draw it delivers any
value or fails, and a failure does not prevent the next call from succeeding.
`from`, `pos` where it counts draws, `log`, `first`, `vectored` and `seen` are
history variables; no action's guard reads them except to bound a run.
`FalconLookup` names its variables (`system`, `at`) apart from `FalconSampler`'s,
so that one module can reason about both.

`FrodoDispatch` composes: the word and packed samplers are instances of their
modules over the dispatcher's variables, so a step of the dispatcher is a step
of the sampler it called, and the original samplers' scalar and vector loops are
actions of its own. Its request is any combination of kind, backend, frontend,
sources, CPU and misuse, each out-of-range enumerator being one value.

In the offline modules a real number is what the code's decisions can tell of
it. `LinfSearch` takes the norm of a denominator's best vector as an enclosure
[lo, hi] in units of 1/`Scale`, never below the denominator itself.
`TableGeneration` takes a vector's metrics as ranks, the solver's answer as one
of a set of results that meet every gate, and runs both programs in sequence
over one deterministic solver and the same configurations. `verify_sdat` runs
only after a complete `--all`: the baseline header lists the three original
tables whether they were generated or not, so it does not compile after
anything less. The `set` of a table is the configuration it was solved for, its
`name` what the files call it: with `--all` the same, with `--config` whichever
name occurs in the path, `frodo640` if none does. `CandidateSearch` takes an
epsilon as a cell in the order of the bounds, lets any point yield any short
sequence of vectors, lets a file fail to open and the process die between two
files, and keeps the directory from one search to the next.

What the models leave out of the operations they do model changes no state the
properties speak of:

- Null pointers of the block-staged, packed and table samplers, the output of
  the last aside (`haveOut`), and tables of a type no sampler knows. The
  dispatcher models the refusals of the packed samplers, which it calls.
- A staged Frodo call is timed exactly when it counts (`timed = wantStats`); the
  two pointers are independent and neither path reads the other's.
- The original table sampler with an 8-bit draw has no table.
- `LinfSearch` starts past the argument checks, `VerifyOne` past the structural
  and type checks, which tables made by the generator pass, and without the loop
  over the three baselines; `Accepts` is past the checks of each candidate file,
  which every file a search finished meets.
- A grid point that cannot be computed is skipped by the code; the bounds it
  admits have none.
- A file of a search is truncated, written and closed in one step; that `fopen`
  failed for the hashes or the summary is a death before them.

An `ASSUME` in each module states what the code's constants satisfy. The
assumptions on tables (`ProfileAssumption`, `LimbAssumption`, `TailAssumption`,
`SortedAssumption`) hold of the frozen tables: a candidate and its sign bit fit
in a word, thresholds are at most q, tails descend to a zero row, and the SDA
reverse tail is the frozen cumulative table read from the other end. The
dispatcher adds that words have an even number of values and that the terminal
threshold of an original table is the largest value above the sign bit
(`DispatchAssumption`), which is why comparing with one threshold less is
harmless. `PackedAssumption` says that the reservoir holds a candidate and the
byte it ends in, 14 + 7 bits of 64 at most: without it a refill would lose bits.

## Runs

| Run | What it shows | Bounds |
|---|---|---|
| `frodo_word` | three loops, one result, also in place; footprint, counters, refinement | 4-bit words, q = 3, up to 4 words of 4 kinds, up to 3 samples |
| `frodo_staged` | staging is invisible; workspace never stale; the inductive invariant; refinement; termination | the same profile, blocks 0, 1, 2, capacities 1, 3 |
| `frodo_packed` | four front ends parse one stream alike; no bit lost, repeated or miscounted | 2-bit bytes, refills of 2 bytes, all streams of up to 5 bytes, batches of 2 |
| `falcon_lookup` | the lookup is the inverse CDF of every draw; masses are exact; coordinates agree | limbs of 2 bits in unsigned of 3, all 64 draws |
| `falcon_sampler` | all entry points store the same samples; counters, timing, workspace; the inductive invariant; refinement | 1-bit limbs, up to 4 draws of 4 kinds, up to 3 samples, a clock of 19, 3 and 5 units |
| `table_samplers` | reference and AVX2 agree over two calls with a failing callback; statistics add up | 5 tables, vectors of 2 lanes, 4 draws |
| `official_thresholds` | violation, see below | as above |
| `frodo_dispatch` | the backend never shows in samples, failures or untouched cells; `*fs` and the AVX2 counters describe this call | 4-bit words, 2-bit bytes, up to 3 words of 4 kinds, 3 bytes, 3 samples, vectors of 2; every combination of arguments |
| `linf_search` | the enumeration finds a shortest vector, from any start, and ends | denominators to 4 in half units, enclosures up to 1 wide and 3 above q, enumeration limit 4 |
| `table_generation` | the vector per set that `better_min_q` puts first, with `--all` under its own name; verification accepts exactly a complete generation that dominates throughout | 2 parameter sets and one without baseline, 2 epsilons, 7 solver results, 4 quality ranks |
| `selection_rule` | violation, see below | as above |
| `candidate_search` | plateaus equal the sequence observed; the directory check separates searches | stages of 2 and 1 points, up to 2 rows of 2 vectors, 3 cells, 2 searches |

The bounds are small because the code is uniform in what they bound: a loop
body depends on the current word, the free slots and what is left, never on how
long the source is. Three samples with blocks or vectors of two give full
blocks, a short last block and a failure inside the first, a middle and the
last one. Two-bit bytes with refills of two make a refill land on an empty
reservoir and on one with a bit left, as 8-byte refills do with 14 + 1 bits.
Limbs of two bits in an unsigned of three keep exactly the one spare bit the
borrow needs, which is tighter than 24 bits in 32. In `linf_search` the bound
shrinks twice, by one and by more, on and between integers, and some
enumerations exceed the limit. Two epsilons and two vectors of one denominator
decide every tie-break of `table_generation` in both orders, a vector of a
smaller denominator never dominates the baseline while the others may, and one
result per gate is refused. The packed run reaches no success with three samples
(its streams are too short for that many accepted draws) and the dispatcher's no
full packed vector; batches that fail after an earlier one was stored, and
vectors of word samples, are reached, and the theorems hold for every length. Two stages and two vectors split a candidate's run within a
point, between points and between stages; two searches suffice because a search
depends on its predecessors only through the directory.

A call that has returned has no further step, so the runs turn the deadlock
check off. Liveness is stated where a loop could fail to advance: `Terminates`
of `FrodoBlockStaged` under weak fairness of the whole next-state relation,
which for sequential code says no more than that the processor keeps executing
it; and `Terminates` of `LinfSearch`, whose loop assigns its own upper bound,
under the same fairness.

`selection_rule` records a disagreement. The report of every generation says
`selection_rule=valid table, baseline dominance, q ascending, ...`
(`generate_sdat.c:29`), and `test_min_q_ordering.c:3` tests an order of its own
that ranks a vector's dominance over the baseline before q. The order the
generation uses, `better_min_q` (`sda_generation.c:80`), starts with q and has no
such key: from a grid that holds a dominating vector it may select one of smaller
denominator that does not dominate, which `verify_sdat` then refuses.
`TablesAreBest` states the order of the code, `DominanceFirst` that of the report.

`official_thresholds` records another. `docs/TABLE_FORMAT.md` says that
the frozen original Frodo tables hold upper-inclusive thresholds and are
compared with `x > threshold`. The Frodo samplers do so; the generic
`original_cdt_ref_sample` and `original_cdt_avx2_sample_batch` compare the same
tables with `>=`, so a draw equal to a threshold gives the next magnitude. The
repository's test of the generic samplers compares them with the stored PMF,
which was built for `>=`, and therefore passes.

Met while modelling, without a run of their own:

- `docs/OFFLINE_PHASE.md` lists SD and RD among the checks of a vector and says
  an invalid epsilon is rejected. `solve_svp_candidate` computes both but sets
  `production_eligible` from the certificate alone, so `generate_sdat` writes
  such a table and returns 0; `verify_sdat --all` then refuses it
  (`VerificationExact` has this case). The same document later calls the metrics
  of the expanded search reporting-only.
- The expanded search heads a column of `all_unique_candidates.csv` `first_grid`.
  `sda_candidate_set_observe` is given the grid index and drops it
  (`sda_random_driver.c:22`); the column holds the running number of the
  candidate's first occurrence over all stages, counted from one (`first` of an
  item). The summary's `matching_grid_index` is the index.
- `verify_sdat --generated` reads `selected_table.txt`, which no program writes.
- After a table is selected from a grid, `enumerated_q_count` is the winner's
  own count; the sum over the grid is overwritten by the copy.
- `nearest_all` and `norm_cert` can never become 0: a tie counts as certified,
  so the -5 path of the exact search is dead.
- `verify_sdat --search-dir` compares counts. Files left by an interrupted
  search pass beside the summary of an earlier one of the same count.

## Proofs

The proofs hold for every value of the constants that the named assumptions of
the modules admit. `PROJECT.json` lists the results.

**Bounded rejection sampling.** `RejectionSampling_proofs` shows that the history
is exactly the accepted positions of the consumed prefix (`SamplingIsCorrect`)
and, counting ranks in the whole source, what a caller relies on without knowing
the history: a success is the images of the first n accepted draws, and
exhaustion means the source holds fewer (`PromiseKept`). The sampler modules
instantiate this module (`Promise`), prove that they implement its specification
(`Refinement`), and inherit `PromiseKept` under their own refinement mapping.
That is how the correctness of their results is proved: none of it has to be
repeated over a filtered sequence.

**Frodo word samplers.** `FrodoWordSampler_proofs` proves type correctness,
`LoopInv`, the counters (`StatsAreConserved`), the write footprint
(`FootprintBounded`), safety in place (`InPlaceSafe`), the refinement and
`ResultIsCorrect`. The result is not inductive as it stands: in place, the value
of an output cell depends on the word read from the same buffer. `LoopInv` adds
what makes it so: dst never overtakes src (`a <= p`), hence unread words are
intact, hence the word a turn reads is the word the caller passed, hence cell i
is the image of the word `from[i]`. `StepCommon` states what one turn of any of
the three loops has in common, so that each invariant is proved once.

**Frodo block-staged samplers.** `FrodoBlockStaged_proofs` proves `CallInv`, that
the reused workspace is never stale (`WorkspaceNeverStale`), the refinement, that
a failed call has stored whole blocks only (`BlocksAreWhole`), and that samples,
counters and failures are those of the fused loop (`StagingIsInvisible`). A
finished sample says nothing of the word it came from once its slot is
overwritten, so the invariant ties both to the history: slot i of the current
block holds the parts of the word `from[done + i]`, which lies in this block's
stretch of the source (`SlotsFresh`), cell i of the finished output is the image
of the word `from[i]` (`FinishedExact`), the history is exactly as long as both
together, and at each place of the loop the counters are what that place allows
(`Control`). Mapping a block moves its slots from the first statement to the
second. `ControlSteps` treats together the steps that touch neither, by `Frame`.
That an accepted word maps to the same sample in either order of the two stages
is `SlotImage`.

**Bit readers and packed samplers.** `PackedSampler_proofs` starts from
arithmetic: 2^k counts the subsets of 1..k, from which its sums, order and the
cutting and joining of bit fields (`SliceJoin`, `SliceCut`) follow; where an
argument needs induction, it is over a set of numbers, by a minimal
counterexample (`SetInduction`). A reader is *sound* when its reservoir is the
slice of the stream between what was consumed and what was loaded and nothing
above it; loads and takes of either reader keep it so (`LoadExact`, `TakeExact`),
which gives `ReaderStaysInSync`. `BitsAreAccounted` needs besides that every
place of the loop allows only certain batches (`PhaseInv`) and that the byte
reader never holds back a whole byte. For the refinement, `ParseExists` shows
that the recursive definition of the parsed stream defines a function, by
induction from the end of the stream; `ScanInv` says that the draws still to be
parsed at the reader's place are the source behind `pos`, and `HistoryInv` that
lanes and samples are the draws the history names. Then `Refinement`,
`StoredInOrder` (the four front ends store the same samples, whole batches only),
`ShortageIsReal` and `TypeCorrect` follow.

**Dispatcher.** In `FrodoDispatch_proofs` a dispatched call is seen through a
mapping: before the dispatcher has entered a sampler and after it has returned,
the sampler is still at its first place or already at its last, and the caller's
statistics are cleared by the dispatcher a step before the sampler clears them.
Under it, every call of a word-oriented or packed sampler is a behaviour of that
sampler's own specification (`WordCallIsTheSampler`, `PackedCallIsTheSampler`),
so its theorems hold behind the dispatcher. What is the dispatcher's own is
`DispatchInv`: the request never changes, it alone decides which places can be
reached (`Route`), and until a sampler reports, `*fs` is stale or cleared
(`FsInv`). The original samplers have their own invariant (`OriginalInv`);
`VectorMapIsOrigMap` shows why the vector loop may stop before the terminal
threshold. From these come `BackendIsInvisible`, `StatisticsDescribe` and
`VectorWorkIsReported`. The last is not inductive alone: `tail < Lanes` holds
because single samples come last (`TailLast`), and for packed calls because a
batch short of a vector ends the request, a fact of the packed sampler.

**Falcon.** `Falcon_proofs` first proves the arithmetic of three limbs with a
spare top bit: the borrow chain compares integers (`LtExact`), the branching test
accepts exactly the draws below q (`AcceptExact`), the limb-wise reflection is
q - 1 - x (`ReflectExact`), both decodings are exact (`DecodeExact`,
`SdatDecodeExact`), and with a zero sentinel row a lookup stays in the support
(`LookupInSupport`), so the error return behind every lookup is dead code. For
the kernel it proves `LookupTypeCorrect`; `InverseCdfHolds`, whose inductive
invariant says that z counts the rows among the first u that exceed the candidate
and that, tails being sorted, these rows are a prefix; that the three coordinate
systems agree (`AllCoordinatesAgree`); and that exactly as many accepted draws
map to a sample as its table mass says (`MassesAreExact`): they form an interval,
whose cardinality is the difference of its ends.

For the samplers it proves `SamplerInv`; that the counters are exact however a
call ends (`CountersAreExact`); that the stage timers hold exactly the
work on the finished blocks and the outer time what surrounds them
(`TimingIsAttributed`); that a reused workspace is never stale (`BlocksAreFresh`);
the refinement; and that all entry points store the same samples
(`SamplesAreTheSame`). The end of a call is not inductive: a staged call rebuilds
its counters from the cursor and the request, which is right only because every
accepted draw is by then a sample. So `History` says that the history is as long
as the samples and the open slots together, and for the original kinds as long as
the cursor; `Counting` and `Timing` say what has been reported so far, how often
the clock was read and where it stood at each mark, which is what makes the
difference of two marks the work between them (`MarksOrdered`, `Spans`); `StoredExact` and `SlotsFresh` tie samples and slots to the draws the
history names. That the original buffer kinds never run dry (`OriginalNeverDry`)
is what makes their `*attempts = n` correct. `KeptDraw` brings in the limb
arithmetic: whichever comparison and coordinate an entry point uses, the sample
is the image of the draw as an integer.

**Table-driven samplers.** `TableSampler_proofs` proves over every sequence of
calls `TypeCorrect`, that reference and AVX2 store the magnitudes of the first
accepted draws in order (`StoredInOrder`), and that the caller's counters describe every
delivered draw and the process-wide AVX2 counters every vector round and sample
(`CountersAddUp`). Its invariant says where a call stands (`Control`) and that
every accepted draw of the current call is a stored sample or a lane of the open
batch, at its rank (`Held`); a counter over all calls is a cardinality of a
disjoint union, so a draw adds one to exactly one part.

**Offline: exact search.** `Offline_proofs` holds the proofs about the three offline
programs. Of `LinfSearch` it proves, for every scale, limit and family of enclosures,
that a certified result is a shortest vector (`SearchFindsShortest`), including
against the denominators the loop never visits. The result alone is not
inductive: the loop forgets the candidates it rejected and moves its own end.
`LoopInv` keeps that nothing visited is certainly shorter than the best and that
the best norm never exceeds the bound; a denominator at or past the bound is
itself at least that long, so what is left out cannot win. Denominator 0, the
vector the search may start from, is ruled out because the bound is at least 2
until denominator 1, which is shorter, has been visited.

**Offline: table generation.** For every grid, solver and quality of the results,
`generate_sdat` writes the eligible vector of each parameter set's grid that
`better_min_q` puts first, in the order asked for, for exactly the sets that
have one, and with `--all` under the set's name (`GenerationIsBest`);
`verify_sdat --all` passes a complete generation exactly when every table is the
best vector of the grid its name stands for and dominates the baseline
(`VerificationSeparates`). `GenerationInv` keeps what the loop of `main` has
done: an increasing embedding of the tables into the parameter sets tried, the
selection each table holds, that only the tables of `--all`, which bear their
sets' names, are verified, and the verdict as a conjunction over the tables
checked so far. That `SelectFromGrid` keeps a best vector is `KeptIsBest`, an
induction over the epsilons: `better_min_q` is, on results with an epsilon each,
the strict part of a total order (`BetterOrders`, `GoodTransitive`).
`GenerationAssumption` bounds K by 16 and the historical q by 2^K, keeps `falcon`
out of the sets `--all` asks for, and otherwise states types only.

**Offline: candidate search.** For every sequence of points, epsilons and rows
of vectors, over any number of searches into one directory, the candidates are
the distinct vectors in the order they were first seen, and what is kept of each
(occurrences, contiguous runs, stages, plateau, the paper's interval) is what its
occurrences in the search amount to; the match is the last point with the frozen
table; a search that does not stop on it visits every point (`PlateausAreExact`).
`verify_sdat --search-dir` accepts the directory of a finished search that could
open its files exactly when it has a candidate and no file of an earlier search
lies beyond them (`DirectoryVerified`). `PlateausExact` alone speaks of `Min`,
`Max` and cardinalities over the history; the invariant (`SearchInv`) says of
every candidate that it `Describes` the history, which one more entry either
leaves alone (`OthersStay`), starts (`FirstDescribed`) or updates
(`AgainDescribed`): a run begins exactly when the entry before the new one is not
the candidate's last. `ObserveKeeps` joins these for one vector and
`RowsObserved` for the rows of a point. `ProgressInv` adds that the counters of
the stages are those of the loop variables, `FilesInv` that the files up to the
one being written hold their candidates.

**How the recursion is dealt with.** The library states induction with operator
parameters the provers cannot instantiate. `NatSetInduction` states it for a set
of numbers, from well-foundedness, and carries what a proof needs of a loop
written as a recursive function (`KeptExists`, `ObservedExists`: the recursion
has a solution; `KeptIsBest`, `RowsObserved`: what each turn keeps).

**Model-checked only.** Every invariant and action property the passing runs
check is also proved. Liveness (`Terminates` of `FrodoBlockStaged` and of
`LinfSearch`) and what needs ENABLED are out of the prover's reach and stay with
TLC.

## Not modelled

- AVX2 intrinsics: a vector lookup is modelled as the lookup of its lanes.
- Benchmarks: timing loops around the samplers.
- `verify_sdat` after an edit of a configuration, or when an earlier build of it
  is run: it reads the configurations again and has its tables compiled in.
- Exact real arithmetic of the offline phase (GMP/MPFR), the pseudo-random
  stream of epsilons, lattice reduction.
- `online_table_validate` and the frozen tables: a pure checker over constants.
- The research-only exact-denominator mode, `sda_search_application` (without a
  caller), trace files, the rankings of the candidate search by metric or by
  distance, the random driver's loop and its reports, and the text of the
  generated header: sorting by real numbers and formatting.
- `sda_exact_linf.c` and `sda_exact_linf_enumeration.c`: recursive enumerations
  of a triangular basis that only tests call.
- The static AVX2 statistics and the parameter table under concurrent callers:
  the repository starts no threads.
- `falcon_base_checksum` and the label functions: pure formatting of results.

## Plan

1. The random driver's loop beside the expanded search: the same candidate set
   under a seeded stream, and its rejection counters.
2. The exact-denominator search with its early end, against the minimum over all
   denominators.
