--------------------------- MODULE FalconSampler ---------------------------
(***************************************************************************)
(* The entry points of online/falcon/falcon_base_sampler.c.  Every one     *)
(* decodes nine-byte draws of one source in order; they differ in where    *)
(* the bytes come from (callback or buffer), in what they do when there    *)
(* are no more, in which counters they keep, and in the coordinate the     *)
(* lookup is given:                                                        *)
(*   one      *_gaussian0_sample, called until n samples are stored        *)
(*   n        *_gaussian0_sample_n                                         *)
(*   le9      *_gaussian0_sample_n_from_le9                                *)
(*   audit    *_sample_raw_for_audit, in one of four variants              *)
(*   prepare  *_input_prepare_for_audit, which stops before the lookup     *)
(*   staged   *_block_staged_sample_n                                      *)
(* each for kind = "original" and kind = "sda".  The SUPPORT_MAX checks    *)
(* after a lookup never fire: the lookup stays in the support (InverseCdf  *)
(* in FalconLookup).                                                       *)
(***************************************************************************)
EXTENDS FalconLimbs, Sequences

CONSTANTS
  DrawBytes,   \* FALCON_BASE_RANDOM_BYTES
  InputDraws,  \* draws the source is made of
  Poison,      \* what the output holds before the call
  MaxDraws,    \* bound: longest source
  MaxN,        \* bound: most samples requested
  Blocks,      \* block sizes requested of the staged samplers
  Capacities,  \* workspace capacities
  MarkTicks,   \* time that passes when the timing callback is read
  DrawTicks,   \* time it takes to decode and test one draw
  SampleTicks  \* time it takes to map one candidate

ASSUME SamplerAssumption ==
  /\ DrawBytes \in Nat \ {0}
  /\ InputDraws \subseteq Draw
  /\ Poison \in Nat
  /\ MaxDraws \in Nat /\ MaxN \in Nat
  /\ Blocks \subseteq Nat /\ Capacities \subseteq Nat
  /\ MarkTicks \in Nat /\ DrawTicks \in Nat /\ SampleTicks \in Nat

Streams == {"one", "n", "le9", "audit", "prepare"}

VARIABLES
  kind, entry,
  variant,      \* input audit variant, 0 .. 3
  haveOut,      \* the output argument is not null
  wantStats,    \* st # NULL (attempts # NULL for the buffer entry points)
  n, raw, extra,\* request, draws of the source, bytes left over behind them
  block, capacity,
  out,          \* samples
  cells,        \* falcon_u72_limbs array: workspace, or the result of prepare
  done, pos,    \* samples (or prepared cells) stored, draws consumed
  filled,       \* candidates of the current block
  st, attempts, \* *stats and *attempts
  clock, marks, \* the timing callback's clock; t0, t1 and outer0
  tm,           \* *timing
  from,         \* history: positions of the accepted draws
  pc, rc

call == <<kind, entry, variant, haveOut, wantStats, n, raw, extra, block, capacity>>
time == <<clock, marks, tm>>
vars == <<call, out, cells, done, pos, filled, st, attempts, time, from, pc, rc>>

StatsRecord(a, r) == [attempts |-> a, rejections |-> r, random_bytes |-> DrawBytes * a,
                      random_bits |-> 8 * DrawBytes * a]
ZeroStats == StatsRecord(0, 0)
StaleStats == [attempts |-> 99, rejections |-> 99, random_bytes |-> 99, random_bits |-> 99]
StaleTiming == [input |-> 99, mapping |-> 99, outer |-> 99]
Stale == 99

RawLen == DrawBytes * Len(raw) + extra

\* The reflected coordinate is used by audit variant 0 of the SDA kind only.
Reflected == kind = "sda" /\ entry \in {"audit", "prepare"} /\ variant = 0

\* The scalar entry points decode through sdat_u72, the rest directly.
Decode(d) == IF entry = "one" THEN FromSdat(SdatFromLe9(d)) ELSE FromLe9(d)

\* Variants 0 and 1 compare with falcon_u72_limbs_lt, the rest limb by limb.
Keeps(x) ==
  \/ kind = "original"
  \/ IF entry \in {"audit", "prepare"} /\ variant < 2
     THEN Lt(x, QLimbs) = 1 ELSE IsAccepted(x)

Oriented(x) == IF Reflected THEN ReverseCoordinate(x) ELSE x

Table == IF kind = "original" THEN OriginalTail ELSE SdaTail

Init ==
  /\ kind \in {"original", "sda"}
  /\ entry \in Streams \cup {"staged"}
  /\ variant \in IF entry \in {"audit", "prepare"} THEN 0 .. 3 ELSE {0}
  /\ haveOut \in BOOLEAN /\ wantStats \in BOOLEAN
  /\ n \in 0 .. MaxN
  /\ raw \in UNION {[1 .. k -> InputDraws] : k \in 0 .. MaxDraws}
  /\ extra \in {0, DrawBytes - 1}
  /\ block \in IF entry = "staged" THEN Blocks ELSE {0}
  /\ capacity \in IF entry = "staged" THEN Capacities ELSE {MaxN}
  /\ out = [i \in 1 .. MaxN + 1 |-> Poison]
  /\ cells = [i \in 1 .. capacity |-> ZeroLimbs]
  /\ done = 0 /\ pos = 0 /\ filled = 0
  /\ st = IF entry = "one" THEN ZeroStats ELSE StaleStats
  /\ attempts = Stale
  /\ clock = 0 /\ marks = [t0 |-> 0, t1 |-> 0, outer0 |-> 0]
  /\ tm = StaleTiming
  /\ from = <<>>
  /\ pc = "check" /\ rc = 0

Stop(code) == pc' = "done" /\ rc' = code

WorkspaceOK == block > 0 /\ capacity >= block

\* One more draw can be read.
HasDraw == DrawBytes * (pos + 1) <= RawLen

Refused ==
  CASE entry = "one" -> kind = "sda" /\ ~ haveOut /\ n > 0
    [] entry = "n" -> ~ haveOut /\ n > 0
    [] entry \in {"le9", "audit", "prepare"} ->
         (~ haveOut /\ n > 0) \/ (kind = "original" /\ RawLen \div DrawBytes < n)
    [] entry = "staged" ->
         (~ haveOut /\ n > 0) \/ ~ WorkspaceOK \/ (kind = "original" /\ RawLen < n * DrawBytes)

\* What stage_mark returns: the clock after the reading, which itself takes time.
StageMark == clock + MarkTicks

\* The argument checks come before every write; sample_n and the staged
\* samplers then clear the counters, the single samplers never do.
Check ==
  /\ pc = "check"
  /\ IF Refused
     THEN Stop(IF entry \in {"one", "staged"} THEN -1 ELSE 0) /\ UNCHANGED <<st, time>>
     ELSE /\ pc' = (IF entry = "staged" THEN "block" ELSE "draw") /\ rc' = rc
          /\ st' = IF wantStats /\ entry \in {"n", "staged"} THEN ZeroStats ELSE st
          /\ IF entry = "staged"
             THEN /\ tm' = [input |-> 0, mapping |-> 0, outer |-> 0]
                  /\ clock' = StageMark
                  /\ marks' = [marks EXCEPT !.outer0 = StageMark]
             ELSE UNCHANGED time
  /\ UNCHANGED <<call, out, cells, done, pos, filled, attempts, from>>

\* attempts, random_bytes, random_bits and rejections after one more draw.
Counted(keep) ==
  IF wantStats /\ entry \in {"one", "n"}
  THEN StatsRecord(st.attempts + 1, st.rejections + IF keep THEN 0 ELSE 1) ELSE st

\* falcon_original_gaussian0_sample checks its output argument only after the
\* draw: the bytes and the attempt are spent.
DrawWithoutOutput ==
  /\ pc = "draw" /\ done < n /\ HasDraw
  /\ ~ haveOut
  /\ pos' = pos + 1
  /\ from' = Append(from, pos + 1)
  /\ st' = Counted(TRUE)
  /\ Stop(-1)
  /\ UNCHANGED <<call, out, cells, done, filled, attempts, time>>

\* Mutant: the lookup of the reflected variant is given the draw itself.
DrawOneUnreflected ==
  /\ pc = "draw" /\ done < n /\ HasDraw
  /\ haveOut
  /\ LET x == Decode(raw[pos + 1]) keep == Keeps(x) IN
       /\ out' = IF keep /\ entry # "prepare"
                 THEN [out EXCEPT ![done + 1] = Lookup(x, Table)] ELSE out
       /\ cells' = IF keep /\ entry = "prepare"
                   THEN [cells EXCEPT ![done + 1] = x] ELSE cells
       /\ done' = done + (IF keep THEN 1 ELSE 0)
       /\ from' = IF keep THEN Append(from, pos + 1) ELSE from
       /\ st' = Counted(keep)
  /\ pos' = pos + 1
  /\ UNCHANGED <<call, filled, attempts, time, pc, rc>>

\* Mutant: a rejected draw advances the output index.
DrawOneSkips ==
  /\ pc = "draw" /\ done < n /\ HasDraw
  /\ haveOut
  /\ LET x == Decode(raw[pos + 1]) keep == Keeps(x) IN
       /\ out' = IF keep /\ entry # "prepare"
                 THEN [out EXCEPT ![done + 1] = Lookup(Oriented(x), Table)] ELSE out
       /\ cells' = IF keep /\ entry = "prepare"
                   THEN [cells EXCEPT ![done + 1] = Oriented(x)] ELSE cells
       /\ done' = done + 1
       /\ from' = IF keep THEN Append(from, pos + 1) ELSE from
       /\ st' = Counted(keep)
  /\ pos' = pos + 1
  /\ UNCHANGED <<call, filled, attempts, time, pc, rc>>

\* One turn of a streaming loop: draw, test, and for a kept draw the lookup
\* and the store.  In falcon_original_gaussian0_sample_n the counters follow
\* the lookup, in the SDA loops they precede the test; both are in this step.
DrawOne ==
  /\ pc = "draw" /\ done < n /\ HasDraw
  /\ haveOut
  /\ LET x == Decode(raw[pos + 1]) keep == Keeps(x) IN
       /\ out' = IF keep /\ entry # "prepare"
                 THEN [out EXCEPT ![done + 1] = Lookup(Oriented(x), Table)] ELSE out
       /\ cells' = IF keep /\ entry = "prepare"
                   THEN [cells EXCEPT ![done + 1] = Oriented(x)] ELSE cells
       /\ done' = done + (IF keep THEN 1 ELSE 0)
       /\ from' = IF keep THEN Append(from, pos + 1) ELSE from
       /\ st' = Counted(keep)
  /\ pos' = pos + 1
  /\ UNCHANGED <<call, filled, attempts, time, pc, rc>>

\* Mutant: attempts reports the samples delivered.
AttemptsReportedSamples ==
  IF ~ wantStats \/ entry \notin {"le9", "audit", "prepare"} THEN attempts
  ELSE IF kind = "sda" THEN done
  ELSE IF entry = "le9" THEN n ELSE attempts

\* *attempts on return; the original audit functions have no such argument.
AttemptsReported ==
  IF ~ wantStats \/ entry \notin {"le9", "audit", "prepare"} THEN attempts
  ELSE IF kind = "sda" THEN pos
  ELSE IF entry = "le9" THEN n ELSE attempts

\* The callback failed or the buffer holds no further draw.  A scalar sampler
\* reports -2, the loops return how many samples they stored.
Dry ==
  /\ pc = "draw" /\ done < n /\ ~ HasDraw
  /\ Stop(IF entry = "one" THEN -2 ELSE done)
  /\ attempts' = AttemptsReported
  /\ UNCHANGED <<call, out, cells, done, pos, filled, st, time, from>>

Delivered ==
  /\ pc = "draw" /\ done >= n
  /\ Stop(IF entry = "one" THEN 0 ELSE done)
  /\ attempts' = AttemptsReported
  /\ UNCHANGED <<call, out, cells, done, pos, filled, st, time, from>>

-----------------------------------------------------------------------------
(* The staged samplers *)

\* Mutant: the last block is taken whole.
TakeFull == block

Take == IF n - done < block THEN n - done ELSE block

\* Mutant: the input stage is timed from the first block on.
BlockStartUnmarked ==
  /\ pc = "block" /\ done < n
  /\ filled' = 0
  /\ clock' = StageMark
  /\ marks' = IF done = 0 THEN [marks EXCEPT !.t0 = StageMark] ELSE marks
  /\ pc' = "fill"
  /\ UNCHANGED <<call, out, cells, done, pos, st, attempts, tm, from, rc>>

BlockStart ==
  /\ pc = "block" /\ done < n
  /\ filled' = 0
  /\ clock' = StageMark
  /\ marks' = [marks EXCEPT !.t0 = StageMark]
  /\ pc' = "fill"
  /\ UNCHANGED <<call, out, cells, done, pos, st, attempts, tm, from, rc>>

\* Mutant: the block is filled without the acceptance test.
FillUnchecked ==
  /\ pc = "fill" /\ filled < Take /\ HasDraw
  /\ LET x == FromLe9(raw[pos + 1]) IN
       /\ cells' = [cells EXCEPT ![filled + 1] = x]
       /\ filled' = filled + 1
       /\ from' = IF Keeps(x) THEN Append(from, pos + 1) ELSE from
  /\ pos' = pos + 1 /\ clock' = clock + DrawTicks
  /\ UNCHANGED <<call, out, done, st, attempts, marks, tm, pc, rc>>

\* One draw of the input stage.
Fill ==
  /\ pc = "fill" /\ filled < Take /\ HasDraw
  /\ LET x == FromLe9(raw[pos + 1]) IN
       /\ cells' = IF Keeps(x) THEN [cells EXCEPT ![filled + 1] = x] ELSE cells
       /\ filled' = filled + (IF Keeps(x) THEN 1 ELSE 0)
       /\ from' = IF Keeps(x) THEN Append(from, pos + 1) ELSE from
  /\ pos' = pos + 1 /\ clock' = clock + DrawTicks
  /\ UNCHANGED <<call, out, done, st, attempts, marks, tm, pc, rc>>

FillDry ==
  /\ pc = "fill" /\ filled < Take /\ ~ HasDraw
  /\ Stop(-2)
  /\ UNCHANGED <<call, out, cells, done, pos, filled, st, attempts, time, from>>

Filled ==
  /\ pc = "fill" /\ filled = Take
  /\ clock' = StageMark
  /\ marks' = [marks EXCEPT !.t1 = StageMark]
  /\ pc' = "map"
  /\ UNCHANGED <<call, out, cells, done, pos, filled, st, attempts, tm, from, rc>>

\* stage_map over the block, the mark t2 behind it, and the bookkeeping of the loop.
MapBlock ==
  /\ pc = "map"
  /\ out' = [i \in DOMAIN out |-> IF i \in done + 1 .. done + Take
                                  THEN Lookup(cells[i - done], Table) ELSE out[i]]
  /\ clock' = StageMark + SampleTicks * Take
  /\ tm' = [tm EXCEPT !.input = @ + (marks.t1 - marks.t0), !.mapping = @ + (clock' - marks.t1)]
  /\ done' = done + Take
  /\ pc' = "block"
  /\ UNCHANGED <<call, cells, pos, filled, st, attempts, marks, from, rc>>

\* The counters are reconstructed at the end; outer_cycles brackets the loop and
\* the readings between the stages.
Finish ==
  /\ pc = "block" /\ done >= n
  /\ st' = IF ~ wantStats THEN st
           ELSE IF kind = "sda" THEN StatsRecord(pos, pos - n) ELSE StatsRecord(n, 0)
  /\ clock' = StageMark
  /\ tm' = [tm EXCEPT !.outer = StageMark - marks.outer0]
  /\ Stop(0)
  /\ UNCHANGED <<call, out, cells, done, pos, filled, attempts, marks, from>>

Next ==
  \/ Check
  \/ DrawWithoutOutput \/ DrawOne \/ Dry \/ Delivered
  \/ BlockStart \/ Fill \/ FillDry \/ Filled \/ MapBlock \/ Finish

Spec == Init /\ [][Next]_vars

-----------------------------------------------------------------------------
Counters == [attempts : Nat, rejections : Nat, random_bytes : Nat, random_bits : Nat]

TypeOK ==
  /\ kind \in {"original", "sda"} /\ entry \in Streams \cup {"staged"}
  /\ variant \in 0 .. 3 /\ haveOut \in BOOLEAN /\ wantStats \in BOOLEAN
  /\ n \in 0 .. MaxN /\ raw \in Seq(Draw) /\ extra \in 0 .. DrawBytes - 1
  /\ block \in Nat /\ capacity \in Nat
  /\ out \in [1 .. MaxN + 1 -> Nat] /\ cells \in [1 .. capacity -> Limbs]
  /\ done \in 0 .. n /\ pos \in 0 .. Len(raw) /\ filled \in 0 .. block
  /\ st \in Counters /\ attempts \in Nat
  /\ clock \in Nat /\ marks \in [t0 : Nat, t1 : Nat, outer0 : Nat]
  /\ tm \in [input : Nat, mapping : Nat, outer : Nat]
  /\ from \in Seq(1 .. Len(raw))
  /\ pc \in {"check", "draw", "block", "fill", "map", "done"}
  /\ rc \in -2 .. n

-----------------------------------------------------------------------------
(* Refinement *)

\* Reference: integers, not limbs.
Bound == Value(QLimbs)
AcceptDraw(d) == d.kind = "original" \/ d.draw < Bound
ImageDraw(d) ==
  LET c == IF d.reflected THEN Bound - 1 - d.draw ELSE d.draw
      tail == IF d.kind = "original" THEN OriginalTail ELSE SdaTail
  IN  Cardinality({k \in 1 .. Rows : c < Value(tail[k])})

Draws == [i \in 1 .. Len(raw) |-> [kind |-> kind, reflected |-> Reflected, draw |-> raw[i]]]

\* The samples an entry point has stored.
Stored == IF entry = "prepare" THEN [i \in 1 .. done |-> Lookup(cells[i], Table)]
                               ELSE [i \in 1 .. done |-> out[i]]

\* A call that rejects its arguments promises nothing: it stays "sampling".
Status ==
  IF pc # "done" \/ Refused \/ rc = -1 THEN "sampling" ELSE IF done = n THEN "ok" ELSE "exhausted"

Sampling == INSTANCE RejectionSampling WITH
  Draw <- [kind : {"original", "sda"}, reflected : BOOLEAN, draw : Draw],
  Accept <- AcceptDraw, Image <- ImageDraw,
  draws <- Draws, status <- Status,
  result <- IF Status = "ok" THEN Stored ELSE <<>>

\* One draw is one Consume, whatever the entry point; a finished call has
\* stored the images of the first n accepted draws or the source holds fewer.
Implements == Sampling!Spec

-----------------------------------------------------------------------------
(* Safety *)

\* No sample is stored past the ones delivered, and none at all by prepare.
NothingPast ==
  \A i \in 1 .. MaxN + 1 : (i > done \/ entry = "prepare") => out[i] = Poison

\* At every moment each entry point has stored the images of the first accepted
\* draws, in order, and has written nothing past them; a prepared candidate
\* maps to the sample the fused call stores.
SameSamples ==
  /\ Sampling!HoldsFirst(Stored, done)
  /\ NothingPast

\* The counters of the draws spent so far.
Spent == StatsRecord(pos, IF kind = "original" THEN 0 ELSE pos - Len(from))

\* What the counters say when a call has ended: sample_n and repeated single
\* calls count every draw even when they fail, a failed staged call leaves them
\* cleared, *attempts is set only by calls that were not refused, and the byte
\* count never includes the bytes behind the last whole draw.
CountersExact ==
  LET counters ==
        CASE entry = "one" -> IF wantStats THEN Spent ELSE ZeroStats
          [] entry = "n" /\ wantStats /\ ~ Refused -> Spent
          [] entry = "staged" /\ wantStats /\ rc = 0 -> Spent
          [] entry = "staged" /\ wantStats /\ rc = -2 -> ZeroStats
          [] OTHER -> StaleStats
      reports == entry = "le9" \/ (kind = "sda" /\ entry \in {"audit", "prepare"})
  IN  pc = "done" =>
        /\ st = counters
        /\ attempts = IF reports /\ wantStats /\ ~ Refused THEN pos ELSE Stale
        /\ DrawBytes * pos <= RawLen

\* The draws up to the last one that is a sample.
Reached == IF done = 0 THEN 0 ELSE from[done]

\* What the stage timers hold after b blocks: the draws spent on the samples
\* stored, the samples mapped, and one reading of the clock per block each.
AfterBlocks(b) ==
  /\ (b - 1) * block < done /\ done <= b * block
  /\ tm.input = DrawTicks * Reached + MarkTicks * b
  /\ tm.mapping = SampleTicks * done + MarkTicks * b

\* However a staged call ends, its stage timers hold the work on the blocks it
\* finished, and none of the draws of a block it had to give up; the outer time
\* of a success exceeds them by the readings no stage covers, one per block and
\* one at the end, and a failed call reports none.
TimingAttributed ==
  entry = "staged" /\ pc = "done" /\ rc # -1 =>
    \E b \in 0 .. n :
      /\ AfterBlocks(b)
      /\ tm.outer = IF rc = 0 THEN tm.input + tm.mapping + MarkTicks * (b + 1) ELSE 0

\* The block about to be mapped holds exactly the accepted draws of its own
\* stretch of the source, and cells past the block are never touched.
BlockFresh ==
  entry = "staged" =>
    /\ \A i \in 1 .. capacity : i > block => cells[i] = ZeroLimbs
    /\ pc = "map" =>
         /\ Len(from) = done + Take
         /\ \A i \in 1 .. Take : Value(cells[i]) = raw[from[done + i]]

-----------------------------------------------------------------------------
(* The inductive invariant *)

\* The phases of a call: refused calls never leave the argument checks, and the
\* streaming and the staged loops keep to their own.
Control ==
  /\ pc = "check" \/ (pc = "done" /\ Refused) =>
       done = 0 /\ pos = 0 /\ from = <<>> /\ attempts = Stale
  /\ pc = "draw" => ~ Refused /\ entry # "staged"
  /\ pc \in {"block", "fill", "map"} => ~ Refused /\ entry = "staged"
  /\ pc = "fill" => filled <= Take /\ done < n
  /\ pc = "map" => filled = Take /\ done < n
  /\ entry # "staged" => capacity = MaxN

\* Slots of the workspace that hold accepted draws not yet mapped.
Open == IF pc \in {"fill", "map"} \/ (entry = "staged" /\ pc = "done" /\ rc = -2)
        THEN filled ELSE 0

\* Every accepted draw is stored or open, except the one a call without an
\* output argument spends; the original kind accepts every draw.
History ==
  /\ Len(from) <= pos
  /\ kind = "original" => Len(from) = pos
  /\ ~ (pc = "done" /\ rc = -1) => Len(from) = done + Open

\* The counters while a call runs.
Counting ==
  pc # "done" =>
    /\ attempts = Stale
    /\ entry = "one" => st = IF wantStats THEN Spent ELSE ZeroStats
    /\ entry = "n" => st = IF wantStats /\ pc # "check" THEN Spent ELSE StaleStats
    /\ entry = "staged" => st = IF wantStats /\ pc # "check" THEN ZeroStats ELSE StaleStats
    /\ entry \notin {"one", "n", "staged"} => st = StaleStats

\* The timing of a staged call: after b blocks, of which all but the last are
\* full, the marks and the clock add what has passed since.  The last draw of a
\* full block is a sample.
Timing ==
  pc \in {"block", "fill", "map"} =>
    /\ Reached <= pos
    /\ pc = "block" => Reached = pos
    /\ pc \in {"fill", "map"} /\ filled = Take => from[Len(from)] = pos
    /\ \E b \in 0 .. done :
         LET lap == marks.outer0 + tm.input + tm.mapping + MarkTicks * b IN
         /\ AfterBlocks(b) /\ (done < n => done = b * block)
         /\ tm.outer = 0
         /\ pc = "block" => clock = lap
         /\ pc \in {"fill", "map"} => marks.t0 = lap + MarkTicks
         /\ pc = "fill" => clock = marks.t0 + DrawTicks * (pos - Reached)
         /\ pc = "map" =>
              clock = marks.t1 /\ clock = marks.t0 + DrawTicks * (pos - Reached) + MarkTicks

\* Each stored sample is the image of the draw the history names.
StoredExact == \A i \in 1 .. done : Stored[i] = ImageDraw(Draws[from[i]])

\* The open slots hold the draws the history names; no cell past the block is
\* touched.
SlotsFresh ==
  /\ \A i \in 1 .. Open : Value(cells[i]) = raw[from[done + i]]
  /\ entry = "staged" => \A i \in 1 .. capacity : i > block => cells[i] = ZeroLimbs

SamplerInv ==
  /\ TypeOK /\ Control /\ History
  /\ Counting /\ Timing /\ StoredExact /\ SlotsFresh

=============================================================================
