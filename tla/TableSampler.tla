---------------------------- MODULE TableSampler ----------------------------
(***************************************************************************)
(* The table-driven magnitude samplers: original_cdt_ref_sample_batch and  *)
(* sda_cdt_ref_sample_batch (online/frodo/sdat_ref.c) against              *)
(* original_cdt_avx2_sample_batch and sda_cdt_avx2_sample_batch            *)
(* (online/falcon/sdat_avx2.c).  Randomness comes from a callback that may *)
(* fail at any draw and work again at the next.  The caller's sdat_stats   *)
(* and the process-wide AVX2 statistics are accumulated by one call after  *)
(* the other; no call clears them.                                         *)
(***************************************************************************)
EXTENDS Integers, Sequences, FiniteSets

CONSTANTS
  Tables,     \* the sdat_table objects: kind, type, bits, q, thresholds
  Raws,       \* values the callback's bytes are enumerated over
  NarrowLanes,\* lanes of a u8/u16 batch (8 in the code)
  WideLanes,  \* lanes of a u72 batch    (4 in the code)
  Poison,     \* what the output holds before a call
  MaxN,       \* bound: most samples requested
  MaxDraws,   \* bound: successful callbacks over all calls
  MaxCalls    \* bound: calls made

Types == {"u8", "u16", "u72"}

\* sdat_stats and sdat_avx2_stats.
Counters == [attempts : Nat, rejections : Nat, random_bytes : Nat, random_bits : Nat]
VectorCounters == [batches : Nat, vectorized : Nat, tail : Nat, api : Nat,
                   refill_rounds : Nat, rejected_lanes : Nat]

ASSUME TablesAssumption ==
  /\ \A t \in Tables :
       /\ t.kind \in {"original", "sda"} /\ t.type \in Types
       /\ t.bits \in Nat /\ t.q \in Nat \ {0} /\ t.thresholds \in Seq(Nat)
       /\ t.kind = "original" => t.type # "u8"
  /\ Raws \subseteq Nat /\ Poison \in Nat
  /\ NarrowLanes \in Nat \ {0} /\ WideLanes \in Nat \ {0}
  /\ MaxN \in Nat /\ MaxDraws \in Nat /\ MaxCalls \in Nat \ {0}

VARIABLES
  wantStats,          \* st # NULL, for every call
  t, backend,         \* table and implementation of the current call
  haveOut, n,         \* out # NULL, samples requested
  out, done,          \* output buffer, samples stored
  lane,               \* xs[0 .. k-1]: accepted draws of the current batch
  st, avx,            \* *st and the static sdat_avx2_stats
  log, first,         \* history: every delivered draw; those of earlier calls
  vectored,           \* history: samples stored by earlier avx2 calls
  calls, pc, rc

call == <<wantStats, t, backend, haveOut, n>>
history == <<first, vectored, calls>>
vars == <<call, out, done, lane, st, avx, log, history, pc, rc>>

Bytes(type) == CASE type = "u8" -> 1 [] type = "u16" -> 2 [] type = "u72" -> 9

\* draw_bits_u8/u16 and draw8/draw16 mask the drawn bytes; nine bytes are whole.
Masked(table, raw) == IF table.type = "u72" THEN raw ELSE raw % 2 ^ table.bits

\* Rejection of UniformBnd(q); the original u16 and u72 tables reject nothing.
Rejects(table, x) == table.kind = "sda" /\ x >= table.q

\* online_lookup_u8/u16/u72 count x >= t[i], the reverse tail counts x < t[i];
\* the vector lookups compute the same lane by lane.
Lookup(table, x) ==
  IF table.kind = "original" /\ table.type = "u72"
  THEN Cardinality({i \in DOMAIN table.thresholds : x < table.thresholds[i]})
  ELSE Cardinality({i \in DOMAIN table.thresholds : x >= table.thresholds[i]})

Lanes == IF t.type = "u72" THEN WideLanes ELSE NarrowLanes

\* Mutant: a batch is always a full vector.
BatchFull == IF backend = "ref" THEN 1 ELSE Lanes

\* Draws gathered before the next store.
Batch ==
  IF backend = "ref" THEN 1 ELSE IF n - done < Lanes THEN n - done ELSE Lanes

NewCall ==
  /\ t' \in Tables /\ backend' \in {"ref", "avx2"}
  /\ n' \in 0 .. MaxN /\ haveOut' \in BOOLEAN
  /\ out' = [i \in 1 .. MaxN + 1 |-> Poison]
  /\ done' = 0 /\ lane' = <<>>
  /\ pc' = "check" /\ rc' = 0

Init ==
  /\ wantStats \in BOOLEAN
  /\ t \in Tables /\ backend \in {"ref", "avx2"}
  /\ n \in 0 .. MaxN /\ haveOut \in BOOLEAN
  /\ out = [i \in 1 .. MaxN + 1 |-> Poison]
  /\ done = 0 /\ lane = <<>>
  /\ st = [attempts |-> 0, rejections |-> 0, random_bytes |-> 0, random_bits |-> 0]
  /\ avx = [batches |-> 0, vectorized |-> 0, tail |-> 0, api |-> 0,
            refill_rounds |-> 0, rejected_lanes |-> 0]
  /\ log = <<>> /\ first = 0 /\ vectored = 0 /\ calls = 1
  /\ pc = "check" /\ rc = 0

Stop(code) == pc' = "done" /\ rc' = code

\* An empty request succeeds before the pointers are looked at.
Check ==
  /\ pc = "check"
  /\ IF n = 0 THEN Stop(0)
     ELSE IF ~ haveOut THEN Stop(-1)
     ELSE pc' = "draw" /\ rc' = rc
  /\ UNCHANGED <<call, out, done, lane, st, avx, log, history>>

\* addst, and the rejection counted beside it.
Attempt(rejected) ==
  st' = IF ~ wantStats THEN st
        ELSE [attempts     |-> st.attempts + 1,
              rejections   |-> st.rejections + (IF rejected THEN 1 ELSE 0),
              random_bytes |-> st.random_bytes + Bytes(t.type),
              random_bits  |-> st.random_bits + t.bits]

\* online_avx2_stats_refill, called by the SDA loops only.
Refill(rejected) ==
  avx' = IF backend = "ref" \/ t.kind = "original" THEN avx
         ELSE [avx EXCEPT !.refill_rounds = @ + 1,
                          !.rejected_lanes = @ + (IF rejected THEN 1 ELSE 0)]

\* Mutant: a rejected draw restarts the batch.
DrawRestart(raw) ==
  /\ pc = "draw" /\ done < n /\ Len(log) < MaxDraws
  /\ LET x == Masked(t, raw) rejected == Rejects(t, x) IN
       /\ Attempt(rejected) /\ Refill(rejected)
       /\ lane' = IF rejected THEN <<>> ELSE Append(lane, x)
       /\ log' = Append(log, [table |-> t, backend |-> backend, x |-> x])
       /\ pc' = IF Len(lane') = Batch THEN "store" ELSE "draw"
  /\ UNCHANGED <<call, out, done, history, rc>>

\* The callback delivers one draw; a rejected one is drawn again.
Draw(raw) ==
  /\ pc = "draw" /\ done < n /\ Len(log) < MaxDraws
  /\ LET x == Masked(t, raw) rejected == Rejects(t, x) IN
       /\ Attempt(rejected) /\ Refill(rejected)
       /\ lane' = IF rejected THEN lane ELSE Append(lane, x)
       /\ log' = Append(log, [table |-> t, backend |-> backend, x |-> x])
       /\ pc' = IF Len(lane') = Batch THEN "store" ELSE "draw"
  /\ UNCHANGED <<call, out, done, history, rc>>

\* The callback fails: nothing is counted and the gathered lanes are dropped.
DrawFails ==
  /\ pc = "draw" /\ done < n
  /\ Stop(IF backend = "avx2" /\ t.type = "u72" THEN -3 ELSE -2)
  /\ UNCHANGED <<call, out, done, lane, st, avx, log, history>>

\* A full vector is one batch, a shorter one is stored sample by sample.
Stored(m) ==
  IF backend = "ref" THEN avx
  ELSE IF m = Lanes
  THEN [avx EXCEPT !.batches = @ + 1, !.vectorized = @ + m, !.api = @ + 1]
  ELSE [avx EXCEPT !.tail = @ + m, !.api = @ + m]

\* Mutant: a batch always advances the output by a full vector.
StoreFullVector ==
  /\ pc = "store"
  /\ out' = [i \in DOMAIN out |-> IF i \in done + 1 .. done + Len(lane)
                                  THEN Lookup(t, lane[i - done]) ELSE out[i]]
  /\ avx' = Stored(IF backend = "ref" THEN 1 ELSE Lanes)
  /\ done' = done + Len(lane)
  /\ lane' = <<>>
  /\ pc' = "draw"
  /\ UNCHANGED <<call, st, log, history, rc>>

\* The lookups and stores of a complete batch.
Store ==
  /\ pc = "store"
  /\ out' = [i \in DOMAIN out |-> IF i \in done + 1 .. done + Len(lane)
                                  THEN Lookup(t, lane[i - done]) ELSE out[i]]
  /\ avx' = Stored(Len(lane))
  /\ done' = done + Len(lane)
  /\ lane' = <<>>
  /\ pc' = "draw"
  /\ UNCHANGED <<call, st, log, history, rc>>

Return ==
  /\ pc = "draw" /\ done >= n
  /\ Stop(0)
  /\ UNCHANGED <<call, out, done, lane, st, avx, log, history>>

\* The caller calls again, with another table or implementation, and keeps st.
Again ==
  /\ pc = "done" /\ calls < MaxCalls
  /\ NewCall
  /\ calls' = calls + 1 /\ first' = Len(log)
  /\ vectored' = vectored + (IF backend = "avx2" THEN done ELSE 0)
  /\ UNCHANGED <<wantStats, st, avx, log>>

Next ==
  \/ Check \/ (\E raw \in Raws : Draw(raw)) \/ DrawFails \/ Store \/ Return
  \/ Again

Spec == Init /\ [][Next]_vars

-----------------------------------------------------------------------------
(* The delivered draws, independently counted *)

Rejected(k) == Rejects(log[k].table, log[k].x)

\* The accepted draws of the current call and the place of draw k among them.
Accepted == {k \in first + 1 .. Len(log) : ~ Rejected(k)}
Rank(k) == Cardinality({j \in Accepted : j <= k})

\* Magnitude by its definition: the number of table entries a draw has passed.
Magnitude(table, x) ==
  LET passed == {i \in 1 .. Len(table.thresholds) :
                   IF table.kind = "original" /\ table.type = "u72"
                   THEN x + 1 <= table.thresholds[i] ELSE table.thresholds[i] <= x}
  IN  Cardinality(passed)

\* Draws of all calls: the rejected ones, and the rounds of the SDA vector loops.
Rejections == {k \in DOMAIN log : Rejected(k)}
Rounds == {k \in DOMAIN log : log[k].backend = "avx2" /\ log[k].table.kind = "sda"}

\* The bits and bytes drawn, one by one: a sum is the size of a disjoint union.
BitsDrawn == UNION {{k} \X (1 .. log[k].table.bits) : k \in DOMAIN log}
BytesDrawn == UNION {{k} \X (1 .. Bytes(log[k].table.type)) : k \in DOMAIN log}

-----------------------------------------------------------------------------
TypeOK ==
  /\ wantStats \in BOOLEAN /\ haveOut \in BOOLEAN
  /\ t \in Tables /\ backend \in {"ref", "avx2"}
  /\ n \in 0 .. MaxN /\ done \in 0 .. n
  /\ out \in [1 .. MaxN + 1 -> Nat]
  /\ lane \in Seq(Nat) /\ Len(lane) <= Lanes /\ done + Len(lane) <= n
  /\ st \in Counters /\ avx \in VectorCounters
  /\ log \in Seq([table : Tables, backend : {"ref", "avx2"}, x : Nat])
  /\ first \in 0 .. Len(log) /\ Len(log) <= MaxDraws
  /\ vectored \in Nat /\ calls \in 1 .. MaxCalls
  /\ pc \in {"check", "draw", "store", "done"} /\ rc \in {0, -1, -2, -3}

\* Both implementations store the magnitudes of the first accepted draws in
\* stream order and nothing else.  What differs after a failure is how many:
\* ref keeps every accepted draw, avx2 drops the lanes of its open batch, even
\* when a rejected draw or a failed callback came between them.
StoredPrefix ==
  /\ done + Len(lane) = Cardinality(Accepted)
  /\ \A i \in 1 .. done :
       \E k \in Accepted : Rank(k) = i /\ out[i] = Magnitude(t, log[k].x)
  /\ \A i \in done + 1 .. MaxN + 1 : out[i] = Poison
  /\ pc = "done" /\ rc < -1 =>
       IF backend = "ref" THEN done = Cardinality(Accepted)
       ELSE done % Lanes = 0 /\ Cardinality(Accepted) - done < Lanes
  /\ pc = "done" /\ rc = 0 => done = n

\* The caller's counters and the process-wide AVX2 counters add up over any
\* sequence of calls, failed ones and changes of table or implementation
\* included: each delivered draw is charged once, each stored AVX2 sample is
\* counted either as vectorized or as tail, never both.
CountersAccumulate ==
  /\ IF wantStats
     THEN /\ st.attempts = Len(log)
          /\ st.rejections = Cardinality(Rejections)
          /\ st.random_bits = Cardinality(BitsDrawn)
          /\ st.random_bytes = Cardinality(BytesDrawn)
     ELSE \A f \in DOMAIN st : st[f] = 0
  /\ avx.refill_rounds = Cardinality(Rounds)
  /\ avx.rejected_lanes = Cardinality(Rounds \cap Rejections)
  /\ avx.vectorized + avx.tail = vectored + (IF backend = "avx2" THEN done ELSE 0)
  /\ avx.api = avx.batches + avx.tail

-----------------------------------------------------------------------------
\* docs/TABLE_FORMAT.md: the frozen original Frodo tables use the official
\* upper-inclusive thresholds and therefore compare x > threshold.
OfficialThresholds ==
  t.kind = "original" /\ t.type = "u16" =>
    \A i \in 1 .. done :
      out[i] = Cardinality({j \in DOMAIN t.thresholds : log[first + i].x > t.thresholds[j]})
=============================================================================
