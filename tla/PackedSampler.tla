--------------------------- MODULE PackedSampler ---------------------------
(***************************************************************************)
(* The packed-bit SDA samplers of online/frodo: a candidate of DrawBits    *)
(* bits is drawn from a bit reader and, only if it is accepted, one more   *)
(* bit for its sign.  Four front ends share the promise:                   *)
(*   fast_scalar  frodoXXX_sda_sample_n_scalar    fast reader, one by one  *)
(*   fast_batch   frodoXXX_sda_sample_n_avx2      fast reader, Lanes       *)
(*   slow_scalar  frodo_sda_sample_n              byte reader, uni(1)      *)
(*   slow_batch   frodo_sda_sample_n_avx2         byte reader, uni(Lanes)  *)
(* A batch is drawn completely before any sample of it is stored.          *)
(***************************************************************************)
EXTENDS WordProfile, BitReader

CONSTANTS
  DrawBits,   \* bits of a candidate, CandMod = 2^DrawBits
  Lanes,      \* samples of a vector batch (16 or 32 in the code)
  Poison,     \* what the output holds before the call
  MaxBytes,   \* bound: longest packed source
  MaxN        \* bound: most samples requested

\* The reservoir holds a candidate and the byte it ends in (14 + 7 bits at most
\* of 64 in the code).
ASSUME PackedAssumption ==
  /\ DrawBits \in Nat \ {0} /\ CandMod = 2 ^ DrawBits
  /\ DrawBits + ByteBits - 1 <= ByteBits * RefillBytes
  /\ Lanes \in Nat \ {0}
  /\ Poison \in Word
  /\ MaxBytes \in Nat /\ MaxN \in Nat

VARIABLES
  frontend, wantStats,
  n, len, stream,    \* request and packed source
  reader,            \* *r
  out, done,         \* output buffer, samples stored
  lane,              \* candidates and signs drawn for the current batch
  cand, half,        \* accepted candidate whose sign is not drawn yet
  st,                \* *st
  pos, from,         \* history: draws completed, and which of them accepted
  pc, rc

call == <<frontend, wantStats, n, len, stream>>
vars == <<call, reader, out, done, lane, cand, half, st, pos, from, pc, rc>>

Fast == frontend \in {"fast_scalar", "fast_batch"}
Batched == frontend \in {"fast_batch", "slow_batch"}

ZeroStats == [attempts |-> 0, rejections |-> 0, random_bytes |-> 0, random_bits |-> 0]
StaleStats == [attempts |-> 99, rejections |-> 99, random_bytes |-> 99, random_bits |-> 99]

\* Mutant: a batch is always a full vector.
BatchFull == IF Batched THEN Lanes ELSE 1

\* Samples drawn before the next store.
Batch ==
  IF ~ Batched THEN 1 ELSE IF n - done < Lanes THEN n - done ELSE Lanes

Take(bits) ==
  IF Fast THEN FastTake(reader, stream, len, bits)
          ELSE SlowTake(reader, stream, len, bits)

Init ==
  /\ frontend \in {"fast_scalar", "fast_batch", "slow_scalar", "slow_batch"}
  /\ wantStats \in BOOLEAN
  /\ n \in 0 .. MaxN
  /\ len \in 0 .. MaxBytes
  /\ stream \in 0 .. 2 ^ (ByteBits * len) - 1
  /\ reader = NewReader
  /\ out = [i \in 1 .. MaxN + 1 |-> Poison]
  /\ done = 0 /\ lane = <<>>
  /\ cand = 0 /\ half = FALSE
  /\ st = StaleStats
  /\ pos = 0 /\ from = <<>>
  /\ pc = "start" /\ rc = 0

Count(update) == st' = IF wantStats THEN update ELSE st

Start ==
  /\ pc = "start"
  /\ Count(ZeroStats)
  /\ pc' = "draw"
  /\ UNCHANGED <<call, reader, out, done, lane, cand, half, pos, from, rc>>

\* The reader ran dry.  uni16/uni8 report the bytes read before they return;
\* the fast loops return without FINISH_STATS, so random_bytes stays cleared.
Dry(r) ==
  /\ pc' = "done" /\ rc' = -2
  /\ Count(IF Fast THEN st ELSE [st EXCEPT !.random_bytes = r.pos])

\* Mutant: the candidate equal to q is kept.
DrawCandidateInclusive ==
  /\ pc = "draw" /\ done < n
  /\ LET t == Take(DrawBits)
         keep == t.value <= Q
     IN  /\ reader' = t.reader
         /\ IF t.rc # 0
            THEN Dry(t.reader) /\ UNCHANGED <<cand, half, pos>>
            ELSE /\ Count([st EXCEPT !.attempts = @ + 1, !.random_bits = @ + DrawBits,
                                     !.rejections = @ + (IF keep THEN 0 ELSE 1)])
                 /\ cand' = IF keep THEN t.value ELSE cand
                 /\ half' = keep
                 /\ pos' = IF keep THEN pos ELSE pos + 1
                 /\ pc' = IF keep THEN "sign" ELSE "draw"
                 /\ rc' = rc
  /\ UNCHANGED <<call, out, done, lane, from>>

DrawCandidate ==
  /\ pc = "draw" /\ done < n
  /\ LET t == Take(DrawBits)
         keep == AcceptCandidate(t.value)
     IN  /\ reader' = t.reader
         /\ IF t.rc # 0
            THEN Dry(t.reader) /\ UNCHANGED <<cand, half, pos>>
            ELSE /\ Count([st EXCEPT !.attempts = @ + 1, !.random_bits = @ + DrawBits,
                                     !.rejections = @ + (IF keep THEN 0 ELSE 1)])
                 /\ cand' = IF keep THEN t.value ELSE cand
                 /\ half' = keep
                 /\ pos' = IF keep THEN pos ELSE pos + 1
                 /\ pc' = IF keep THEN "sign" ELSE "draw"
                 /\ rc' = rc
  /\ UNCHANGED <<call, out, done, lane, from>>

\* Mutant: the sign bit is not charged to random_bits.
DrawSignUncounted ==
  /\ pc = "sign"
  /\ LET t == Take(1) IN
       /\ reader' = t.reader
       /\ IF t.rc # 0
          THEN Dry(t.reader) /\ UNCHANGED <<lane, half, pos, from>>
          ELSE /\ lane' = Append(lane, <<cand, t.value>>)
               /\ half' = FALSE
               /\ pos' = pos + 1 /\ from' = Append(from, pos + 1)
               /\ pc' = (IF Len(lane) + 1 = Batch THEN "map" ELSE "draw") /\ rc' = rc
               /\ st' = st
  /\ UNCHANGED <<call, out, done, cand>>

DrawSign ==
  /\ pc = "sign"
  /\ LET t == Take(1) IN
       /\ reader' = t.reader
       /\ IF t.rc # 0
          THEN Dry(t.reader) /\ UNCHANGED <<lane, half, pos, from>>
          ELSE /\ lane' = Append(lane, <<cand, t.value>>)
               /\ half' = FALSE
               /\ pos' = pos + 1 /\ from' = Append(from, pos + 1)
               /\ pc' = (IF Len(lane) + 1 = Batch THEN "map" ELSE "draw") /\ rc' = rc
               /\ Count([st EXCEPT !.random_bits = @ + 1])
  /\ UNCHANGED <<call, out, done, cand>>

\* Mutant: the lanes are stored last first.
MapLanesReversed ==
  /\ pc = "map"
  /\ out' = [i \in DOMAIN out |->
               IF i \in done + 1 .. done + Len(lane)
               THEN MapParts(lane[done + Len(lane) + 1 - i][1],
                             lane[done + Len(lane) + 1 - i][2])
               ELSE out[i]]
  /\ done' = done + Len(lane)
  /\ lane' = <<>>
  /\ Count(IF Fast THEN st ELSE [st EXCEPT !.random_bytes = reader.pos])
  /\ pc' = "draw"
  /\ UNCHANGED <<call, reader, cand, half, pos, from, rc>>

\* Lookup, sign and store of the batch; uni16/uni8 set random_bytes on return.
MapLanes ==
  /\ pc = "map"
  /\ out' = [i \in DOMAIN out |->
               IF i \in done + 1 .. done + Len(lane)
               THEN MapParts(lane[i - done][1], lane[i - done][2]) ELSE out[i]]
  /\ done' = done + Len(lane)
  /\ lane' = <<>>
  /\ Count(IF Fast THEN st ELSE [st EXCEPT !.random_bytes = reader.pos])
  /\ pc' = "draw"
  /\ UNCHANGED <<call, reader, cand, half, pos, from, rc>>

\* FINISH_STATS: the fast reader reports the bytes it has loaded.
Finish ==
  /\ pc = "draw" /\ done >= n
  /\ pc' = "done" /\ rc' = 0
  /\ Count(IF Fast THEN [st EXCEPT !.random_bytes = reader.loaded] ELSE st)
  /\ UNCHANGED <<call, reader, out, done, lane, cand, half, pos, from>>

Next == Start \/ DrawCandidate \/ DrawSign \/ MapLanes \/ Finish

Spec == Init /\ [][Next]_vars

-----------------------------------------------------------------------------
TypeOK ==
  /\ frontend \in {"fast_scalar", "fast_batch", "slow_scalar", "slow_batch"}
  /\ wantStats \in BOOLEAN /\ n \in 0 .. MaxN /\ len \in 0 .. MaxBytes
  /\ reader \in [pos : 0 .. len, reservoir : 0 .. ResMod - 1,
                 available : 0 .. ByteBits * RefillBytes, consumed : Nat,
                 loaded : Nat, fast : Nat, tail : Nat]
  /\ out \in [1 .. MaxN + 1 -> Word]
  /\ done \in 0 .. n
  /\ lane \in Seq((0 .. Q - 1) \X {0, 1}) /\ Len(lane) <= Batch
  /\ cand \in 0 .. Q - 1 /\ half \in BOOLEAN
  /\ st \in [attempts : Nat, rejections : Nat, random_bytes : Nat, random_bits : Nat]
  /\ pc \in {"start", "draw", "sign", "map", "done"}
  /\ rc \in {0, -2}

-----------------------------------------------------------------------------
(* Refinement: what the stream promises, whatever reads it. *)

Finished(code) == pc = "done" /\ rc = code

\* The draws of the stream from bit k on.  A draw is a candidate with its sign,
\* or a rejected candidate with sign 0; a draw the stream cuts off is not one.
Parse[k \in 0 .. ByteBits * len] ==
  LET c == Slice(stream, k, DrawBits)
      left == ByteBits * len - k
  IN  IF left < DrawBits THEN <<>>
      ELSE IF ~ AcceptCandidate(c) THEN <<<<c, 0>>>> \o Parse[k + DrawBits]
      ELSE IF left < DrawBits + 1 THEN <<>>
      ELSE <<<<c, Slice(stream, k + DrawBits, 1)>>>> \o Parse[k + DrawBits + 1]

Draws == Parse[0]
DrawAccepted(d) == AcceptCandidate(d[1])
DrawImage(d) == MapParts(d[1], d[2])

Status ==
  IF Finished(0) THEN "ok" ELSE IF Finished(-2) THEN "exhausted" ELSE "sampling"

Sampling == INSTANCE RejectionSampling WITH
  Draw <- (0 .. CandMod - 1) \X {0, 1}, Accept <- DrawAccepted, Image <- DrawImage,
  draws <- Draws, status <- Status,
  result <- IF Finished(0) THEN [i \in 1 .. n |-> out[i]] ELSE <<>>

\* Each front end samples from the parsed stream: a rejected candidate or an
\* accepted one with its sign is one Consume; -2 means the stream holds fewer
\* than n complete accepted draws.
Implements == Sampling!Spec

-----------------------------------------------------------------------------
(* Safety *)

\* All four front ends store the same samples from the same bytes, in order;
\* a batch appears as a whole or not at all, and nothing past it is touched.
OutputPrefix ==
  /\ Sampling!HoldsFirst(out, done)
  /\ \A i \in done + 1 .. MaxN + 1 : out[i] = Poison
  /\ Batched => done % Lanes = 0 \/ done = n

\* Neither reader ever skips, repeats or reorders a bit, across word refills,
\* byte refills and failed takes; the byte reader holds back less than a byte
\* it was not asked for, and the fast one counts every byte it loads.
ReaderInSync ==
  /\ InSync(reader, stream, len)
  /\ Fast => /\ reader.loaded = reader.pos
             /\ reader.loaded = RefillBytes * reader.fast + reader.tail
  /\ ~ Fast /\ ~ Finished(-2) => reader.available < ByteBits

\* The counters account for every bit taken from the reader, including the
\* candidate whose sign bit the source no longer had.
BitAccounting ==
  LET accepted == done + Len(lane)
      pending == IF half THEN 1 ELSE 0
  IN
  IF ~ wantStats \/ pc = "start" THEN st = StaleStats
  ELSE /\ st.attempts = st.rejections + accepted + pending
       /\ st.random_bits = DrawBits * st.attempts + accepted
       /\ st.random_bits = reader.consumed
       /\ Finished(0) => st.random_bytes = reader.pos
       /\ Finished(-2) => st.random_bytes = IF Fast THEN 0 ELSE reader.pos
=============================================================================
