----------------------------- MODULE BitReader -----------------------------
(***************************************************************************)
(* The two LSB-first bit readers of online/common over one byte buffer:    *)
(* sdat_bitreader (byte-wise) and sdat_bitreader_fast (whole-word refill   *)
(* when its reservoir is empty, byte-wise tail otherwise).                 *)
(*                                                                         *)
(* A buffer of len bytes is the integer `stream` whose low bits come       *)
(* first; byte i and any run of bits are slices of it.  A reader is a      *)
(* record; a take yields its return code, the value and the reader after.  *)
(***************************************************************************)
EXTENDS Integers

CONSTANTS
  ByteBits,    \* bits of a byte (8 in the code)
  RefillBytes  \* bytes of a fast refill (8); also the width of the reservoir

ASSUME ReaderAssumption ==
  /\ ByteBits \in Nat \ {0}
  /\ RefillBytes \in Nat \ {0}

ResMod == 2 ^ (ByteBits * RefillBytes)

\* The `count` bits of the stream from bit `first` on.
Slice(stream, first, count) == (stream \div 2 ^ first) % 2 ^ count

\* sdat_bitreader_init / sdat_bitreader_fast_init.  ptr/pos, the reservoir and
\* its fill, and the counters; `loaded` and the refill counts are fast-only.
NewReader ==
  [pos |-> 0, reservoir |-> 0, available |-> 0, consumed |-> 0,
   loaded |-> 0, fast |-> 0, tail |-> 0]

\* Bytes a byte-wise loop loads: enough to reach `need`, or all that is left.
BytesToLoad(r, len, need) ==
  LET want == (need - r.available + ByteBits - 1) \div ByteBits
      left == len - r.pos
  IN  IF r.available >= need THEN 0 ELSE IF want < left THEN want ELSE left

\* reservoir |= byte << available, in a reservoir of fixed width.
Pushed(r, stream, k) ==
  (r.reservoir + Slice(stream, ByteBits * r.pos, ByteBits * k) * 2 ^ r.available)
    % ResMod

\* The loop of sdat_bitreader_take; what it loaded stays loaded on failure.
SlowLoad(r, stream, len, need) ==
  LET k == BytesToLoad(r, len, need)
  IN  [r EXCEPT !.pos = @ + k, !.reservoir = Pushed(r, stream, k),
                !.available = @ + ByteBits * k]

\* Mutant: the word refill is taken whenever the reservoir is short, so the
\* bits still in it are lost.
FastLoadOverwrite(r, stream, len, need) ==
  IF r.available >= need THEN r
  ELSE IF len - r.pos >= RefillBytes
  THEN [r EXCEPT !.pos = @ + RefillBytes,
                 !.reservoir = Slice(stream, ByteBits * r.pos, ByteBits * RefillBytes),
                 !.available = ByteBits * RefillBytes,
                 !.loaded = @ + RefillBytes, !.fast = @ + 1]
  ELSE LET k == BytesToLoad(r, len, need)
       IN  [r EXCEPT !.pos = @ + k, !.reservoir = Pushed(r, stream, k),
                     !.available = @ + ByteBits * k,
                     !.loaded = @ + k, !.tail = @ + k]

\* sdat_fast_refill64.
FastLoad(r, stream, len, need) ==
  IF r.available >= need THEN r
  ELSE IF r.available = 0 /\ len - r.pos >= RefillBytes
  THEN [r EXCEPT !.pos = @ + RefillBytes,
                 !.reservoir = Slice(stream, ByteBits * r.pos, ByteBits * RefillBytes),
                 !.available = ByteBits * RefillBytes,
                 !.loaded = @ + RefillBytes, !.fast = @ + 1]
  ELSE LET k == BytesToLoad(r, len, need)
       IN  [r EXCEPT !.pos = @ + k, !.reservoir = Pushed(r, stream, k),
                     !.available = @ + ByteBits * k,
                     !.loaded = @ + k, !.tail = @ + k]

\* The common tail of a take: mask, shift and count, or fail with -2.
TakeFrom(r, bits) ==
  IF r.available < bits THEN [rc |-> -2, value |-> 0, reader |-> r]
  ELSE [rc |-> 0, value |-> r.reservoir % 2 ^ bits,
        reader |-> [r EXCEPT !.reservoir = @ \div 2 ^ bits,
                             !.available = @ - bits, !.consumed = @ + bits]]

SlowTake(r, stream, len, bits) == TakeFrom(SlowLoad(r, stream, len, bits), bits)
FastTake(r, stream, len, bits) == TakeFrom(FastLoad(r, stream, len, bits), bits)

\* Agreement of a reader with the buffer: every loaded bit is either consumed
\* or still in the reservoir, in stream order.
InSync(r, stream, len) ==
  /\ r.pos <= len
  /\ r.consumed + r.available = ByteBits * r.pos
  /\ r.reservoir = Slice(stream, r.consumed, r.available)
=============================================================================
