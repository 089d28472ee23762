------------------------ MODULE TableSampler_proofs ------------------------
(***************************************************************************)
(* Proofs about the table-driven samplers, for every set of tables, number *)
(* of lanes and sequence of calls: types, the samples stored whatever the  *)
(* callback does, and the counters that no call clears.                    *)
(***************************************************************************)
EXTENDS TableSampler, FiniteSetTheorems, TLAPS

(***************************************************************************)
(* The inductive invariant.                                                *)
(***************************************************************************)

\* What each place of a call knows: an open batch is never full at the
\* callback and exactly full at the stores, and until its last batch the
\* vector loop has stored full vectors only.
Control ==
  /\ pc = "check" => done = 0 /\ lane = <<>> /\ first = Len(log) /\ rc = 0
  /\ pc = "draw" => rc = 0 /\ (done < n => Len(lane) < Batch)
  /\ pc = "store" => rc = 0 /\ done < n /\ Len(lane) = Batch
  /\ pc = "done" /\ rc < -1 => done < n /\ Len(lane) < Batch
  /\ pc = "done" /\ rc = 0 => done = n
  /\ backend = "avx2" /\ done < n => done % Lanes = 0

\* Every accepted draw of this call is either a stored sample or a lane of the
\* open batch, each in its place.
Held ==
  /\ \A k \in first + 1 .. Len(log) : log[k].table = t
  /\ done + Len(lane) = Cardinality(Accepted)
  /\ \A i \in 1 .. done :
       \E k \in Accepted : Rank(k) = i /\ out[i] = Magnitude(t, log[k].x)
  /\ \A i \in 1 .. Len(lane) :
       \E k \in Accepted : Rank(k) = done + i /\ lane[i] = log[k].x
  /\ \A i \in done + 1 .. MaxN + 1 : out[i] = Poison

CallInv == TypeOK /\ Control /\ Held

(***************************************************************************)
(* Arithmetic and counting.                                                *)
(***************************************************************************)

\* A power of two counts the subsets of an interval, so it is positive.
LEMMA PowType ==
  ASSUME NEW k \in Nat
  PROVE  2 ^ k \in Nat \ {0}
<1>1. IsFiniteSet(1 .. k) /\ Cardinality(1 .. k) = k
  BY FS_Interval
<1>2. IsFiniteSet(SUBSET (1 .. k)) /\ Cardinality(SUBSET (1 .. k)) = 2 ^ k
  BY <1>1, FS_SUBSET
<1>3. SUBSET (1 .. k) # {}
  OBVIOUS
<1>4. Cardinality(SUBSET (1 .. k)) \in Nat /\ Cardinality(SUBSET (1 .. k)) # 0
  BY <1>2, <1>3, FS_CardinalityType, FS_EmptySet
<1> QED BY <1>2, <1>4

\* Division with remainder.
LEMMA DivMod ==
  ASSUME NEW a \in Nat, NEW b \in Nat \ {0}
  PROVE  /\ a \div b \in Nat /\ a % b \in 0 .. b - 1
         /\ a = b * (a \div b) + (a % b)
  BY SMT

\* The remainder of a multiple is zero.
LEMMA MultipleMod ==
  ASSUME NEW b \in Nat \ {0}, NEW k \in Nat
  PROVE  (b * k) % b = 0
<1> DEFINE a == b * k
           q == a \div b
           r == a % b
<1>1. a \in Nat
  OBVIOUS
<1>2. q \in Nat /\ r \in 0 .. b - 1 /\ a = b * q + r
  BY <1>1, DivMod
<1>3. b * k = b * q + r
  BY <1>2
<1> HIDE DEF a, q, r
<1>4. ~ (q > k)
  <2>1. q >= k + 1 => b * q >= b * (k + 1)
    BY <1>2
  <2>2. b * (k + 1) = b * k + b
    OBVIOUS
  <2> QED BY <1>2, <1>3, <2>1, <2>2
<1>5. ~ (q < k)
  <2>1. k >= q + 1 => b * k >= b * (q + 1)
    BY <1>2
  <2>2. b * (q + 1) = b * q + b
    BY <1>2
  <2> QED BY <1>2, <1>3, <2>1, <2>2
<1>6. q = k
  BY <1>2, <1>4, <1>5
<1>7. r = 0
  BY <1>2, <1>3, <1>6
<1> QED BY <1>7 DEF r, a

\* A whole number of vectors and one more.
LEMMA NextMultiple ==
  ASSUME NEW b \in Nat \ {0}, NEW d \in Nat, d % b = 0
  PROVE  (d + b) % b = 0
<1> DEFINE q == d \div b
<1>1. q \in Nat /\ d = b * q + (d % b)
  BY DivMod
<1> HIDE DEF q
<1>2. d + b = b * (q + 1) /\ q + 1 \in Nat
  BY <1>1
<1> QED BY <1>2, MultipleMod

\* A set of positions gains one element, or none.
LEMMA OneMore ==
  ASSUME NEW L \in Nat, NEW S, S \subseteq 1 .. L
  PROVE  /\ IsFiniteSet(S) /\ Cardinality(S) \in Nat
         /\ Cardinality(S \cup {L + 1}) = Cardinality(S) + 1
<1>1. IsFiniteSet(1 .. L)
  BY FS_Interval
<1>2. IsFiniteSet(S)
  BY <1>1, FS_Subset
<1>3. L + 1 \notin S
  OBVIOUS
<1> QED BY <1>2, <1>3, FS_CardinalityType, FS_AddElement

\* The sizes of disjoint sets add up.
LEMMA DisjointUnion ==
  ASSUME NEW S, NEW N, IsFiniteSet(S), IsFiniteSet(N), S \cap N = {}
  PROVE  /\ Cardinality(S) \in Nat /\ Cardinality(N) \in Nat
         /\ Cardinality(S \cup N) = Cardinality(S) + Cardinality(N)
<1>1. Cardinality(S \cup N) = Cardinality(S) + Cardinality(N) - Cardinality(S \cap N)
  BY FS_Union
<1>2. Cardinality(S \cap N) = 0
  BY FS_EmptySet
<1>3. Cardinality(S) \in Nat /\ Cardinality(N) \in Nat
  BY FS_CardinalityType
<1> QED BY <1>1, <1>2, <1>3

\* As many elements as the first L amounts of f have together.
SumSet(f, L) == UNION {{k} \X (1 .. f[k]) : k \in 1 .. L}

\* The sum of the first L amounts, as the size of a disjoint union, grows by
\* the next amount.
LEMMA SumGrows ==
  ASSUME NEW L \in Nat, NEW f, NEW g, NEW c \in Nat,
         \A k \in 1 .. L : f[k] \in Nat /\ g[k] = f[k],
         g[L + 1] = c
  PROVE  /\ Cardinality(SumSet(f, L)) \in Nat
         /\ Cardinality(SumSet(g, L + 1)) = Cardinality(SumSet(f, L)) + c
<1>0. SUFFICES ASSUME NEW S, S = UNION {{k} \X (1 .. f[k]) : k \in 1 .. L},
                      NEW T, T = UNION {{k} \X (1 .. g[k]) : k \in 1 .. L + 1}
               PROVE  Cardinality(S) \in Nat /\ Cardinality(T) = Cardinality(S) + c
  BY DEF SumSet
<1> DEFINE N == {L + 1} \X (1 .. c)
           P == {{k} \X (1 .. f[k]) : k \in 1 .. L}
<1>1. IsFiniteSet(S)
  <2>1. \A k \in 1 .. L : IsFiniteSet({k} \X (1 .. f[k]))
    <3> SUFFICES ASSUME NEW k \in 1 .. L PROVE IsFiniteSet({k} \X (1 .. f[k]))
      OBVIOUS
    <3>1. f[k] \in Int /\ 1 \in Int
      OBVIOUS
    <3>2. IsFiniteSet({k}) /\ IsFiniteSet(1 .. f[k])
      BY <3>1, FS_Singleton, FS_Interval
    <3> QED BY <3>2, FS_Product
  <2>2. \A Q \in P : IsFiniteSet(Q)
    BY <2>1
  <2>3. IsFiniteSet(P)
    <3> DEFINE h == [k \in 1 .. L |-> {k} \X (1 .. f[k])]
    <3>1. h \in [1 .. L -> P] /\ \A Q \in P : \E k \in 1 .. L : h[k] = Q
      OBVIOUS
    <3>2. h \in Surjection(1 .. L, P)
      BY <3>1 DEF Surjection
    <3>3. IsFiniteSet(1 .. L)
      BY FS_Interval
    <3> QED BY <3>2, <3>3, FS_Surjection
  <2> HIDE DEF P
  <2>4. IsFiniteSet(UNION P)
    BY <2>2, <2>3, FS_UNION
  <2> QED BY <1>0, <2>4 DEF P
<1>2. IsFiniteSet(N) /\ Cardinality(N) = c
  <2>1. IsFiniteSet({L + 1}) /\ Cardinality({L + 1}) = 1
    BY FS_Singleton
  <2>2. IsFiniteSet(1 .. c) /\ Cardinality(1 .. c) = c
    BY FS_Interval
  <2> DEFINE A == {L + 1}
             B == 1 .. c
  <2> HIDE DEF A, B
  <2>3. IsFiniteSet(A \X B) /\ Cardinality(A \X B) = Cardinality(A) * Cardinality(B)
    BY <2>1, <2>2, FS_Product DEF A, B
  <2>4. N = A \X B /\ Cardinality(A) = 1 /\ Cardinality(B) = c
    BY <2>1, <2>2 DEF A, B
  <2>5. Cardinality(A) * Cardinality(B) = c
    BY <2>4
  <2> HIDE DEF N
  <2> QED BY <2>3, <2>4, <2>5
<1>3. T = S \cup N
  <2>1. 1 .. L + 1 = (1 .. L) \cup {L + 1}
    OBVIOUS
  <2>2. \A k \in 1 .. L : {k} \X (1 .. g[k]) = {k} \X (1 .. f[k])
    OBVIOUS
  <2>3. {L + 1} \X (1 .. g[L + 1]) = N
    OBVIOUS
  <2> QED BY <1>0, <2>1, <2>2, <2>3
<1>4. S \cap N = {}
  BY <1>0
<1> HIDE DEF N
<1>5. Cardinality(S) \in Nat /\ Cardinality(S \cup N) = Cardinality(S) + Cardinality(N)
  BY <1>1, <1>2, <1>4, DisjointUnion
<1> QED BY ONLY <1>2, <1>3, <1>5

(***************************************************************************)
(* The operators of a call.                                                *)
(***************************************************************************)

\* The lookups count the entries a draw has passed.
LEMMA LookupIsMagnitude ==
  ASSUME NEW table \in Tables, NEW x \in Nat
  PROVE  Lookup(table, x) \in Nat /\ Lookup(table, x) = Magnitude(table, x)
<1> DEFINE th == table.thresholds
           L == Len(th)
           S == {i \in DOMAIN th : x < th[i]}
           T == {i \in DOMAIN th : x >= th[i]}
           reversed == table.kind = "original" /\ table.type = "u72"
<1>1. L \in Nat /\ DOMAIN th = 1 .. L /\ \A i \in 1 .. L : th[i] \in Nat
  BY TablesAssumption
<1>2. S = {i \in 1 .. L : x + 1 <= th[i]} /\ T = {i \in 1 .. L : th[i] <= x}
  BY <1>1
<1>3. Cardinality(S) \in Nat /\ Cardinality(T) \in Nat
  BY <1>1, OneMore
<1>4. Lookup(table, x) = IF reversed THEN Cardinality(S) ELSE Cardinality(T)
  BY DEF Lookup
<1>5. CASE reversed
  <2>1. Magnitude(table, x) = Cardinality({i \in 1 .. L : x + 1 <= th[i]})
    BY <1>5 DEF Magnitude
  <2> QED BY <1>2, <1>3, <1>4, <1>5, <2>1
<1>6. CASE ~ reversed
  <2>1. Magnitude(table, x) = Cardinality({i \in 1 .. L : th[i] <= x})
    BY <1>6 DEF Magnitude
  <2> QED BY <1>2, <1>3, <1>4, <1>6, <2>1
<1> QED BY <1>5, <1>6

\* A masked draw is a number.
LEMMA MaskedType ==
  ASSUME NEW table \in Tables, NEW raw \in Raws
  PROVE  Masked(table, raw) \in Nat
<1>1. raw \in Nat /\ table.bits \in Nat
  BY TablesAssumption
<1> DEFINE p == 2 ^ table.bits
<1>2. p \in Nat \ {0}
  BY <1>1, PowType
<1> HIDE DEF p
<1>3. raw % p \in Nat
  BY <1>1, <1>2, DivMod
<1> QED BY <1>1, <1>3 DEF Masked, p

LEMMA BytesType ==
  ASSUME NEW table \in Tables
  PROVE  table.bits \in Nat /\ Bytes(table.type) \in Nat
BY TablesAssumption DEF Bytes, Types

\* The numbers of a call and of its loops.
LEMMA Numbers ==
  ASSUME TypeOK
  PROVE  /\ MaxN \in Nat /\ n \in Nat /\ n <= MaxN /\ done \in Nat /\ done <= n
         /\ Len(lane) \in Nat /\ Lanes \in Nat \ {0} /\ Len(lane) <= Lanes
         /\ done + Len(lane) <= n
         /\ Batch \in Nat /\ Batch <= Lanes /\ (done < n => Batch > 0 /\ done + Batch <= n)
         /\ Len(log) \in Nat /\ first \in Nat /\ first <= Len(log)
         /\ DOMAIN log = 1 .. Len(log)
<1>1. NarrowLanes \in Nat \ {0} /\ WideLanes \in Nat \ {0} /\ MaxN \in Nat
  BY TablesAssumption
<1>2. n \in Nat /\ n <= MaxN /\ done \in Nat /\ done <= n
  BY <1>1 DEF TypeOK
<1>3. Len(lane) \in Nat /\ Lanes \in Nat \ {0} /\ Len(lane) <= Lanes /\ done + Len(lane) <= n
  BY <1>1 DEF TypeOK, Lanes
<1>4. Batch \in Nat /\ Batch <= Lanes /\ (done < n => Batch > 0 /\ done + Batch <= n)
  BY <1>2, <1>3 DEF Batch
<1>5. Len(log) \in Nat /\ first \in Nat /\ first <= Len(log) /\ DOMAIN log = 1 .. Len(log)
  BY DEF TypeOK
<1> QED BY <1>1, <1>2, <1>3, <1>4, <1>5

\* What does not change within a call leaves its operators alone.
LEMMA CallFrame ==
  ASSUME UNCHANGED call
  PROVE  Lanes' = Lanes /\ t' = t /\ backend' = backend /\ n' = n
         /\ wantStats' = wantStats /\ haveOut' = haveOut
BY DEF call, Lanes

(***************************************************************************)
(* Types.                                                                  *)
(***************************************************************************)

\* Types are inductive together with what each place of a call knows.
LEMMA InitShape == Init => TypeOK /\ Control
<1> SUFFICES ASSUME Init PROVE TypeOK /\ Control
  OBVIOUS
<1>1. /\ MaxN \in Nat /\ MaxDraws \in Nat /\ MaxCalls \in Nat \ {0} /\ Poison \in Nat
      /\ NarrowLanes \in Nat \ {0} /\ WideLanes \in Nat \ {0}
  BY TablesAssumption
<1>2. Lanes \in Nat \ {0}
  BY <1>1 DEF Lanes
<1>3. 0 % Lanes = 0
  <2>1. Lanes * 0 = 0
    BY <1>2
  <2> QED BY <1>2, <2>1, MultipleMod
<1>4. Control
  BY <1>2, <1>3 DEF Init, Control
<1>5. TypeOK
  BY <1>1, <1>2 DEF Init, TypeOK, Counters, VectorCounters
<1> QED BY <1>4, <1>5

LEMMA StutterShape == TypeOK /\ Control /\ UNCHANGED vars => TypeOK' /\ Control'
<1> SUFFICES ASSUME TypeOK, Control, UNCHANGED vars PROVE TypeOK' /\ Control'
  OBVIOUS
<1>1. /\ UNCHANGED <<wantStats, t, backend, haveOut, n, out, done, lane, st, avx, log>>
      /\ UNCHANGED <<first, vectored, calls, pc, rc>>
  BY DEF vars, call, history
<1>2. Lanes' = Lanes /\ Batch' = Batch
  BY <1>1 DEF Lanes, Batch
<1>3. TypeOK'
  BY <1>1, <1>2 DEF TypeOK
<1>4. Control'
  BY <1>1, <1>2 DEF Control
<1> QED BY <1>3, <1>4

\* The steps that only move through the call: the checks, a failing callback
\* and the return.
LEMMA MoveShape == TypeOK /\ Control /\ (Check \/ DrawFails \/ Return) => TypeOK' /\ Control'
<1> SUFFICES ASSUME TypeOK, Control, Check \/ DrawFails \/ Return PROVE TypeOK' /\ Control'
  OBVIOUS
<1>1. /\ UNCHANGED <<wantStats, t, backend, haveOut, n, out, done, lane, st, avx, log>>
      /\ UNCHANGED <<first, vectored, calls>>
  BY DEF Check, DrawFails, Return, call, history
<1>2. Lanes' = Lanes /\ Batch' = Batch
  BY <1>1 DEF Lanes, Batch
<1>3. pc' \in {"draw", "done"} /\ rc' \in {0, -1, -2, -3}
  BY DEF Check, DrawFails, Return, Stop, TypeOK
<1>4. TypeOK'
  BY <1>1, <1>2, <1>3 DEF TypeOK
<1>5. done \in Nat /\ n \in Nat /\ done <= n /\ (done < n => Batch > 0) /\ Batch \in Nat
  BY Numbers
<1>6. CASE Check
  <2>1. /\ done = 0 /\ lane = <<>> /\ rc = 0
        /\ \/ n = 0 /\ pc' = "done" /\ rc' = 0
           \/ n # 0 /\ pc' = "done" /\ rc' = -1
           \/ n # 0 /\ pc' = "draw" /\ rc' = 0
    BY <1>6 DEF Check, Stop, Control
  <2>2. Len(lane) = 0
    BY <2>1
  <2> QED BY <1>1, <1>2, <1>4, <1>5, <2>1, <2>2 DEF Control
<1>7. CASE DrawFails
  <2>1. done < n /\ pc = "draw" /\ pc' = "done" /\ rc' \in {-2, -3}
    BY <1>7 DEF DrawFails, Stop
  <2> QED BY <1>1, <1>2, <1>4, <1>5, <2>1 DEF Control
<1>8. CASE Return
  <2>1. done = n /\ pc = "draw" /\ pc' = "done" /\ rc' = 0
    BY <1>5, <1>8 DEF Return, Stop
  <2> QED BY <1>1, <1>2, <1>4, <1>5, <2>1 DEF Control
<1> QED BY <1>6, <1>7, <1>8

\* The fields of the counter records.
LEMMA FieldTypes ==
  ASSUME TypeOK
  PROVE  /\ st.attempts \in Nat /\ st.rejections \in Nat
         /\ st.random_bytes \in Nat /\ st.random_bits \in Nat
         /\ avx.batches \in Nat /\ avx.vectorized \in Nat /\ avx.tail \in Nat /\ avx.api \in Nat
         /\ avx.refill_rounds \in Nat /\ avx.rejected_lanes \in Nat
<1>1. st \in Counters /\ avx \in VectorCounters
  BY DEF TypeOK
<1> QED BY <1>1 DEF Counters, VectorCounters

\* What the two counter records become at a draw.
LEMMA DrawCounts ==
  ASSUME TypeOK, NEW rejected \in BOOLEAN, Attempt(rejected), Refill(rejected)
  PROVE  st' \in Counters /\ avx' \in VectorCounters
<1> DEFINE inc == IF rejected THEN 1 ELSE 0
<1>1. inc \in Nat /\ Bytes(t.type) \in Nat /\ t.bits \in Nat
  BY BytesType DEF TypeOK
<1> HIDE DEF inc
<1>2. st' = IF ~ wantStats THEN st
            ELSE [attempts     |-> st.attempts + 1,
                  rejections   |-> st.rejections + inc,
                  random_bytes |-> st.random_bytes + Bytes(t.type),
                  random_bits  |-> st.random_bits + t.bits]
  BY DEF Attempt, inc
<1>3. avx' = IF backend = "ref" \/ t.kind = "original" THEN avx
             ELSE [avx EXCEPT !.refill_rounds = @ + 1, !.rejected_lanes = @ + inc]
  BY DEF Refill, inc
<1>4. st' \in Counters
  <2>1. /\ st.attempts + 1 \in Nat /\ st.rejections + inc \in Nat
        /\ st.random_bytes + Bytes(t.type) \in Nat /\ st.random_bits + t.bits \in Nat
    BY <1>1, FieldTypes
  <2>2. st \in Counters
    BY DEF TypeOK
  <2> QED BY <1>2, <2>1, <2>2 DEF Counters
<1>5. avx' \in VectorCounters
  <2>1. avx.refill_rounds + 1 \in Nat /\ avx.rejected_lanes + inc \in Nat
    BY <1>1, FieldTypes
  <2>2. avx \in VectorCounters
    BY DEF TypeOK
  <2>3. [avx EXCEPT !.refill_rounds = @ + 1, !.rejected_lanes = @ + inc] \in VectorCounters
    BY <2>1, <2>2 DEF VectorCounters
  <2> QED BY <1>3, <2>2, <2>3
<1> QED BY <1>4, <1>5

\* What a draw does, whatever its value.
LEMMA DrawStep ==
  ASSUME TypeOK, Control, NEW raw \in Raws, Draw(raw), NEW x, x = Masked(t, raw)
  PROVE  /\ pc = "draw" /\ done < n /\ Len(log) < MaxDraws /\ Len(lane) < Batch /\ x \in Nat
         /\ UNCHANGED <<wantStats, t, backend, haveOut, n, out, done, first, vectored, calls, rc>>
         /\ lane' = IF Rejects(t, x) THEN lane ELSE Append(lane, x)
         /\ log' = Append(log, [table |-> t, backend |-> backend, x |-> x])
         /\ pc' = IF Len(lane') = Batch THEN "store" ELSE "draw"
         /\ Attempt(Rejects(t, x)) /\ Refill(Rejects(t, x)) /\ Rejects(t, x) \in BOOLEAN
<1>1. x \in Nat
  BY MaskedType DEF TypeOK
<1>2. Rejects(t, x) \in BOOLEAN
  BY DEF Rejects
<1>3. pc = "draw" /\ done < n /\ Len(log) < MaxDraws
  BY DEF Draw
<1>4. Len(lane) < Batch
  BY <1>3 DEF Control
<1> QED BY <1>1, <1>2, <1>3, <1>4 DEF Draw, call, history

LEMMA DrawShape ==
  ASSUME TypeOK, Control, NEW raw \in Raws, Draw(raw)
  PROVE  TypeOK' /\ Control'
<1> DEFINE x == Masked(t, raw)
           e == [table |-> t, backend |-> backend, x |-> x]
<1>1. /\ pc = "draw" /\ done < n /\ Len(log) < MaxDraws /\ Len(lane) < Batch /\ x \in Nat
      /\ UNCHANGED <<wantStats, t, backend, haveOut, n, out, done, first, vectored, calls, rc>>
      /\ lane' = IF Rejects(t, x) THEN lane ELSE Append(lane, x)
      /\ log' = Append(log, e)
      /\ pc' = IF Len(lane') = Batch THEN "store" ELSE "draw"
      /\ Attempt(Rejects(t, x)) /\ Refill(Rejects(t, x)) /\ Rejects(t, x) \in BOOLEAN
  BY DrawStep
<1> HIDE DEF x
<1>2. st' \in Counters /\ avx' \in VectorCounters
  BY <1>1, DrawCounts
<1>3. Lanes' = Lanes /\ Batch' = Batch
  BY <1>1 DEF Lanes, Batch
<1>4. lane' \in Seq(Nat) /\ Len(lane') \in {Len(lane), Len(lane) + 1}
  BY <1>1 DEF TypeOK
<1>5. Len(lane') <= Batch /\ Batch <= Lanes /\ done + Len(lane') <= n
  BY <1>1, <1>4, Numbers
<1>6. /\ e \in [table : Tables, backend : {"ref", "avx2"}, x : Nat]
      /\ log \in Seq([table : Tables, backend : {"ref", "avx2"}, x : Nat])
  BY <1>1 DEF TypeOK
<1>7. /\ log' \in Seq([table : Tables, backend : {"ref", "avx2"}, x : Nat])
      /\ Len(log') = Len(log) + 1
  BY <1>1, <1>6
<1>8. first' \in 0 .. Len(log') /\ Len(log') <= MaxDraws
  <2>1. MaxDraws \in Nat /\ Len(log) \in Nat /\ first \in Nat /\ first <= Len(log)
    BY Numbers, TablesAssumption
  <2>2. Len(log) + 1 <= MaxDraws
    BY <1>1, <2>1
  <2> QED BY <1>1, <1>7, <2>1, <2>2
<1>9. Len(lane') <= Lanes'
  BY <1>3, <1>5, <1>4, Numbers
<1>10. pc' \in {"store", "draw"}
  BY <1>1
<1>11. TypeOK'
  BY <1>1, <1>2, <1>4, <1>5, <1>7, <1>8, <1>9, <1>10 DEF TypeOK
<1>12. Len(lane') = Batch \/ Len(lane') < Batch
  BY <1>4, <1>5, Numbers
<1>13. Control'
  BY <1>1, <1>3, <1>12, <1>10 DEF Control
<1> QED BY <1>11, <1>13

\* What the AVX2 counters become at a store of m samples.
LEMMA StoredCounts ==
  ASSUME TypeOK, NEW m \in Nat
  PROVE  Stored(m) \in VectorCounters
<1>0. avx \in VectorCounters
  BY DEF TypeOK
<1>1. /\ avx.batches + 1 \in Nat /\ avx.vectorized + m \in Nat /\ avx.api + 1 \in Nat
      /\ avx.tail + m \in Nat /\ avx.api + m \in Nat
  BY FieldTypes
<1>2. [avx EXCEPT !.batches = @ + 1, !.vectorized = @ + m, !.api = @ + 1] \in VectorCounters
  BY <1>0, <1>1 DEF VectorCounters
<1>3. [avx EXCEPT !.tail = @ + m, !.api = @ + m] \in VectorCounters
  BY <1>0, <1>1 DEF VectorCounters
<1> QED BY <1>0, <1>2, <1>3 DEF Stored

\* What a store does.
LEMMA StoreStep ==
  ASSUME TypeOK, Control, Store
  PROVE  /\ pc = "store" /\ pc' = "draw" /\ done < n /\ rc' = 0
         /\ UNCHANGED <<wantStats, t, backend, haveOut, n, st, log, first, vectored, calls, rc>>
         /\ Len(lane) = Batch /\ lane' = <<>> /\ Len(lane') = 0
         /\ done' = done + Batch /\ done' \in Nat /\ done' <= n
         /\ avx' = Stored(Batch) /\ Lanes' = Lanes
         /\ \A i \in 1 .. Len(lane) : done + i \in 1 .. MaxN + 1 /\ lane[i] \in Nat
<1>1. /\ pc = "store" /\ done < n /\ rc = 0 /\ Len(lane) = Batch
      /\ pc' = "draw" /\ done' = done + Len(lane) /\ lane' = <<>> /\ avx' = Stored(Len(lane))
      /\ UNCHANGED <<wantStats, t, backend, haveOut, n, st, log, first, vectored, calls, rc>>
  BY DEF Store, Control, call, history
<1>2. Lanes' = Lanes
  BY <1>1 DEF Lanes
<1>3. done' \in Nat /\ done' <= n
  BY <1>1, Numbers
<1>4. \A i \in 1 .. Len(lane) : done + i \in 1 .. MaxN + 1 /\ lane[i] \in Nat
  <2>1. lane \in Seq(Nat)
    BY DEF TypeOK
  <2>2. \A i \in 1 .. Len(lane) : done + i \in 1 .. MaxN + 1
    BY Numbers
  <2> QED BY <2>1, <2>2
<1> QED BY <1>1, <1>2, <1>3, <1>4

LEMMA StoreShape ==
  ASSUME TypeOK, Control, Store
  PROVE  TypeOK' /\ Control'
<1>1. /\ pc = "store" /\ pc' = "draw" /\ done < n /\ rc' = 0
      /\ UNCHANGED <<wantStats, t, backend, haveOut, n, st, log, first, vectored, calls, rc>>
      /\ Len(lane) = Batch /\ lane' = <<>> /\ Len(lane') = 0
      /\ done' = done + Batch /\ done' \in Nat /\ done' <= n
      /\ avx' = Stored(Batch) /\ Lanes' = Lanes
  BY StoreStep
<1>2. avx' \in VectorCounters
  BY <1>1, Numbers, StoredCounts
<1>3. out' \in [1 .. MaxN + 1 -> Nat]
  <2> DEFINE v(i) == IF i \in done + 1 .. done + Len(lane)
                     THEN Lookup(t, lane[i - done]) ELSE out[i]
  <2>1. out' = [i \in DOMAIN out |-> v(i)] /\ DOMAIN out = 1 .. MaxN + 1
    BY DEF Store, TypeOK
  <2>2. ASSUME NEW i \in 1 .. MaxN + 1 PROVE v(i) \in Nat
    <3>1. CASE i \in done + 1 .. done + Len(lane)
      <4>1. i - done \in 1 .. Len(lane)
        BY <3>1, Numbers
      <4>2. lane[i - done] \in Nat /\ t \in Tables
        BY <4>1 DEF TypeOK
      <4> QED BY <3>1, <4>2, LookupIsMagnitude
    <3>2. CASE i \notin done + 1 .. done + Len(lane)
      BY <2>2, <3>2 DEF TypeOK
    <3> QED BY <3>1, <3>2
  <2> HIDE DEF v
  <2> QED BY <2>1, <2>2
<1>4. TypeOK'
  BY <1>1, <1>2, <1>3, Numbers DEF TypeOK
<1>5. done' < n => Batch' > 0
  BY <1>1, <1>4, Numbers DEF Batch
<1>6. backend = "avx2" /\ done' < n => done' % Lanes = 0
  <2> SUFFICES ASSUME backend = "avx2", done' < n PROVE done' % Lanes = 0
    OBVIOUS
  <2>1. done % Lanes = 0 /\ done \in Nat /\ n \in Nat /\ Lanes \in Nat \ {0}
    BY <1>1, Numbers DEF Control
  <2>2. Batch = Lanes
    BY <1>1, <2>1 DEF Batch
  <2>3. (done + Lanes) % Lanes = 0
    BY <2>1, NextMultiple
  <2> QED BY <1>1, <2>2, <2>3
<1>7. Control'
  BY <1>1, <1>5, <1>6 DEF Control
<1> QED BY <1>4, <1>7

LEMMA AgainShape ==
  ASSUME TypeOK, Control, Again
  PROVE  TypeOK' /\ Control'
<1>1. /\ t' \in Tables /\ backend' \in {"ref", "avx2"} /\ n' \in 0 .. MaxN /\ haveOut' \in BOOLEAN
      /\ out' = [i \in 1 .. MaxN + 1 |-> Poison] /\ done' = 0 /\ lane' = <<>>
      /\ pc' = "check" /\ rc' = 0 /\ calls < MaxCalls /\ calls' = calls + 1
      /\ first' = Len(log) /\ vectored' = vectored + (IF backend = "avx2" THEN done ELSE 0)
      /\ UNCHANGED <<wantStats, st, avx, log>>
  BY DEF Again, NewCall
<1>2. /\ MaxN \in Nat /\ MaxCalls \in Nat /\ Poison \in Nat
      /\ NarrowLanes \in Nat \ {0} /\ WideLanes \in Nat \ {0}
  BY TablesAssumption
<1>3. Lanes' \in Nat \ {0}
  BY <1>1, <1>2 DEF Lanes
<1>4. 0 % Lanes' = 0
  <2> DEFINE b == Lanes'
  <2> HIDE DEF b
  <2>1. b \in Nat \ {0}
    BY <1>3 DEF b
  <2>2. b * 0 = 0 /\ (b * 0) % b = 0
    BY <2>1, MultipleMod
  <2>3. 0 % b = 0
    BY <2>2
  <2> QED BY <2>3 DEF b
<1>5. vectored' \in Nat /\ calls' \in 1 .. MaxCalls /\ first' \in 0 .. Len(log')
  BY <1>1, <1>2, Numbers DEF TypeOK
<1>6. lane' \in Seq(Nat) /\ Len(lane') = 0
  BY <1>1
<1>7. TypeOK'
  BY <1>1, <1>2, <1>3, <1>5, <1>6 DEF TypeOK
<1>8. Control'
  BY <1>1, <1>4 DEF Control
<1> QED BY <1>7, <1>8

LEMMA StepShape == TypeOK /\ Control /\ [Next]_vars => TypeOK' /\ Control'
BY StutterShape, MoveShape, DrawShape, StoreShape, AgainShape DEF Next

\* The invariant of types and places.
LEMMA ShapeInvariant == Spec => [](TypeOK /\ Control)
BY InitShape, StepShape, PTL DEF Spec

\* Every variable keeps its type over any sequence of calls; in particular the
\* open batch never outgrows a vector nor the samples that are still wanted.
THEOREM TypeCorrect == Spec => []TypeOK
BY ShapeInvariant, PTL

(***************************************************************************)
(* The delivered draws.                                                    *)
(***************************************************************************)

\* One more draw: the earlier ones stay what and where they were, and it is
\* the last accepted one or none.
LEMMA LogGrows ==
  ASSUME TypeOK, first' = first,
         NEW e \in [table : Tables, backend : {"ref", "avx2"}, x : Nat], log' = Append(log, e),
         NEW new, new = Len(log) + 1
  PROVE  /\ Len(log') = new /\ log'[new] = e /\ new \in Nat
         /\ DOMAIN log = 1 .. Len(log) /\ DOMAIN log' = 1 .. new
         /\ \A k \in 1 .. Len(log) : log'[k] = log[k]
         /\ 1 .. new = (1 .. Len(log)) \cup {new} /\ new \notin 1 .. Len(log)
         /\ first + 1 .. new = (first + 1 .. Len(log)) \cup {new}
<1>1. log \in Seq([table : Tables, backend : {"ref", "avx2"}, x : Nat])
  BY DEF TypeOK
<1>2. /\ Len(log) \in Nat /\ first \in Nat /\ first <= Len(log) /\ DOMAIN log = 1 .. Len(log)
  BY Numbers
<1>3. /\ Len(log') = Len(log) + 1 /\ DOMAIN log' = 1 .. Len(log) + 1
      /\ log'[Len(log) + 1] = e /\ \A k \in 1 .. Len(log) : log'[k] = log[k]
  BY <1>1
<1>4. 1 .. new = (1 .. Len(log)) \cup {new} /\ new \notin 1 .. Len(log) /\ new \in Nat
  BY <1>2
<1>5. first + 1 .. new = (first + 1 .. Len(log)) \cup {new}
  BY <1>2
<1> QED BY <1>2, <1>3, <1>4, <1>5

LEMMA AcceptedType ==
  ASSUME TypeOK
  PROVE  /\ Accepted \subseteq 1 .. Len(log) /\ IsFiniteSet(Accepted)
         /\ Cardinality(Accepted) \in Nat
         /\ \A k \in Accepted : log[k].x \in Nat /\ log[k].table \in Tables
<1>1. Accepted \subseteq 1 .. Len(log) /\ Len(log) \in Nat
  BY Numbers DEF Accepted
<1>2. IsFiniteSet(Accepted) /\ Cardinality(Accepted) \in Nat
  BY <1>1, OneMore
<1>3. log \in Seq([table : Tables, backend : {"ref", "avx2"}, x : Nat])
  BY DEF TypeOK
<1>4. \A k \in 1 .. Len(log) : log[k].x \in Nat /\ log[k].table \in Tables
  <2> DEFINE R == [table : Tables, backend : {"ref", "avx2"}, x : Nat]
  <2>1. log \in Seq(R)
    BY <1>3
  <2>2. \A r \in R : r.x \in Nat /\ r.table \in Tables
    OBVIOUS
  <2> HIDE DEF R
  <2>3. \A k \in 1 .. Len(log) : log[k] \in R
    BY <2>1
  <2> QED BY <2>2, <2>3
<1> QED BY <1>1, <1>2, <1>4

\* A new draw changes no earlier rank and ranks last itself.
LEMMA AcceptedGrows ==
  ASSUME TypeOK, first' = first,
         NEW e \in [table : Tables, backend : {"ref", "avx2"}, x : Nat], log' = Append(log, e),
         NEW new, new = Len(log) + 1
  PROVE  /\ Accepted' = IF Rejects(e.table, e.x) THEN Accepted ELSE Accepted \cup {new}
         /\ \A k \in Accepted : k \in Accepted' /\ Rank(k)' = Rank(k) /\ log'[k] = log[k]
         /\ ~ Rejects(e.table, e.x) =>
              /\ new \in Accepted' /\ Rank(new)' = Cardinality(Accepted) + 1
              /\ Cardinality(Accepted') = Cardinality(Accepted) + 1
<1>1. /\ Len(log') = new /\ log'[new] = e /\ new \in Nat
      /\ \A k \in 1 .. Len(log) : log'[k] = log[k]
      /\ 1 .. new = (1 .. Len(log)) \cup {new} /\ new \notin 1 .. Len(log)
      /\ first + 1 .. new = (first + 1 .. Len(log)) \cup {new}
  BY LogGrows
<1>2. /\ Len(log) \in Nat /\ first \in Nat /\ first <= Len(log)
      /\ Accepted \subseteq 1 .. Len(log)
  BY Numbers, AcceptedType
<1>3. \A k \in first + 1 .. Len(log) : Rejected(k)' = Rejected(k)
  <2>1. \A k \in first + 1 .. Len(log) : k \in 1 .. Len(log)
    BY <1>2
  <2> QED BY <1>1, <2>1 DEF Rejected
<1>4. Rejected(new)' = Rejects(e.table, e.x)
  BY <1>1 DEF Rejected
<1>5. Accepted' = {k \in first + 1 .. new : ~ Rejected(k)'}
  BY <1>1 DEF Accepted
<1>6. Accepted' = IF Rejects(e.table, e.x) THEN Accepted ELSE Accepted \cup {new}
  BY <1>1, <1>3, <1>4, <1>5 DEF Accepted
<1>7. ASSUME NEW k \in Accepted
      PROVE  k \in Accepted' /\ Rank(k)' = Rank(k) /\ log'[k] = log[k]
  <2>1. k \in 1 .. Len(log) /\ k < new
    BY <1>2
  <2>2. {j \in Accepted' : j <= k} = {j \in Accepted : j <= k}
    BY <1>6, <2>1
  <2> QED BY <1>1, <1>6, <2>1, <2>2 DEF Rank
<1>8. ASSUME ~ Rejects(e.table, e.x)
      PROVE  /\ new \in Accepted' /\ Rank(new)' = Cardinality(Accepted) + 1
             /\ Cardinality(Accepted') = Cardinality(Accepted) + 1
  <2>1. Accepted' = Accepted \cup {new}
    BY <1>6, <1>8
  <2>2. \A j \in Accepted' : j <= new
    BY <1>2, <2>1
  <2>3. {j \in Accepted' : j <= new} = Accepted'
    BY <2>2
  <2>4. Cardinality(Accepted \cup {new}) = Cardinality(Accepted) + 1
    BY <1>2, OneMore
  <2> QED BY <2>1, <2>3, <2>4 DEF Rank
<1> QED BY <1>6, <1>7, <1>8

(***************************************************************************)
(* The samples.                                                            *)
(***************************************************************************)

\* A call that has drawn nothing holds nothing.
LEMMA NothingHeld ==
  ASSUME first = Len(log), done = 0, lane = <<>>, Len(log) \in Nat, MaxN \in Nat,
         out = [i \in 1 .. MaxN + 1 |-> Poison]
  PROVE  Held
<1>1. first + 1 .. Len(log) = {}
  OBVIOUS
<1>2. Accepted = {} /\ Cardinality(Accepted) = 0
  BY <1>1, FS_EmptySet DEF Accepted
<1>3. Len(lane) = 0 /\ 1 .. 0 = {}
  OBVIOUS
<1> QED BY <1>1, <1>2, <1>3 DEF Held

LEMMA InitHeld == Init => Held
<1> SUFFICES ASSUME Init PROVE Held
  OBVIOUS
<1>1. first = 0 /\ log = <<>> /\ done = 0 /\ lane = <<>> /\ out = [i \in 1 .. MaxN + 1 |-> Poison]
  BY DEF Init
<1>2. Len(log) = 0 /\ MaxN \in Nat
  BY <1>1, TablesAssumption
<1> QED BY <1>1, <1>2, NothingHeld

\* A step that neither draws nor stores.
LEMMA HeldFrame == Held /\ UNCHANGED <<t, out, done, lane, log, first>> => Held'
<1> SUFFICES ASSUME Held, UNCHANGED <<t, out, done, lane, log, first>> PROVE Held'
  OBVIOUS
<1>1. \A k : Rejected(k)' = Rejected(k)
  BY DEF Rejected
<1>2. Accepted' = Accepted
  BY <1>1 DEF Accepted
<1>3. \A k : Rank(k)' = Rank(k)
  BY <1>2 DEF Rank
<1> QED BY <1>2, <1>3 DEF Held

LEMMA DrawHeld ==
  ASSUME TypeOK, Control, Held, NEW raw \in Raws, Draw(raw)
  PROVE  Held'
<1> DEFINE x == Masked(t, raw)
           e == [table |-> t, backend |-> backend, x |-> x]
<1>0. SUFFICES ASSUME NEW new, new = Len(log) + 1 PROVE Held'
  OBVIOUS
<1>1. /\ UNCHANGED <<t, backend, out, done, first>>
      /\ lane' = IF Rejects(t, x) THEN lane ELSE Append(lane, x)
      /\ log' = Append(log, e) /\ x \in Nat
  BY DrawStep
<1> HIDE DEF x
<1>2. e \in [table : Tables, backend : {"ref", "avx2"}, x : Nat] /\ e.table = t /\ e.x = x
  BY <1>1 DEF TypeOK
<1> HIDE DEF e
<1>3. /\ Len(log') = new /\ log'[new] = e
      /\ \A k \in 1 .. Len(log) : log'[k] = log[k]
      /\ first + 1 .. new = (first + 1 .. Len(log)) \cup {new}
  BY <1>0, <1>1, <1>2, LogGrows
<1>4. /\ Accepted' = IF Rejects(t, x) THEN Accepted ELSE Accepted \cup {new}
      /\ \A k \in Accepted : k \in Accepted' /\ Rank(k)' = Rank(k) /\ log'[k] = log[k]
      /\ ~ Rejects(t, x) =>
           /\ new \in Accepted' /\ Rank(new)' = Cardinality(Accepted) + 1
           /\ Cardinality(Accepted') = Cardinality(Accepted) + 1
  <2>1. /\ Accepted' = IF Rejects(e.table, e.x) THEN Accepted ELSE Accepted \cup {new}
        /\ \A k \in Accepted : k \in Accepted' /\ Rank(k)' = Rank(k) /\ log'[k] = log[k]
        /\ ~ Rejects(e.table, e.x) =>
             /\ new \in Accepted' /\ Rank(new)' = Cardinality(Accepted) + 1
             /\ Cardinality(Accepted') = Cardinality(Accepted) + 1
    BY <1>0, <1>1, <1>2, AcceptedGrows
  <2> QED BY <1>2, <2>1
<1>5. /\ Len(log) \in Nat /\ first \in Nat /\ done \in Nat /\ Len(lane) \in Nat
      /\ lane \in Seq(Nat)
  BY Numbers DEF TypeOK
<1>6. \A k \in first' + 1 .. Len(log') : log'[k].table = t'
  <2>1. \A k \in first + 1 .. Len(log) : k \in 1 .. Len(log) /\ log[k].table = t
    BY <1>5 DEF Held
  <2> QED BY <1>1, <1>2, <1>3, <2>1
<1>7. \A i \in 1 .. done' :
        \E k \in Accepted' : Rank(k)' = i /\ out'[i] = Magnitude(t', log'[k].x)
  <2> SUFFICES ASSUME NEW i \in 1 .. done
               PROVE  \E k \in Accepted' : Rank(k)' = i /\ out[i] = Magnitude(t, log'[k].x)
    BY <1>1
  <2>1. PICK k \in Accepted : Rank(k) = i /\ out[i] = Magnitude(t, log[k].x)
    BY DEF Held
  <2> QED BY <1>4, <2>1
<1>8. ASSUME NEW i \in 1 .. Len(lane)
      PROVE  \E k \in Accepted' : Rank(k)' = done + i /\ lane[i] = log'[k].x
  <2>1. PICK k \in Accepted : Rank(k) = done + i /\ lane[i] = log[k].x
    BY DEF Held
  <2> QED BY <1>4, <2>1
<1>9. \A i \in 1 .. Len(lane') :
        \E k \in Accepted' : Rank(k)' = done' + i /\ lane'[i] = log'[k].x
  <2>1. CASE Rejects(t, x)
    BY <1>1, <1>8, <2>1
  <2>2. CASE ~ Rejects(t, x)
    <3> SUFFICES ASSUME NEW i \in 1 .. Len(lane')
                 PROVE  \E k \in Accepted' : Rank(k)' = done + i /\ lane'[i] = log'[k].x
      BY <1>1
    <3>1. Len(lane') = Len(lane) + 1 /\ lane' = Append(lane, x)
      BY <1>1, <1>5, <2>2
    <3>2. CASE i \in 1 .. Len(lane)
      <4>1. lane'[i] = lane[i]
        BY <1>5, <3>1, <3>2
      <4> QED BY <1>8, <3>2, <4>1
    <3>3. CASE i = Len(lane) + 1
      <4>1. lane'[i] = x
        BY <1>5, <3>1, <3>3
      <4>2. Cardinality(Accepted) = done + Len(lane)
        BY DEF Held
      <4>3. Rank(new)' = done + i
        BY <1>4, <1>5, <2>2, <3>3, <4>2
      <4> QED BY <1>2, <1>3, <1>4, <2>2, <4>1, <4>3
    <3> QED BY <1>5, <3>1, <3>2, <3>3
  <2> QED BY <2>1, <2>2
<1>10. done' + Len(lane') = Cardinality(Accepted')
  <2>1. done + Len(lane) = Cardinality(Accepted)
    BY DEF Held
  <2>2. CASE Rejects(t, x)
    BY <1>1, <1>4, <2>1, <2>2
  <2>3. CASE ~ Rejects(t, x)
    <3>1. Len(lane') = Len(lane) + 1
      BY <1>1, <1>5, <2>3
    <3> QED BY <1>1, <1>4, <1>5, <2>1, <2>3, <3>1
  <2> QED BY <2>2, <2>3
<1>11. \A i \in done' + 1 .. MaxN + 1 : out'[i] = Poison
  BY <1>1 DEF Held
<1> QED BY <1>6, <1>7, <1>9, <1>10, <1>11 DEF Held

LEMMA StoreHeld ==
  ASSUME TypeOK, Control, Held, Store
  PROVE  Held'
<1>1. /\ UNCHANGED <<t, log, first>> /\ lane' = <<>> /\ Len(lane') = 0
      /\ done' = done + Len(lane)
      /\ \A i \in 1 .. Len(lane) : done + i \in 1 .. MaxN + 1 /\ lane[i] \in Nat
  BY StoreStep
<1>2. /\ done \in Nat /\ Len(lane) \in Nat /\ MaxN \in Nat /\ done + Len(lane) <= MaxN
      /\ t \in Tables
  BY Numbers DEF TypeOK
<1>3. \A i \in 1 .. MaxN + 1 :
        out'[i] = IF i \in done + 1 .. done + Len(lane) THEN Lookup(t, lane[i - done]) ELSE out[i]
  BY DEF Store, TypeOK
<1>4. Accepted' = Accepted /\ \A k \in Accepted : Rank(k)' = Rank(k)
  BY <1>1 DEF Accepted, Rank, Rejected
<1>5. ASSUME NEW i \in 1 .. done + Len(lane)
      PROVE  \E k \in Accepted : Rank(k) = i /\ out'[i] = Magnitude(t, log[k].x)
  <2>1. CASE i <= done
    <3>1. i \in 1 .. done /\ i \in 1 .. MaxN + 1 /\ i \notin done + 1 .. done + Len(lane)
      BY <1>2, <2>1
    <3>2. out'[i] = out[i]
      BY <1>3, <3>1
    <3> QED BY <3>1, <3>2 DEF Held
  <2>2. CASE i > done
    <3>1. /\ i - done \in 1 .. Len(lane) /\ done + (i - done) = i
          /\ i \in 1 .. MaxN + 1 /\ i \in done + 1 .. done + Len(lane)
      BY <1>2, <2>2
    <3>2. PICK k \in Accepted : Rank(k) = done + (i - done) /\ lane[i - done] = log[k].x
      BY <3>1 DEF Held
    <3>3. out'[i] = Lookup(t, log[k].x)
      BY <1>3, <3>1, <3>2
    <3>4. Lookup(t, log[k].x) = Magnitude(t, log[k].x)
      BY <1>2, AcceptedType, LookupIsMagnitude
    <3> QED BY <3>1, <3>2, <3>3, <3>4
  <2> QED BY <1>2, <2>1, <2>2
<1>6. \A i \in done + Len(lane) + 1 .. MaxN + 1 : out'[i] = Poison
  <2> SUFFICES ASSUME NEW i \in done + Len(lane) + 1 .. MaxN + 1 PROVE out'[i] = Poison
    OBVIOUS
  <2>1. i \in 1 .. MaxN + 1 /\ i \notin done + 1 .. done + Len(lane) /\ i \in done + 1 .. MaxN + 1
    BY <1>2
  <2> QED BY <1>3, <2>1 DEF Held
<1>7. done' + Len(lane') = Cardinality(Accepted')
  BY <1>1, <1>2, <1>4 DEF Held
<1>8. \A k \in first' + 1 .. Len(log') : log'[k].table = t'
  BY <1>1 DEF Held
<1>9. \A i \in 1 .. done' :
        \E k \in Accepted' : Rank(k)' = i /\ out'[i] = Magnitude(t', log'[k].x)
  BY <1>1, <1>4, <1>5
<1>10. 1 .. Len(lane') = {}
  BY <1>1
<1> QED BY <1>1, <1>6, <1>7, <1>8, <1>9, <1>10 DEF Held

LEMMA AgainHeld == TypeOK /\ Again => Held'
<1> SUFFICES ASSUME TypeOK, Again PROVE Held'
  OBVIOUS
<1>1. /\ first' = Len(log') /\ done' = 0 /\ lane' = <<>> /\ Len(log') \in Nat /\ MaxN \in Nat
      /\ out' = [i \in 1 .. MaxN + 1 |-> Poison]
  BY Numbers DEF Again, NewCall
<1>2. first' + 1 .. Len(log') = {}
  BY <1>1
<1>3. Accepted' = {} /\ Cardinality(Accepted') = 0
  BY <1>2, FS_EmptySet DEF Accepted
<1>4. Len(lane') = 0 /\ 1 .. 0 = {}
  BY <1>1
<1> QED BY <1>1, <1>2, <1>3, <1>4 DEF Held

LEMMA StepHeld == TypeOK /\ Control /\ Held /\ [Next]_vars => Held'
<1> SUFFICES ASSUME TypeOK, Control, Held, [Next]_vars PROVE Held'
  OBVIOUS
<1>1. CASE Check \/ DrawFails \/ Return \/ UNCHANGED vars
  <2>1. UNCHANGED <<t, out, done, lane, log, first>>
    BY <1>1 DEF Check, DrawFails, Return, vars, call, history
  <2> QED BY <2>1, HeldFrame
<1>2. CASE \E raw \in Raws : Draw(raw)
  BY <1>2, DrawHeld
<1>3. CASE Store
  BY <1>3, StoreHeld
<1>4. CASE Again
  BY <1>4, AgainHeld
<1> QED BY <1>1, <1>2, <1>3, <1>4 DEF Next

\* The inductive invariant of a call.
LEMMA CallInvariant == Spec => []CallInv
<1>1. Init => CallInv
  BY InitShape, InitHeld DEF CallInv
<1>2. CallInv /\ [Next]_vars => CallInv'
  BY StepShape, StepHeld DEF CallInv
<1> QED BY <1>1, <1>2, PTL DEF Spec

\* The samples stored are the magnitudes of the first accepted draws, in
\* stream order; ref loses no accepted draw when the callback fails, avx2 the
\* lanes of its open batch and no more.
THEOREM StoredInOrder == Spec => []StoredPrefix
<1>1. CallInv => StoredPrefix
  <2> SUFFICES ASSUME CallInv PROVE StoredPrefix
    OBVIOUS
  <2>0. TypeOK /\ Control /\ Held
    BY DEF CallInv
  <2>1. /\ done + Len(lane) = Cardinality(Accepted)
        /\ \A i \in 1 .. done :
             \E k \in Accepted : Rank(k) = i /\ out[i] = Magnitude(t, log[k].x)
        /\ \A i \in done + 1 .. MaxN + 1 : out[i] = Poison
    BY <2>0 DEF Held
  <2>2. ASSUME pc = "done", rc < -1
        PROVE  IF backend = "ref" THEN done = Cardinality(Accepted)
               ELSE done % Lanes = 0 /\ Cardinality(Accepted) - done < Lanes
    <3>1. done < n /\ Len(lane) < Batch /\ (backend = "avx2" => done % Lanes = 0)
      BY <2>0, <2>2 DEF Control
    <3>2. backend \in {"ref", "avx2"}
      BY <2>0 DEF TypeOK
    <3>3. /\ done \in Nat /\ Len(lane) \in Nat /\ Batch \in Nat /\ Batch <= Lanes
          /\ Lanes \in Nat
      BY <2>0, Numbers
    <3>4. backend = "ref" => Batch = 1
      BY DEF Batch
    <3> QED BY <2>1, <3>1, <3>2, <3>3, <3>4
  <2>3. pc = "done" /\ rc = 0 => done = n
    BY <2>0 DEF Control
  <2> QED BY <2>1, <2>2, <2>3 DEF StoredPrefix
<1> QED BY <1>1, CallInvariant, PTL

(***************************************************************************)
(* The counters.                                                           *)
(***************************************************************************)

\* The counted sets at one more draw.
LEMMA CountsGrow ==
  ASSUME TypeOK, first' = first,
         NEW e \in [table : Tables, backend : {"ref", "avx2"}, x : Nat], log' = Append(log, e),
         NEW vector, vector = (e.backend = "avx2" /\ e.table.kind = "sda")
  PROVE  /\ Cardinality(Rejections) \in Nat /\ Cardinality(Rounds) \in Nat
         /\ Cardinality(Rounds \cap Rejections) \in Nat
         /\ Cardinality(Rejections')
              = Cardinality(Rejections) + (IF Rejects(e.table, e.x) THEN 1 ELSE 0)
         /\ Cardinality(Rounds') = Cardinality(Rounds) + (IF vector THEN 1 ELSE 0)
         /\ Cardinality(Rounds' \cap Rejections')
              = Cardinality(Rounds \cap Rejections)
                  + (IF vector /\ Rejects(e.table, e.x) THEN 1 ELSE 0)
<1>0. SUFFICES ASSUME NEW new, new = Len(log) + 1
               PROVE  /\ Cardinality(Rejections) \in Nat /\ Cardinality(Rounds) \in Nat
                      /\ Cardinality(Rounds \cap Rejections) \in Nat
                      /\ Cardinality(Rejections')
                           = Cardinality(Rejections) + (IF Rejects(e.table, e.x) THEN 1 ELSE 0)
                      /\ Cardinality(Rounds') = Cardinality(Rounds) + (IF vector THEN 1 ELSE 0)
                      /\ Cardinality(Rounds' \cap Rejections')
                           = Cardinality(Rounds \cap Rejections)
                               + (IF vector /\ Rejects(e.table, e.x) THEN 1 ELSE 0)
  OBVIOUS
<1>1. /\ Len(log') = new /\ log'[new] = e /\ new \in Nat
      /\ DOMAIN log = 1 .. Len(log) /\ DOMAIN log' = 1 .. new
      /\ \A k \in 1 .. Len(log) : log'[k] = log[k]
      /\ 1 .. new = (1 .. Len(log)) \cup {new} /\ new \notin 1 .. Len(log)
  BY <1>0, LogGrows
<1>2. /\ Rejections \subseteq 1 .. Len(log) /\ Rounds \subseteq 1 .. Len(log)
      /\ Rounds \cap Rejections \subseteq 1 .. Len(log) /\ Len(log) \in Nat
  BY <1>1, Numbers DEF Rejections, Rounds
<1>3. Rejections' = IF Rejects(e.table, e.x) THEN Rejections \cup {new} ELSE Rejections
  <2>1. \A k \in 1 .. Len(log) : Rejected(k)' = Rejected(k)
    BY <1>1 DEF Rejected
  <2>2. Rejected(new)' = Rejects(e.table, e.x)
    BY <1>1 DEF Rejected
  <2>3. Rejections' = {k \in 1 .. new : Rejected(k)'}
    BY <1>1 DEF Rejections
  <2> QED BY <1>1, <2>1, <2>2, <2>3 DEF Rejections
<1>4. Rounds' = IF vector THEN Rounds \cup {new} ELSE Rounds
  <2>1. Rounds' = {k \in 1 .. new : log'[k].backend = "avx2" /\ log'[k].table.kind = "sda"}
    BY <1>1 DEF Rounds
  <2>2. Rounds = {k \in 1 .. Len(log) : log'[k].backend = "avx2" /\ log'[k].table.kind = "sda"}
    BY <1>1 DEF Rounds
  <2>3. (log'[new].backend = "avx2" /\ log'[new].table.kind = "sda") = vector
    BY <1>1
  <2> QED BY <1>1, <2>1, <2>2, <2>3
<1>5. Rounds' \cap Rejections'
        = IF vector /\ Rejects(e.table, e.x) THEN (Rounds \cap Rejections) \cup {new}
          ELSE Rounds \cap Rejections
  BY <1>1, <1>2, <1>3, <1>4
<1>6. /\ Cardinality(Rejections) \in Nat
      /\ Cardinality(Rejections \cup {new}) = Cardinality(Rejections) + 1
  BY <1>0, <1>2, OneMore
<1>7. /\ Cardinality(Rounds) \in Nat
      /\ Cardinality(Rounds \cup {new}) = Cardinality(Rounds) + 1
  BY <1>0, <1>2, OneMore
<1>8. /\ Cardinality(Rounds \cap Rejections) \in Nat
      /\ Cardinality((Rounds \cap Rejections) \cup {new}) = Cardinality(Rounds \cap Rejections) + 1
  BY <1>0, <1>2, OneMore
<1>9. Cardinality(Rejections')
        = Cardinality(Rejections) + (IF Rejects(e.table, e.x) THEN 1 ELSE 0)
  BY <1>3, <1>6
<1>10. Cardinality(Rounds') = Cardinality(Rounds) + (IF vector THEN 1 ELSE 0)
  BY <1>4, <1>7
<1>11. Cardinality(Rounds' \cap Rejections')
         = Cardinality(Rounds \cap Rejections)
             + (IF vector /\ Rejects(e.table, e.x) THEN 1 ELSE 0)
  <2>1. CASE vector /\ Rejects(e.table, e.x)
    BY <1>5, <1>8, <2>1
  <2>2. CASE ~ (vector /\ Rejects(e.table, e.x))
    <3>1. Rounds' \cap Rejections' = Rounds \cap Rejections
      BY <1>5, <2>2
    <3>2. (IF vector /\ Rejects(e.table, e.x) THEN 1 ELSE 0) = 0
      BY <2>2, Zenon
    <3> DEFINE w == IF vector /\ Rejects(e.table, e.x) THEN 1 ELSE 0
               c == Cardinality(Rounds \cap Rejections)
               d == Cardinality(Rounds' \cap Rejections')
    <3>3. c \in Nat /\ d = c /\ w = 0
      BY <1>8, <3>1, <3>2
    <3> HIDE DEF w, c, d
    <3>4. d = c + w
      BY <3>3
    <3> QED BY <3>4 DEF w, c, d
  <2> QED BY <2>1, <2>2
<1> QED BY <1>6, <1>7, <1>8, <1>9, <1>10, <1>11

\* The sums at one more draw.
LEMMA SumsGrow ==
  ASSUME TypeOK, first' = first,
         NEW e \in [table : Tables, backend : {"ref", "avx2"}, x : Nat], log' = Append(log, e)
  PROVE  /\ Cardinality(BitsDrawn) \in Nat /\ Cardinality(BytesDrawn) \in Nat
         /\ Cardinality(BitsDrawn') = Cardinality(BitsDrawn) + e.table.bits
         /\ Cardinality(BytesDrawn') = Cardinality(BytesDrawn) + Bytes(e.table.type)
<1>0. SUFFICES ASSUME NEW L, L = Len(log)
               PROVE  /\ Cardinality(BitsDrawn) \in Nat /\ Cardinality(BytesDrawn) \in Nat
                      /\ Cardinality(BitsDrawn') = Cardinality(BitsDrawn) + e.table.bits
                      /\ Cardinality(BytesDrawn')
                           = Cardinality(BytesDrawn) + Bytes(e.table.type)
  OBVIOUS
<1>1. /\ log'[L + 1] = e /\ L \in Nat
      /\ DOMAIN log = 1 .. L /\ DOMAIN log' = 1 .. L + 1
      /\ \A k \in 1 .. L : log'[k] = log[k]
  BY <1>0, LogGrows, Numbers
<1>2. \A k \in 1 .. L : log[k].table \in Tables
  <2> DEFINE R == [table : Tables, backend : {"ref", "avx2"}, x : Nat]
  <2>1. log \in Seq(R)
    BY DEF TypeOK
  <2>2. \A r \in R : r.table \in Tables
    OBVIOUS
  <2> HIDE DEF R
  <2>3. \A k \in 1 .. L : log[k] \in R
    BY <1>0, <2>1
  <2> QED BY <2>2, <2>3
<1>3. e.table \in Tables
  OBVIOUS
<1>4. /\ Cardinality(BitsDrawn) \in Nat
      /\ Cardinality(BitsDrawn') = Cardinality(BitsDrawn) + e.table.bits
  <2> DEFINE f == [k \in 1 .. L |-> log[k].table.bits]
             g == [k \in 1 .. L + 1 |-> log'[k].table.bits]
             c == e.table.bits
  <2>1. c \in Nat /\ \A k \in 1 .. L : f[k] \in Nat /\ g[k] = f[k]
    BY <1>1, <1>2, <1>3, BytesType
  <2>2. g[L + 1] = c
    BY <1>1
  <2>3. BitsDrawn = SumSet(f, L)
    <3>1. \A k \in 1 .. L : f[k] = log[k].table.bits
      OBVIOUS
    <3> HIDE DEF f
    <3> QED BY <1>1, <3>1 DEF BitsDrawn, SumSet
  <2>4. BitsDrawn' = SumSet(g, L + 1)
    <3>1. \A k \in 1 .. L + 1 : g[k] = log'[k].table.bits
      OBVIOUS
    <3> HIDE DEF g
    <3> QED BY <1>1, <3>1 DEF BitsDrawn, SumSet
  <2> HIDE DEF f, g, c
  <2>5. /\ Cardinality(SumSet(f, L)) \in Nat
        /\ Cardinality(SumSet(g, L + 1)) = Cardinality(SumSet(f, L)) + c
    BY <1>1, <2>1, <2>2, SumGrows
  <2> QED BY <2>3, <2>4, <2>5 DEF c
<1>5. /\ Cardinality(BytesDrawn) \in Nat
      /\ Cardinality(BytesDrawn') = Cardinality(BytesDrawn) + Bytes(e.table.type)
  <2> DEFINE f == [k \in 1 .. L |-> Bytes(log[k].table.type)]
             g == [k \in 1 .. L + 1 |-> Bytes(log'[k].table.type)]
             c == Bytes(e.table.type)
  <2>1. c \in Nat /\ \A k \in 1 .. L : f[k] \in Nat /\ g[k] = f[k]
    BY <1>1, <1>2, <1>3, BytesType
  <2>2. g[L + 1] = c
    BY <1>1
  <2>3. BytesDrawn = SumSet(f, L)
    <3>1. \A k \in 1 .. L : f[k] = Bytes(log[k].table.type)
      OBVIOUS
    <3> HIDE DEF f
    <3> QED BY <1>1, <3>1 DEF BytesDrawn, SumSet
  <2>4. BytesDrawn' = SumSet(g, L + 1)
    <3>1. \A k \in 1 .. L + 1 : g[k] = Bytes(log'[k].table.type)
      OBVIOUS
    <3> HIDE DEF g
    <3> QED BY <1>1, <3>1 DEF BytesDrawn, SumSet
  <2> HIDE DEF f, g, c
  <2>5. /\ Cardinality(SumSet(f, L)) \in Nat
        /\ Cardinality(SumSet(g, L + 1)) = Cardinality(SumSet(f, L)) + c
    BY <1>1, <2>1, <2>2, SumGrows
  <2> QED BY <2>3, <2>4, <2>5 DEF c
<1> QED BY <1>4, <1>5

LEMMA InitCounters == Init => CountersAccumulate
<1> SUFFICES ASSUME Init PROVE CountersAccumulate
  OBVIOUS
<1>1. log = <<>> /\ Len(log) = 0 /\ DOMAIN log = {}
  BY DEF Init
<1>2. /\ Rejections = {} /\ Rounds = {} /\ Rounds \cap Rejections = {}
      /\ BitsDrawn = {} /\ BytesDrawn = {}
  BY <1>1 DEF Rejections, Rounds, BitsDrawn, BytesDrawn
<1>3. Cardinality({}) = 0
  BY FS_EmptySet
<1>4. /\ st = [attempts |-> 0, rejections |-> 0, random_bytes |-> 0, random_bits |-> 0]
      /\ avx = [batches |-> 0, vectorized |-> 0, tail |-> 0, api |-> 0,
                refill_rounds |-> 0, rejected_lanes |-> 0]
      /\ done = 0 /\ vectored = 0
  BY DEF Init
<1> QED BY <1>1, <1>2, <1>3, <1>4 DEF CountersAccumulate

\* The sets counted depend on the log alone.
LEMMA CountsFrame ==
  ASSUME UNCHANGED log
  PROVE  /\ Rejections' = Rejections /\ Rounds' = Rounds
         /\ BitsDrawn' = BitsDrawn /\ BytesDrawn' = BytesDrawn
<1>1. \A k : Rejected(k)' = Rejected(k)
  BY DEF Rejected
<1> QED BY <1>1 DEF Rejections, Rounds, BitsDrawn, BytesDrawn

LEMMA MoveCounters ==
  ASSUME CountersAccumulate, UNCHANGED <<wantStats, backend, done, st, avx, log, vectored>>
  PROVE  CountersAccumulate'
BY CountsFrame DEF CountersAccumulate

\* One draw is charged once: to the caller's counters if there are any, and to
\* the rounds of the vector loop if it is one.
LEMMA DrawCounters ==
  ASSUME TypeOK, Control, CountersAccumulate, NEW raw \in Raws, Draw(raw)
  PROVE  CountersAccumulate'
<1> DEFINE x == Masked(t, raw)
           e == [table |-> t, backend |-> backend, x |-> x]
           rejected == Rejects(t, x)
           vector == backend = "avx2" /\ t.kind = "sda"
           one == IF rejected THEN 1 ELSE 0
           round == IF vector THEN 1 ELSE 0
           lost == IF vector /\ rejected THEN 1 ELSE 0
<1>1. /\ UNCHANGED <<wantStats, backend, done, first, vectored>>
      /\ log' = Append(log, e) /\ x \in Nat
      /\ Attempt(rejected) /\ Refill(rejected)
  BY DrawStep
<1> HIDE DEF x
<1>2. /\ e \in [table : Tables, backend : {"ref", "avx2"}, x : Nat]
      /\ e.table = t /\ e.x = x /\ e.backend = backend
      /\ t.kind \in {"original", "sda"} /\ backend \in {"ref", "avx2"}
  BY <1>1, TablesAssumption DEF TypeOK
<1> HIDE DEF e
<1>3. Len(log') = Len(log) + 1 /\ Len(log) \in Nat
  BY <1>1, Numbers DEF TypeOK
<1>4. /\ Cardinality(Rejections) \in Nat /\ Cardinality(Rounds) \in Nat
      /\ Cardinality(Rounds \cap Rejections) \in Nat
      /\ Cardinality(Rejections') = Cardinality(Rejections) + one
      /\ Cardinality(Rounds') = Cardinality(Rounds) + round
      /\ Cardinality(Rounds' \cap Rejections') = Cardinality(Rounds \cap Rejections) + lost
  <2>1. vector = (e.backend = "avx2" /\ e.table.kind = "sda")
    BY <1>2
  <2>2. /\ Cardinality(Rejections) \in Nat /\ Cardinality(Rounds) \in Nat
        /\ Cardinality(Rounds \cap Rejections) \in Nat
        /\ Cardinality(Rejections')
             = Cardinality(Rejections) + (IF Rejects(e.table, e.x) THEN 1 ELSE 0)
        /\ Cardinality(Rounds') = Cardinality(Rounds) + (IF vector THEN 1 ELSE 0)
        /\ Cardinality(Rounds' \cap Rejections')
             = Cardinality(Rounds \cap Rejections)
                 + (IF vector /\ Rejects(e.table, e.x) THEN 1 ELSE 0)
    BY <1>1, <1>2, <2>1, CountsGrow
  <2> QED BY <1>2, <2>2
<1>5. /\ Cardinality(BitsDrawn) \in Nat /\ Cardinality(BytesDrawn) \in Nat
      /\ Cardinality(BitsDrawn') = Cardinality(BitsDrawn) + t.bits
      /\ Cardinality(BytesDrawn') = Cardinality(BytesDrawn) + Bytes(t.type)
  BY <1>1, <1>2, SumsGrow
<1>6. st' = IF ~ wantStats THEN st
            ELSE [attempts     |-> st.attempts + 1,
                  rejections   |-> st.rejections + one,
                  random_bytes |-> st.random_bytes + Bytes(t.type),
                  random_bits  |-> st.random_bits + t.bits]
  BY <1>1 DEF Attempt
<1>7. /\ avx'.refill_rounds = avx.refill_rounds + round
      /\ avx'.rejected_lanes = avx.rejected_lanes + lost
      /\ avx'.vectorized = avx.vectorized /\ avx'.tail = avx.tail
      /\ avx'.api = avx.api /\ avx'.batches = avx.batches
  <2>1. avx' = IF ~ vector THEN avx
               ELSE [avx EXCEPT !.refill_rounds = @ + 1, !.rejected_lanes = @ + one]
    BY <1>1, <1>2 DEF Refill
  <2>2. avx \in VectorCounters /\ avx.refill_rounds \in Nat /\ avx.rejected_lanes \in Nat
    BY FieldTypes DEF TypeOK
  <2>3. CASE vector
    <3>1. avx' = [avx EXCEPT !.refill_rounds = @ + 1, !.rejected_lanes = @ + one]
          /\ round = 1 /\ lost = one
      BY <2>1, <2>3
    <3> HIDE DEF one, round, lost
    <3> QED BY <2>2, <3>1 DEF VectorCounters
  <2>4. CASE ~ vector
    <3>1. avx' = avx /\ round = 0 /\ lost = 0
      BY <2>1, <2>4
    <3> HIDE DEF one, round, lost
    <3> QED BY <2>2, <3>1
  <2> QED BY <2>3, <2>4
<1>8. one \in Nat /\ round \in Nat /\ lost \in Nat
  OBVIOUS
<1> HIDE DEF one, round, lost, rejected, vector
<1>9. IF wantStats
      THEN /\ st'.attempts = Len(log')
           /\ st'.rejections = Cardinality(Rejections')
           /\ st'.random_bits = Cardinality(BitsDrawn')
           /\ st'.random_bytes = Cardinality(BytesDrawn')
      ELSE st' = st
  BY <1>3, <1>4, <1>5, <1>6 DEF CountersAccumulate
<1>10. /\ avx'.refill_rounds = Cardinality(Rounds')
       /\ avx'.rejected_lanes = Cardinality(Rounds' \cap Rejections')
  BY <1>4, <1>7 DEF CountersAccumulate
<1>11. /\ avx'.vectorized + avx'.tail = vectored' + (IF backend' = "avx2" THEN done' ELSE 0)
       /\ avx'.api = avx'.batches + avx'.tail
  BY <1>1, <1>7 DEF CountersAccumulate
<1>12. ~ wantStats => \A f \in DOMAIN st' : st'[f] = 0
  BY <1>9 DEF CountersAccumulate
<1> QED BY <1>1, <1>9, <1>10, <1>11, <1>12 DEF CountersAccumulate

\* A stored sample is counted once, as one of a vector or of a tail.
LEMMA StoreCounters ==
  ASSUME TypeOK, Control, CountersAccumulate, Store
  PROVE  CountersAccumulate'
<1>1. /\ UNCHANGED <<wantStats, t, backend, st, log, first, vectored>>
      /\ done' = done + Batch /\ avx' = Stored(Batch) /\ done \in Nat /\ Batch \in Nat
      /\ vectored \in Nat /\ backend \in {"ref", "avx2"}
  BY StoreStep, Numbers DEF TypeOK
<1>2. avx \in VectorCounters
  BY DEF TypeOK
<1>3. /\ avx.batches \in Nat /\ avx.vectorized \in Nat /\ avx.tail \in Nat /\ avx.api \in Nat
  BY FieldTypes
<1>4. /\ avx.vectorized + avx.tail = vectored + (IF backend = "avx2" THEN done ELSE 0)
      /\ avx.api = avx.batches + avx.tail
  BY DEF CountersAccumulate
<1> DEFINE k == Batch
<1> HIDE DEF k
<1>5. /\ avx'.refill_rounds = avx.refill_rounds /\ avx'.rejected_lanes = avx.rejected_lanes
      /\ avx'.vectorized + avx'.tail
           = avx.vectorized + avx.tail + (IF backend = "avx2" THEN k ELSE 0)
      /\ avx'.api = avx'.batches + avx'.tail
  <2>1. CASE backend = "ref"
    BY <1>1, <1>3, <1>4, <2>1 DEF Stored
  <2>2. CASE backend = "avx2" /\ k = Lanes
    <3>1. avx' = [avx EXCEPT !.batches = @ + 1, !.vectorized = @ + k, !.api = @ + 1]
      BY <1>1, <2>2 DEF Stored, k
    <3>2. /\ avx'.batches = avx.batches + 1 /\ avx'.vectorized = avx.vectorized + k
          /\ avx'.api = avx.api + 1 /\ avx'.tail = avx.tail
          /\ avx'.refill_rounds = avx.refill_rounds /\ avx'.rejected_lanes = avx.rejected_lanes
      BY <1>2, <3>1 DEF VectorCounters
    <3>3. k \in Nat
      BY <1>1 DEF k
    <3> QED BY <1>3, <1>4, <2>2, <3>2, <3>3
  <2>3. CASE backend = "avx2" /\ k # Lanes
    <3>1. avx' = [avx EXCEPT !.tail = @ + k, !.api = @ + k]
      BY <1>1, <2>3 DEF Stored, k
    <3>2. /\ avx'.batches = avx.batches /\ avx'.vectorized = avx.vectorized
          /\ avx'.api = avx.api + k /\ avx'.tail = avx.tail + k
          /\ avx'.refill_rounds = avx.refill_rounds /\ avx'.rejected_lanes = avx.rejected_lanes
      BY <1>2, <3>1 DEF VectorCounters
    <3>3. k \in Nat
      BY <1>1 DEF k
    <3> QED BY <1>3, <1>4, <2>3, <3>2, <3>3
  <2> QED BY <1>1, <2>1, <2>2, <2>3
<1>6. avx'.vectorized + avx'.tail = vectored' + (IF backend' = "avx2" THEN done' ELSE 0)
  BY <1>1, <1>3, <1>4, <1>5 DEF k
<1> QED BY <1>1, <1>5, <1>6, CountsFrame DEF CountersAccumulate

\* The next call starts with what the last one stored.
LEMMA AgainCounters ==
  ASSUME TypeOK, CountersAccumulate, Again
  PROVE  CountersAccumulate'
<1>1. /\ UNCHANGED <<wantStats, st, avx, log>> /\ done' = 0
      /\ vectored' = vectored + (IF backend = "avx2" THEN done ELSE 0) /\ vectored' \in Nat
  BY Numbers DEF Again, NewCall, TypeOK
<1>2. vectored' + (IF backend' = "avx2" THEN done' ELSE 0) = vectored'
  BY <1>1
<1> QED BY <1>1, <1>2, CountsFrame DEF CountersAccumulate

\* The caller's counters describe every draw delivered to any call, and the
\* process-wide AVX2 counters every round and every sample of the vector loops.
THEOREM CountersAddUp == Spec => []CountersAccumulate
<1>1. Init => CountersAccumulate
  BY InitCounters
<1>2. CallInv /\ CountersAccumulate /\ [Next]_vars => CountersAccumulate'
  <2> SUFFICES ASSUME TypeOK, Control, CountersAccumulate, [Next]_vars PROVE CountersAccumulate'
    BY DEF CallInv
  <2>1. CASE Check \/ DrawFails \/ Return \/ UNCHANGED vars
    <3>1. UNCHANGED <<wantStats, backend, done, st, avx, log, vectored>>
      BY <2>1 DEF Check, DrawFails, Return, vars, call, history
    <3> QED BY <3>1, MoveCounters
  <2>2. CASE \E raw \in Raws : Draw(raw)
    BY <2>2, DrawCounters
  <2>3. CASE Store
    BY <2>3, StoreCounters
  <2>4. CASE Again
    BY <2>4, AgainCounters
  <2> QED BY <2>1, <2>2, <2>3, <2>4 DEF Next
<1> QED BY <1>1, <1>2, CallInvariant, PTL DEF Spec
=============================================================================
