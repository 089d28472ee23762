--------------------------- MODULE MCTableSampler ---------------------------
(***************************************************************************)
(* One table of each kind and type the repository has.  Two candidate bits *)
(* with q = 3, so the raw values 2, 5 and 7 are an accepted value on the   *)
(* last threshold, one on the first threshold and a rejected one; nine-byte*)
(* draws are not masked and reject 7.  Two calls of up to three samples    *)
(* with vectors of two lanes: full vectors, tails, and a callback that     *)
(* fails between the lanes of one vector.                                  *)
(***************************************************************************)
EXTENDS TableSampler

Table(kind, type, bits, q, thresholds) ==
  [kind |-> kind, type |-> type, bits |-> bits, q |-> q, thresholds |-> thresholds]

MCTables ==
  {Table("original", "u16", 2, 4, <<1, 3>>), Table("original", "u72", 3, 8, <<6, 3>>),
   Table("sda", "u8", 2, 3, <<1, 2>>), Table("sda", "u16", 2, 3, <<1, 2>>),
   Table("sda", "u72", 3, 7, <<2, 5>>)}
=============================================================================
