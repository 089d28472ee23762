---------------------------- MODULE MCLinfSearch ----------------------------
(***************************************************************************)
(* Denominators up to four in half units: norms fall between integers, the *)
(* bound shrinks once or twice, enclosures overlap, and the longest        *)
(* enumerations exceed what the code accepts.                              *)
(***************************************************************************)
EXTENDS LinfSearch
=============================================================================
