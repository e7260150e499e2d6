----------------------------- MODULE MCGstReturn -----------------------------
(***************************************************************************)
(* A client with one return whose registers change twice, and a second     *)
(* period whose 2B file may hold the same document; and what plausible     *)
(* bugs would make of the operations.                                      *)
(***************************************************************************)
EXTENDS GstReturn, TLC

CONSTANTS p1, p2

OneReturn == {<<p1, "GSTR3B">>}
SmallChanges == p1 :> 2 @@ p2 :> 0
Interchangeable == Permutations(Uploads) \cup Permutations(Packers)
=============================================================================
