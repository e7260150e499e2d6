------------------------ MODULE MCFinanceActionQueue ------------------------
(***************************************************************************)
(* Instances of FinanceActionQueue for TLC.                                *)
(***************************************************************************)
EXTENDS FinanceActionQueue, TLC

CONSTANTS a1, a2, r1, r2, w1, w2

OwnReferences == (a1 :> r1) @@ (a2 :> r2)

WorkerSymmetry == Permutations({w1, w2})
=============================================================================
