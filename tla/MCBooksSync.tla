---------------------------- MODULE MCBooksSync ----------------------------
(* One bill moves between two periods when its date is edited.             *)
EXTENDS BooksSync, TLC

MCPeriodOf == [v \in Versions |-> IF v = "moved" THEN "june" ELSE "may"]
Interchangeable == Permutations(Workers) \cup Permutations(Jobs)
=============================================================================
