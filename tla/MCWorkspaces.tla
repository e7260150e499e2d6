----------------------------- MODULE MCWorkspaces -----------------------------
(* The two workspaces share no row: a behaviour works on one of them.      *)
EXTENDS BankReconciliation, ItrWorkspace, TLC

VARIABLE desk

MCScored == {<<"t1", "b1">>, <<"t1", "b2">>, <<"t2", "b1">>}
MCAmount == [t \in Transactions |-> IF t = "t1" THEN 3 ELSE 5]

Document(type, version, pan, income, tds, bank) ==
  [type |-> type, version |-> version, pan |-> pan, income |-> income, tds |-> tds, bank |-> bank]
MCSources ==
  {Document("AIS", 1, "own", 600, 0, 900), Document("BOOKS", 1, "own", 650, 0, 0), Document("26AS", 1, "own", 0, 300, 0),
   Document("FORM16", 1, "own", 0, 250, 0), Document("BANK", 1, "own", 0, 0, 900),
   Document("FORM16A", 1, "other", 0, 10, 0)}

MCSymmetry == Permutations(Reviewers) \cup Permutations(Callers)

MCInit == BankInit /\ ItrInit /\ taxpayer = "own" /\ desk \in {"bank", "return"}
MCNext ==
  \/ desk = "bank" /\ BankNext /\ UNCHANGED <<itr_vars, desk>>
  \/ desk = "return" /\ ItrNext /\ UNCHANGED <<bank_vars, desk>>
MCSpec == MCInit /\ [][MCNext]_<<bank_vars, itr_vars, desk>>
=============================================================================
