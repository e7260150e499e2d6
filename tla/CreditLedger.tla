---------------------------- MODULE CreditLedger ----------------------------
(***************************************************************************)
(* The ledger on which a set-off of input tax credit works: what is still  *)
(* payable and what credit is left under each head, and what of a credit   *)
(* went where.                                                             *)
(***************************************************************************)
EXTENDS Integers

Least(a, b) == IF a < b THEN a ELSE b
AtLeastZero(a) == IF a > 0 THEN a ELSE 0

Heads == {"igst", "cgst", "sgst"}

Opening(output, itc) ==
  [payable |-> [h \in Heads |-> AtLeastZero(output[h])],
   credit |-> [h \in Heads |-> AtLeastZero(itc[h])],
   used |-> [c \in Heads |-> [h \in Heads |-> 0]]]

(* What credit c can pay of head h, and the ledger after it paid an amount *)
(* of it.                                                                  *)
Payable(l, c, h) == Least(l.credit[c], l.payable[h])

Pay(l, c, h, amount) ==
  [payable |-> [l.payable EXCEPT ![h] = @ - amount],
   credit |-> [l.credit EXCEPT ![c] = @ - amount],
   used |-> [l.used EXCEPT ![c][h] = @ + amount]]

Spend(l, c, h) == Pay(l, c, h, Payable(l, c, h))
=============================================================================
