------------------------------ MODULE GstEngine ------------------------------
(***************************************************************************)
(* The GST computations, as operators: tax on a supply, the set-off of     *)
(* input tax credit, the tables of GSTR-3B, and the classification of      *)
(* register rows for a workpaper.  Amounts are integer paise.              *)
(***************************************************************************)
EXTENDS CreditLedger, SequencesExt

Distance(a, b) == IF a < b THEN b - a ELSE a - b

(* Python's int(): the fraction is dropped on either side of zero.         *)
Truncated(n, d) == IF n < 0 THEN -((-n) \div d) ELSE n \div d

-----------------------------------------------------------------------------
GST_SLABS == {0, 5, 12, 18, 28}

CalculateGst(taxable, rate, interstate) ==
  LET gst == Truncated(taxable * rate, 100)
      half == gst \div 2
  IN  IF interstate
        THEN [cgst |-> 0, sgst |-> 0, igst |-> gst, total |-> taxable + gst]
        ELSE [cgst |-> half, sgst |-> gst - half, igst |-> 0, total |-> taxable + gst]

NetGstPayable(output, available, eligible) ==
  LET net == AtLeastZero(output - Least(available, eligible))
  IN  [itc_used |-> output - net, net_payable |-> net]

ItcEligible(filed, invoice, portal, tolerance) ==
  filed /\ Distance(invoice, portal) <= tolerance

-----------------------------------------------------------------------------
(***************************************************************************)
(* apply_itc_utilization.                                                  *)
(***************************************************************************)
(* Faulty variant: each credit pays its own head before IGST pays others.  *)
OwnHeadFirst(output, itc) ==
  LET l1 == Spend(Opening(output, itc), "igst", "igst")
      l2 == Spend(l1, "cgst", "cgst")
      l3 == Spend(l2, "sgst", "sgst")
      l4 == Spend(l3, "igst", "cgst")
      l5 == Spend(l4, "igst", "sgst")
      l6 == Spend(l5, "cgst", "igst")
  IN  Spend(l6, "sgst", "igst")

ApplyItcUtilization(output, itc) ==
  LET l1 == Spend(Opening(output, itc), "igst", "igst")
      l2 == Spend(l1, "igst", "cgst")
      l3 == Spend(l2, "igst", "sgst")
      l4 == Spend(l3, "cgst", "cgst")
      l5 == Spend(l4, "cgst", "igst")
      l6 == Spend(l5, "sgst", "sgst")
  IN  Spend(l6, "sgst", "igst")

(* The tables of GSTR-3B with a cell that is not constantly zero.          *)
Gstr3bTables(taxable, output, itc, rcm, exempt, ineligible) ==
  LET l == ApplyItcUtilization(output, itc)
  IN  [outward |-> [txval |-> taxable, tax |-> output],
       reverse_charge |-> rcm, exempt |-> exempt, ineligible |-> ineligible,
       other_itc |-> itc, net_itc |-> itc,
       payment |-> [h \in Heads |->
         [payable |-> output[h],
          paid_itc |-> l.used["igst"][h] + l.used["cgst"][h] + l.used["sgst"][h],
          paid_cash |-> l.payable[h]]]]

(* Rupees with two decimals, as a sign, the rupees and the paise.          *)
PaiseToDecimal(p) ==
  LET n == IF p < 0 THEN -p ELSE p
  IN  [minus |-> p < 0, rupees |-> n \div 100, paise |-> n % 100]

Gstr3bJson(tables) ==
  LET Tax(t) == [h \in Heads |-> PaiseToDecimal(t[h])]
  IN  [osup_det |-> [txval |-> PaiseToDecimal(tables.outward.txval),
                     tax |-> Tax(tables.outward.tax)],
       itc_avl |-> Tax(tables.other_itc),
       inward_inter |-> PaiseToDecimal(tables.exempt)]

-----------------------------------------------------------------------------
(* The sum of Amount(i) over the positions i of a sequence that satisfy P. *)
SumWhere(s, P(_), Amount(_)) ==
  MapThenSumSet(LAMBDA i : Amount(s[i]), {i \in DOMAIN s : P(s[i])})

-----------------------------------------------------------------------------
(***************************************************************************)
(* build_source_rows and summarize_tables of a GST workpaper.  A purchase  *)
(* is [kind, match, ims, rcm, amount]: what its classification names, its  *)
(* 2B decision, its IMS decision, whether reverse charge applies.          *)
(***************************************************************************)
Row(table, amount, warning) == [table |-> table, amount |-> amount, warning |-> warning]

ItcTable(p) ==
  LET Into(table, warning) == Row(table, p.amount, warning)
  IN  CASE p.kind = "REVERSAL" -> Into("4(B)", "")
        [] p.kind # "REVERSAL" /\ (\/ p.kind = "INELIGIBLE"
                                   \/ p.match = "REJECTED" \/ p.ims = "REJECT") ->
             Into("4(D)", "")
        [] OTHER ->
             IF p.ims = "PENDING" \/ p.match \in {"", "PENDING"}
               THEN Into("4(D)", "ITC_DECISION_REQUIRED")
             ELSE IF ~p.rcm THEN Into("4(A)(5)", "")
             ELSE IF p.kind = "RCM_PAID" THEN Into("4(A)(3)", "")
             ELSE Into("4(D)", "RCM_PAYMENT_EVIDENCE_REQUIRED")

SaleRow(s, return_type) ==
  Row(CASE return_type = "GSTR3B" -> "3.1(a)"
        [] return_type = "GSTR1" /\ s.registered -> "GSTR-1 B2B"
        [] OTHER -> "GSTR-1 B2C", s.amount, "")

BuildSourceRows(sales, purchases, return_type) ==
  [i \in DOMAIN sales |-> SaleRow(sales[i], return_type)] \o
  IF return_type = "GSTR1" THEN <<>>
  ELSE FoldLeft(LAMBDA rows, p :
                  rows \o (IF p.rcm THEN <<Row("3.1(d)", p.amount, "")>> ELSE <<>>)
                       \o <<ItcTable(p)>>,
                <<>>, purchases)

(* An adjustment is a table and an amount.                                 *)
SummarizeTables(rows, adjustments) ==
  LET Amount(r) == r.amount
      source(t) == SumWhere(rows, LAMBDA r : r.table = t, Amount)
      adjusted(t) == SumWhere(adjustments, LAMBDA r : r.table = t, Amount)
  IN  [t \in {rows[i].table : i \in DOMAIN rows}
             \cup {adjustments[i].table : i \in DOMAIN adjustments} |->
         [source |-> source(t), adjustment |-> adjusted(t),
          total |-> source(t) + adjusted(t)]]
=============================================================================
