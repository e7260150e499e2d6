--------------------------- MODULE MCCalculations ---------------------------
(* Small inputs around the limits of every rule.  A lakh is 10,000 paise   *)
(* and a hundred rupees are 10.                                            *)
EXTENDS Calculations

MCAmounts == {0, 1, 2, 5}
MCPayments == {0, 20, 100, 150, 1000, 5050, 499999, 500000, 500001, 600050}
MCIncomes ==
  {0, 24999, 25001, 30000, 50001, 70000, 70001, 100000, 150001}
    \cup {k + d : k \in {500000, 1000000, 2000000, 5000000}, d \in {-1, 0, 1, 7, 999, 60000}}
MCTaxes == {0, 1000, 1007, 2000}
MCInstalls == {0, 120, 150, 359, 500}
MCDates == {[y |-> 2025, m |-> 3, d |-> 31], [y |-> 2025, m |-> 4, d |-> 1],
            [y |-> 2025, m |-> 4, d |-> 2], [y |-> 2026, m |-> 1, d |-> 1]}

Line(party, gstin, ref, amount) ==
  [party |-> party, gstin |-> gstin, ref |-> ref, amount |-> amount]
MCLines ==
  {Line("acme", "g1", "i1", 1000), Line("acme", "g1", "i2", 1000), Line("acme", None, None, 1050),
   Line("beta", "g1", "i1", 1000), Line("beta", "g2", "i1", 5000), Line("acme ltd", None, "i1", 1000)}
MCParties == {l.party : l \in MCLines}
MCSimilar ==
  [a, b \in MCParties |->
     IF a = b THEN 100 ELSE IF {a, b} = {"acme", "acme ltd"} THEN 76 ELSE 20]

MCInvoices ==
  {[gstin |-> "g1", number |-> n, date |-> d, amount |-> a] :
     n \in {"i1", "i2"}, d \in {10, Unreadable}, a \in {1000, 1050}}
Raw(section, gstin, number, total, original) ==
  [section |-> section, gstin |-> gstin, number |-> number, date |-> 10, total |-> total,
   items |-> <<[taxable |-> 900, tax |-> 100]>>, original |-> original]
MCPortal ==
  {Raw("b2b", "g1", "i1", 1000, Blank), Raw("b2b", "g1", "i1", 1050, Blank),
   Raw("b2b", "g1", "i2", 1000, Blank), Raw("cdnr", "g1", "i2", 1050, Blank),
   Raw("b2ba", "g2", "i1", 1000, "i0"), Raw("b2b", Blank, "i1", 1000, Blank)}

Entry(date, debit, credit, balance) ==
  [date |-> date, description |-> TRUE, debit |-> debit, credit |-> credit, amount |-> 0,
   balance |-> balance]
MCStatements ==
  {<<>>, <<Entry(1, 0, 500, 500), Entry(2, 200, 0, 300)>>, <<Entry(1, 0, 500, 500), Entry(40, 0, 1, 1)>>,
   <<Entry(1, 0, 500, 500), Entry(3, 100, 500, 700)>>, <<Entry(0, 0, 1, 1)>>}
MCEntries ==
  {[date |-> d, amount |-> a, tokens |-> t] :
     d \in {1, 4, 5}, a \in {1000, 1101}, t \in {{}, {"neft"}, {"neft", "acme"}}}

Source(type, key, amount) == [type |-> type, key |-> key, amount |-> amount]
MCReturns ==
  SUBSET {Source("FORM16", "salary_income", 120000), Source("FORM16", "tds", 4000),
          Source("26AS", "tds", 5000), Source("AIS", "capital_gains", 400000),
          Source("BOOKS", "deductions", 15000)}

MCPurchases ==
  [kind : {"", "RCM_PAID", "INELIGIBLE", "REVERSAL"}, match : {"", "PENDING", "ACCEPTED", "REJECTED"},
   ims : {"PENDING", "ACCEPT"}, rcm : BOOLEAN, amount : {3}]
MCAdjusts == {Row("4(B)", 2, "")}

BilledLine(amount) == [quantity |-> 1, rate |-> amount, amount |-> amount]
MCBills ==
  {[supplier |-> [valid |-> TRUE, state |-> 27], pan_valid |-> TRUE, age |-> 30,
    client |-> [valid |-> TRUE, state |-> 27], place |-> place,
    money_valid |-> TRUE, taxable |-> 1000, cgst |-> half, sgst |-> half, igst |-> igst, other |-> 0,
    total |-> 1000 + 2 * half + igst + off, credit_note |-> FALSE, inr |-> TRUE,
    lines |-> lines] :
     half \in {0, 90}, igst \in {0, 180}, off \in {-1, 0, 1}, lines \in {<<BilledLine(999)>>, <<BilledLine(1000)>>, <<BilledLine(600), BilledLine(400)>>}, place \in {0, 27, 29}}
MCAgentBills ==
  {[lines |-> <<[rate |-> rate, quantity |-> quantity, taxed |-> taxed],
                [rate |-> other, quantity |-> 1, taxed |-> taxed]>>,
    subtotal |-> 900, tax_total |-> tax, total |-> 900 + tax] :
     rate \in {0, 500, 1000}, quantity \in {0, 1, 2}, other \in {-100, 900}, taxed \in BOOLEAN, tax \in {0, 180}}
MCNames == TaxTypes \cup {NoLedger, "party", "account", "cgst", "sgst", "igst"}
MCLedgerMaps ==
  {[party |-> "party", account |-> "account", CGST |-> c, SGST |-> s, IGST |-> "igst"] :
     c \in {"cgst", "party", "account"}, s \in {"cgst", "sgst"}}
Detail(ledger, type, amount) == [ledger |-> ledger, type |-> type, amount |-> amount]
MCPayloads ==
  {[kind |-> k, party |-> "party", account |-> "account", total |-> total, number |-> number,
    tax_total |-> TaxOf(details), gst_details |-> details, entries |-> entries] :
     k \in {PURCHASE, SALES}, total \in {100, 50}, number \in {"", "ref"},
     details \in {<<>>, <<Detail("cgst", "CGST", -10)>>,
                  <<Detail("cgst", "CGST", -10), Detail("cgst", "CGST", -10)>>},
     entries \in {<<>>,
                  <<LedgerEntry("party", 100), LedgerEntry("account", -90), LedgerEntry("cgst", -10)>>,
                  <<LedgerEntry("party", 50), LedgerEntry("party", 50), LedgerEntry("account", -90),
                    LedgerEntry("cgst", -10)>>}}
TaxSetup(c, s) ==
  [l \in MCNames |->
     IF l = "cgst" THEN c ELSE IF l = "sgst" THEN s ELSE IF l = "igst" THEN "IGST" ELSE NoLedger]
MCTaxSetups == {TaxSetup("CGST", "SGST"), TaxSetup(NoLedger, NoLedger), TaxSetup("SGST", "CGST")}
=============================================================================
