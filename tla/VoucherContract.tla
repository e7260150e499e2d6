--------------------------- MODULE VoucherContract ---------------------------
(***************************************************************************)
(* What a reviewed invoice becomes on its way into the books: the payload  *)
(* drafted for Tally or Zoho, its validation, the voucher the desktop      *)
(* agent imports, what it reads back, and the comparison that decides      *)
(* whether the action has succeeded.  An amount is in paise; a ledger      *)
(* entry is [ledger, amount] and a tax detail [ledger, type, amount].      *)
(***************************************************************************)
EXTENDS InvoiceValidation

NoLedger == ""
PURCHASE == "Purchase"
SALES == "Sales"
TaxTypes == {"CGST", "SGST", "IGST", "CESS"}
LedgerEntry(ledger, amount) == [ledger |-> ledger, amount |-> amount]
Abs(a) == Gap(a, 0)
AmountsOf(entries) == [i \in DOMAIN entries |-> entries[i].amount]
BookedOn(ledger, entries) ==
  SumFunctionOnSet(AmountsOf(entries), {i \in DOMAIN entries : entries[i].ledger = ledger})
NetsToZero(entries) == SumFunction(AmountsOf(entries)) = 0
TaxOf(details) == SumFunction([i \in DOMAIN details |-> Abs(details[i].amount)])

-----------------------------------------------------------------------------
(***************************************************************************)
(* The draft.  An invoice is a record that ValidateInvoice takes; ledgers  *)
(* gives the ledger chosen for the party, the account and each tax.        *)
(***************************************************************************)
TaxTotal(doc) == doc.cgst + doc.sgst + doc.igst
OtherCharges(doc) == Max({0, doc.total - doc.taxable - TaxTotal(doc)})

(* The checks of propose_purchase, whose invoice names no client, and of   *)
(* propose_sale.                                                           *)
Findings(kind, doc) ==
  LET charged == [doc EXCEPT !.other = OtherCharges(doc)]
  IN  IF kind = PURCHASE THEN ValidateInvoice([charged EXCEPT !.client = NoParty, !.place = 0])
      ELSE ValidateSalesInvoice(charged, {f \in {"place_of_supply_state"} : doc.place = 0})

Prepared(kind, doc) ==
  /\ ValidationState(Findings(kind, doc)) # "FAILED"
  /\ kind = PURCHASE => OtherCharges(doc) = 0

TaxDetails(doc, ledgers, sign) ==
  LET all == <<[ledger |-> ledgers.CGST, type |-> "CGST", amount |-> sign * doc.cgst],
               [ledger |-> ledgers.SGST, type |-> "SGST", amount |-> sign * doc.sgst],
               [ledger |-> ledgers.IGST, type |-> "IGST", amount |-> sign * doc.igst]>>
  IN  Kept(all, {i \in DOMAIN all : all[i].amount # 0})

(* A sale debits its party and a purchase credits it; the tax details of a *)
(* sale are entries of its voucher and nothing else.                       *)
Draft(kind, doc, ledgers) ==
  LET sign == IF kind = PURCHASE THEN -1 ELSE 1
      taxes == TaxDetails(doc, ledgers, sign)
  IN  [kind |-> kind, party |-> ledgers.party, account |-> ledgers.account,
       total |-> doc.total, tax_total |-> TaxTotal(doc), number |-> "ref",
       gst_details |-> IF kind = PURCHASE THEN taxes ELSE <<>>,
       entries |-> <<LedgerEntry(ledgers.party, -sign * doc.total),
                     LedgerEntry(ledgers.account, sign * doc.taxable)>>
                   \o [i \in DOMAIN taxes |-> LedgerEntry(taxes[i].ledger, taxes[i].amount)]]

(* The lines of a Zoho document, and the payload; tax: a Zoho tax is chosen. *)
BillLine(line, tax) == [rate |-> line.amount, quantity |-> 1, taxed |-> tax]

ZohoDraft(doc, tax) ==
  [lines |-> [i \in DOMAIN doc.lines |-> BillLine(doc.lines[i], tax)],
   subtotal |-> doc.taxable, tax_total |-> TaxTotal(doc), total |-> doc.total]

Subtotal(lines) == SumFunction([i \in DOMAIN lines |-> lines[i].rate * lines[i].quantity])

(* build_purchase_bill, and build_sales_invoice, which compares no totals. *)
BillAccepted(b) ==
  /\ Subtotal(b.lines) > 0 /\ Subtotal(b.lines) = b.subtotal
  /\ b.total = b.subtotal + b.tax_total
  /\ b.tax_total # 0 => \A i \in DOMAIN b.lines : b.lines[i].taxed

InvoiceAccepted(b) ==
  b.lines # <<>> /\ \A i \in DOMAIN b.lines : b.lines[i].taxed /\ b.lines[i].rate > 0

(* What preparing an invoice for a connector accepts.                      *)
ZohoAccepted(kind, doc, tax) ==
  LET b == ZohoDraft(doc, tax)
  IN  /\ \A i \in DOMAIN b.lines : b.lines[i].rate > 0
      /\ IF kind = PURCHASE THEN BillAccepted(b) ELSE InvoiceAccepted(b)

(***************************************************************************)
(* The document in Zoho.  The request names the lines and no totals: Zoho  *)
(* works those out, with the tax of its own set-up.                        *)
(***************************************************************************)
ZohoJson(b) == [lines |-> b.lines]

ZohoBooked(json, tax) ==
  [lines |-> json.lines, subtotal |-> Subtotal(json.lines), tax_total |-> tax,
   total |-> Subtotal(json.lines) + tax]

(* map_bill and map_invoice read a quantity of 0 as 1.                     *)
MapLine(line) == IF line.quantity = 0 THEN [line EXCEPT !.quantity = 1] ELSE line

MapBill(document) ==
  [document EXCEPT !.lines = [i \in DOMAIN document.lines |-> MapLine(document.lines[i])]]

CompareBill(b, actual) ==
  {c \in {"count"} : Len(b.lines) # Len(actual.lines)}
    \cup {c \in {"lines"} : \E i \in DOMAIN b.lines \cap DOMAIN actual.lines : b.lines[i] # actual.lines[i]}
    \cup {c \in {"subtotal"} : b.subtotal # actual.subtotal}
    \cup {c \in {"tax_total"} : b.tax_total # actual.tax_total}
    \cup {c \in {"total"} : b.total # actual.total}

CompareInvoice(b, actual) == {c \in {"total"} : b.total # actual.total}

-----------------------------------------------------------------------------
(* A purchase payload without entries has one for its party and one for    *)
(* its account.                                                            *)
Completed(p) ==
  IF p.entries # <<>> \/ p.kind = SALES THEN p
  ELSE [p EXCEPT !.entries = <<LedgerEntry(p.party, p.total), LedgerEntry(p.account, -p.total)>>]

SoundEntries(p) ==
  /\ \A i \in DOMAIN p.entries : p.entries[i].ledger # NoLedger /\ p.entries[i].amount # 0
  /\ NetsToZero(p.entries)
  /\ {p.party, p.account} \subseteq {p.entries[i].ledger : i \in DOMAIN p.entries}

ValidPurchase(p) ==
  /\ NoLedger \notin {p.party, p.account} /\ p.party # p.account
  /\ p.total > 0
  /\ SoundEntries(p)
  /\ \A i \in DOMAIN p.gst_details :
       LET t == p.gst_details[i]
       IN  t.type \in TaxTypes /\ LedgerEntry(t.ledger, t.amount) \in ToSet(p.entries)
  /\ p.tax_total = TaxOf(p.gst_details)

ValidSales(p) == NoLedger \notin {p.party, p.account} /\ p.total > 0 /\ SoundEntries(p)

ValidVoucher(p) ==
  IF p.kind = PURCHASE THEN ValidPurchase(Completed(p)) ELSE ValidSales(p)

DraftAccepted(kind, doc, ledgers) ==
  LET draft == Draft(kind, doc, ledgers)
  IN  IF kind = PURCHASE THEN ValidVoucher(draft) ELSE NetsToZero(draft.entries)

-----------------------------------------------------------------------------
(***************************************************************************)
(* The voucher in Tally.  The import writes entries without a number and   *)
(* without tax types: Tally numbers the voucher, and a ledger's own        *)
(* set-up says which tax it collects (NoLedger when none).                 *)
(***************************************************************************)
VoucherXml(p, number) ==
  [kind |-> p.kind, party |-> p.party, number |-> number, entries |-> Completed(p).entries]

(* action_result of parse_vouchers.                                        *)
ReadVoucher(v, TypeOf) ==
  LET taxed == Kept(v.entries, {i \in DOMAIN v.entries : TypeOf[v.entries[i].ledger] # NoLedger})
  IN  [kind |-> v.kind, party |-> v.party, number |-> v.number, entries |-> v.entries,
       total |-> Max({Abs(v.entries[i].amount) : i \in DOMAIN v.entries}),
       gst_details |-> [i \in DOMAIN taxed |->
         [ledger |-> taxed[i].ledger, type |-> TypeOf[taxed[i].ledger], amount |-> taxed[i].amount]]]

(* Faulty variant: entries are compared as a set.                          *)
AsSet(lines) == ToSet(lines)

Listed(lines) == ToBag(lines)

(* compare_purchase and compare_sales: the fields that differ.             *)
Mismatches(p, actual) ==
  LET wanted == Completed(p)
  IN  {k \in {"kind"} : wanted.kind # actual.kind}
        \cup {k \in {"party"} : wanted.party # actual.party}
        \cup {k \in {"total"} : wanted.total # actual.total}
        \cup {k \in {"number"} : wanted.number \notin {"", actual.number}}
        \cup {k \in {"entries"} : Listed(wanted.entries) # Listed(actual.entries)}
        \cup {k \in {"gst_details"} : /\ p.kind = PURCHASE
                                      /\ Listed(wanted.gst_details) # Listed(actual.gst_details)}
=============================================================================
