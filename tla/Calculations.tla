---------------------------- MODULE Calculations ----------------------------
(***************************************************************************)
(* The engines behind the computing routes, one action each: a request is  *)
(* taken, its answer computed and returned; nothing is kept in between.    *)
(***************************************************************************)
EXTENDS GstEngine, DirectTaxEngine, Matching, VoucherContract

CONSTANTS
  Amounts,      \* amounts under a tax head, in paise
  Payments,     \* payments to a supplier
  Incomes,      \* taxable incomes
  Taxes,        \* assessed taxes
  Installs,     \* what is paid of an installment
  Dates,        \* filing dates
  Lines,        \* lines of books and portals
  Invoices,     \* purchases to match
  Portal,       \* raw GSTR-2B documents
  Statements,   \* bank statements: sequences of rows
  Entries,      \* book entries to score against a bank transaction
  Returns,      \* sets of ITR sources
  Purchases,    \* purchases of a GST workpaper
  Adjusts,      \* adjustments of a GST workpaper
  Bills,        \* invoices to draft for a connector
  AgentBills,   \* bills that an agent proposes
  LedgerMaps,   \* ledgers chosen for a party, an account and each tax
  Names,        \* names of parties, ledgers and taxes
  Payloads,     \* payloads that an agent proposes for Tally
  TaxSetups,    \* the tax that each ledger of Tally collects
  Longest,      \* how many lines, purchases or documents a list has
  Similar       \* the fuzzy score of two names: a function of pairs

ASSUME AmountsAssumption ==
  /\ Amounts \subseteq Nat /\ Payments \subseteq Nat /\ Incomes \subseteq Nat
  /\ Installs \subseteq Nat /\ Taxes \subseteq Int /\ Dates \subseteq [y : Int, m : 1 .. 12, d : 1 .. 31]

(* Fuzzy scores are percentages, and every line has an amount.             *)
ASSUME MatchingAssumption ==
  /\ Longest \in Nat
  /\ \A line, other \in Lines : line.amount \in Int /\ Similar[<<line.party, other.party>>] \in 0 .. 100
  /\ \A invoice \in Invoices : invoice.amount \in Int
  /\ \A raw \in Portal : raw.total \in Int

(* What the payloads are made of.                                          *)
BookEntries == [ledger : Names, amount : Int]
TaxEntries == [ledger : Names, type : Names, amount : Int]
BillLines == [rate : Int, quantity : Int, taxed : BOOLEAN]

ASSUME VoucherAssumption ==
  /\ TaxTypes \subseteq Names
  /\ \A d \in Bills : /\ {d.taxable, d.cgst, d.sgst, d.igst, d.total} \subseteq Int
                      /\ \A i \in DOMAIN d.lines : d.lines[i].amount \in Int
                      /\ Len(d.lines) \in Nat /\ DOMAIN d.lines = 1 .. Len(d.lines)
  /\ AgentBills \subseteq [lines : Seq(BillLines), subtotal : Int, tax_total : Int, total : Int]
  /\ TaxSetups \subseteq [Names -> Names]
  /\ LedgerMaps \subseteq [party : Names, account : Names, CGST : Names, SGST : Names, IGST : Names]
  /\ Payloads \subseteq
       [kind : {PURCHASE, SALES}, party : Names, account : Names, total : Int, number : STRING,
        tax_total : Int, gst_details : Seq(TaxEntries), entries : Seq(BookEntries)]

VARIABLES request, answer

vars == <<request, answer>>

Init == request = [kind |-> "none"] /\ answer = "none"

Idle == request.kind = "none"
Answer(asked, result) == request' = asked /\ answer' = result

Return ==
  /\ ~Idle
  /\ request' = [kind |-> "none"] /\ answer' = "none"

Vectors(S) == [Heads -> S]
UpTo(S, n) == UNION {[1 .. k -> S] : k \in 0 .. n}

-----------------------------------------------------------------------------
ComputeGst ==
  Idle /\ \E taxable \in Payments, rate \in GST_SLABS, interstate \in BOOLEAN :
    Answer([kind |-> "gst", taxable |-> taxable, rate |-> rate, interstate |-> interstate],
           CalculateGst(taxable, rate, interstate))

ComputeNetGst ==
  Idle /\ \E output, available, eligible \in Amounts :
    Answer([kind |-> "net gst"], NetGstPayable(output, available, eligible))

CheckItc ==
  Idle /\ \E filed \in BOOLEAN, invoice, portal \in Payments :
    Answer([kind |-> "itc"], ItcEligible(filed, invoice, portal, 100))

(* compute_component_net_gst, and generate_gstr3b_tables on its result.    *)
SetOff ==
  Idle /\ \E output, itc \in Vectors(Amounts) :
    Answer([kind |-> "set-off", output |-> output, itc |-> itc],
           ApplyItcUtilization(output, itc))

FileGstr3b ==
  Idle /\ \E output, itc \in Vectors(Amounts \cap {0, 1}), exempt \in Amounts :
    Answer([kind |-> "gstr3b"], Gstr3bJson(Gstr3bTables(100, output, itc, 0, exempt, 0)))

ComputeTds ==
  Idle /\ \E section \in Sections, gross, prior \in Payments, pan \in BOOLEAN,
     turnover \in {Unknown, 1000 * Lakh, 1001 * Lakh} :
    Answer([kind |-> "tds", section |-> section, gross |-> gross, pan |-> pan,
            prior |-> prior, turnover |-> turnover],
           CalculateTds(section, gross, pan, prior, turnover))

ComputeInterest ==
  Idle /\ \E total \in Taxes, paid \in [1 .. 4 -> Installs], filed \in Dates :
    Answer([kind |-> "interest", total |-> total, paid |-> paid, filed |-> filed],
           [b |-> Interest234B(total, paid[1] + paid[2] + paid[3] + paid[4], 2026, filed),
            c |-> Interest234C(total, paid)])

ComputeIncomeTax ==
  Idle /\ \E income \in Incomes, regime \in Regimes :
    Answer([kind |-> "tax", income |-> income, regime |-> regime],
           [tax |-> CalculateIncomeTax(income, regime),
            rules |-> Calculate("2025-26", regime, TRUE, income, 0, 0, 0, 0, 0)])

(* An ITR draft computed from its sources.                                 *)
ComputeReturn ==
  Idle /\ \E sources \in Returns, year \in {"2025-26", "2026-27"}, regime \in Regimes :
    LET draft == DraftAmounts(sources)
    IN  Answer([kind |-> "return"],
               Calculate(year, regime, TRUE, draft.salary + draft.business + draft.other,
                         draft.deductions, Lakh, draft.credits, draft.gains, draft.gains \div 5))

ReconcileBooks ==
  Idle /\ \E books, portal \in UpTo(Lines, Longest) :
    LET matches == Reconcile(books, portal, Similar)
    IN  Answer([kind |-> "books", books |-> books, portal |-> portal],
               [matches |-> matches, summary |-> Summary(matches, books, portal)])

(* An upload of GSTR-2B is read and matched with the purchases.            *)
MatchUpload ==
  Idle /\ \E purchases \in UpTo(Invoices, Longest), raws \in UpTo(Portal, Longest) :
    LET parsed == ParseGstr2b(raws)
    IN  Answer([kind |-> "upload", purchases |-> purchases, raws |-> raws],
               IF parsed.error # "" THEN <<>>
               ELSE MatchGstr2b(purchases, parsed.documents, {}))

ReadStatement ==
  Idle /\ \E rows \in Statements, supported \in BOOLEAN :
    Answer([kind |-> "statement"], ParseBankStatement(rows, supported))

ScoreEntries ==
  Idle /\ \E txn \in Entries :
    Answer([kind |-> "bank", transaction |-> txn], ScoreCandidates(txn, Entries))

(* An invoice of one line whose tax calculate_gst computed.                *)
ValidateComputed ==
  Idle /\ \E taxable \in Payments \ {0}, rate \in GST_SLABS, interstate \in BOOLEAN,
     missing \in SUBSET {"invoice_number"} :
    LET gst == CalculateGst(taxable, rate, interstate)
        invoice ==
          [supplier |-> [valid |-> TRUE, state |-> 27], pan_valid |-> TRUE, age |-> 30,
           client |-> [valid |-> TRUE, state |-> IF interstate THEN 29 ELSE 27], place |-> 0,
           money_valid |-> TRUE, taxable |-> taxable, cgst |-> gst.cgst, sgst |-> gst.sgst,
           igst |-> gst.igst, other |-> 0, total |-> gst.total, credit_note |-> FALSE,
           inr |-> TRUE, lines |-> <<[quantity |-> 1, rate |-> taxable, amount |-> taxable]>>]
        findings == ValidateSalesInvoice(invoice, missing)
    IN  Answer([kind |-> "invoice", tax |-> (taxable * rate) \div 100, interstate |-> interstate,
                missing |-> missing],
               [findings |-> findings, state |-> ValidationState(findings)])

(* An invoice drafted for both connectors; tax: a Zoho tax is chosen.      *)
DraftInvoice ==
  Idle /\ \E kind \in {PURCHASE, SALES}, doc \in Bills, ledgers \in LedgerMaps, tax \in BOOLEAN :
    /\ Prepared(kind, doc)
    /\ Answer([kind |-> "draft", of |-> kind, doc |-> doc],
              [tally |-> DraftAccepted(kind, doc, ledgers),
               zoho |-> ZohoAccepted(kind, doc, tax)])

(* A voucher is imported, perhaps edited in Tally, read back and compared. *)
Edits(entries) ==
  LET Moved(i) == [entries EXCEPT ![i].amount = @ + 7, ![i + 1].amount = @ - 7]
  IN  {entries, Reverse(entries), entries \o entries, Moved(1), Moved(Len(entries) - 1)}

Drafts == {Draft(kind, doc, ledgers) : kind \in {PURCHASE, SALES}, doc \in Bills, ledgers \in LedgerMaps}

VerifyVoucher ==
  Idle /\ \E p \in Payloads \cup Drafts, number \in {"ref", "own"}, TypeOf \in TaxSetups :
    /\ ValidVoucher(p)
    /\ LET v == VoucherXml(p, number)
       IN  \E entries \in Edits(v.entries) :
             LET held == [v EXCEPT !.entries = entries]
             IN  Answer([kind |-> "voucher", payload |-> Completed(p), held |-> held, types |-> TypeOf],
                        Mismatches(p, ReadVoucher(held, TypeOf)))

(* An action that an agent proposes for Zoho.                              *)
ProposeAction ==
  Idle /\ \E b \in AgentBills : Answer([kind |-> "proposal", bill |-> b], BillAccepted(b))

(* A document is posted to Zoho, perhaps edited there, read and compared.  *)
LineEdits(lines) ==
  {lines, Reverse(lines), Tail(lines)} \cup {[lines EXCEPT ![1].quantity = @ - 1]}

VerifyBill ==
  Idle /\ \E kind \in {PURCHASE, SALES}, tax \in {0, 180},
     b \in AgentBills \cup {ZohoDraft(d, TRUE) : d \in Bills} :
    /\ IF kind = PURCHASE THEN BillAccepted(b) ELSE InvoiceAccepted(b)
    /\ \E lines \in LineEdits(ZohoJson(b).lines) :
         LET held == ZohoBooked([lines |-> lines], tax)
         IN  Answer([kind |-> "bill", of |-> kind, draft |-> b, held |-> held],
                    IF kind = PURCHASE THEN CompareBill(b, MapBill(held))
                    ELSE CompareInvoice(b, MapBill(held)))

PrepareTables ==
  Idle /\ \E purchases \in UpTo(Purchases, 2), sale \in [registered : BOOLEAN, amount : {5}],
     adjusts \in UpTo(Adjusts, 1), type \in {"GSTR1", "GSTR3B"} :
    LET rows == BuildSourceRows(<<sale>>, purchases, type)
    IN  Answer([kind |-> "tables", purchases |-> purchases, adjusts |-> adjusts, type |-> type],
               SummarizeTables(rows, adjusts))

Next ==
  \/ ComputeGst \/ ComputeNetGst \/ CheckItc \/ SetOff \/ FileGstr3b
  \/ ComputeTds \/ ComputeInterest \/ ComputeIncomeTax \/ ComputeReturn
  \/ ReconcileBooks \/ MatchUpload \/ ReadStatement \/ ScoreEntries
  \/ ValidateComputed \/ DraftInvoice \/ VerifyVoucher \/ ProposeAction \/ VerifyBill
  \/ PrepareTables \/ Return

Spec == Init /\ [][Next]_vars

-----------------------------------------------------------------------------
(* The set-off of input tax credit pays what the credits cover and no      *)
(* more: every liability is settled by credit and cash, no credit is spent *)
(* twice, CGST and SGST never pay each other, IGST credit goes first, and  *)
(* no credit that could still pay a liability is left.                     *)
SetOffLawful ==
  request.kind = "set-off" =>
    LET used == answer.used
        payable == answer.payable
        credit == answer.credit
    IN  /\ \A h \in Heads :
             /\ payable[h] >= 0 /\ credit[h] >= 0
             /\ payable[h] + used["igst"][h] + used["cgst"][h] + used["sgst"][h]
                  = request.output[h]
             /\ credit[h] + used[h]["igst"] + used[h]["cgst"] + used[h]["sgst"]
                  = request.itc[h]
        /\ used["cgst"]["sgst"] = 0 /\ used["sgst"]["cgst"] = 0
        /\ credit["igst"] > 0 => \A c \in {"cgst", "sgst"}, h \in Heads : used[c][h] = 0
        /\ \A c, h \in Heads : credit[c] = 0 \/ payable[h] = 0 \/ {c, h} = {"cgst", "sgst"}

(* Tax and surcharge, by either engine, never fall as the income rises,    *)
(* and above the rebate they never rise by more than the income does (and *)
(* the paisa of a rounding): relief holds across every threshold.          *)
TaxNeverJumps ==
  request.kind = "tax" =>
    \A lower \in {i \in Incomes : i <= request.income} :
      LET By(tax, surcharge, before, surcharge_before) ==
            LET rise == (tax + surcharge) - (before + surcharge_before)
            IN  /\ rise >= 0
                /\ lower > 7 * Lakh => rise <= request.income - lower + 1
          other == CalculateIncomeTax(lower, request.regime)
          rules == Calculate("2025-26", request.regime, TRUE, lower, 0, 0, 0, 0, 0)
          here == answer.rules
      IN  /\ By(answer.tax.base_tax, answer.tax.surcharge, other.base_tax, other.surcharge)
          /\ By(here.slab_tax - here.rebate, here.surcharge,
                rules.slab_tax - rules.rebate, rules.surcharge)

(* Under 194Q a purchase paid in two parts, the second with the first      *)
(* counted as an earlier purchase, bears the tax of the whole: no paisa    *)
(* more, and at most the one that rounding drops less.                     *)
SplitTaxedAlike ==
  request.kind = "tds" /\ request.section = "194Q" =>
    \A first \in {p \in Payments : p <= request.gross} :
      LET Part(amount, prior) ==
            CalculateTds("194Q", amount, request.pan, prior, request.turnover).tds_amount
          parts == Part(first, request.prior)
                   + Part(request.gross - first, request.prior + first)
      IN  parts <= answer.tds_amount /\ answer.tds_amount <= parts + 1

(* Advance tax that is paid an installment earlier, or in a larger amount, *)
(* never costs more interest, and neither does an earlier return.          *)
EarlierPaymentCostsNoMore ==
  request.kind = "interest" =>
    LET paid == request.paid
        advance == paid[1] + paid[2] + paid[3] + paid[4]
    IN  /\ \A i, j \in 1 .. 4 : i < j =>
             Interest234C(request.total, [paid EXCEPT ![i] = @ + paid[j], ![j] = 0]) <= answer.c
        /\ \A more \in Installs, filed \in Dates :
             (\/ filed.y < request.filed.y
              \/ filed.y = request.filed.y /\ filed.m < request.filed.m
              \/ /\ filed.y = request.filed.y /\ filed.m = request.filed.m
                 /\ filed.d <= request.filed.d)
             => Interest234B(request.total, advance + more, 2026, filed) <= answer.b

(* Every line of books and portal is accounted for once: no target pays    *)
(* for two sources, nothing is dropped, and no pair that could have been   *)
(* matched is left unmatched.  Every purchase of an upload is in one       *)
(* result, no two are matched with one 2B identity, a document whose       *)
(* identity no purchase was matched with is in one result, and none is     *)
(* left for a supplier one of whose purchases is reported missing.  Of     *)
(* several documents of one identity that is matched, no other is shown.   *)
Once(results, side, of) ==
  \A i \in of : Cardinality({r \in DOMAIN results : results[r][side] = i}) = 1

MatchesSettled(matches, books, portal) ==
  LET Alone(side, other) == {matches[m][side] : m \in {m \in DOMAIN matches : matches[m][other] = 0}}
  IN  /\ Once(matches, "source", DOMAIN books) /\ Once(matches, "target", DOMAIN portal)
      /\ \A s \in Alone("source", "target"), t \in Alone("target", "source") :
           ~Admissible(books[s], portal[t], Similar)

UploadSettled(results, purchases, documents) ==
  LET paired == {r \in DOMAIN results : results[r].purchase # 0 /\ results[r].document # 0}
      Key(r) == documents[results[r].document].key
      With(d) == {r \in DOMAIN results : results[r].document = d}
  IN  /\ Once(results, "purchase", DOMAIN purchases)
      /\ \A r, q \in paired : Key(r) = Key(q) => r = q
      /\ \A d \in DOMAIN documents :
           IF \E r \in paired : Key(r) = documents[d].key THEN With(d) \subseteq paired
           ELSE Cardinality(With(d)) = 1
      /\ \A r, q \in DOMAIN results :
           results[r].document = 0 /\ results[q].purchase = 0 =>
             purchases[results[r].purchase].gstin # documents[results[q].document].gstin

LinesAccountedOnce ==
  /\ request.kind = "books" => MatchesSettled(answer.matches, request.books, request.portal)
  /\ request.kind = "upload" /\ answer # <<>> =>
       UploadSettled(answer, request.purchases, ParseGstr2b(request.raws).documents)

(* An invoice whose tax the GST engine computed passes the validation of   *)
(* invoices, but for two: between states validation asks for an IGST that  *)
(* is not zero, also where the tax is zero; and a tax of a single paisa    *)
(* within a state cannot be halved.                                        *)
ComputedTaxPasses ==
  request.kind = "invoice" /\ request.missing = {} =>
    \/ answer.state = "PASSED"
    \/ request.tax = 0 /\ request.interstate /\ answer.findings = {"IGST_REQUIRED"}
    \/ request.tax = 1 /\ ~request.interstate /\ answer.findings = {"CGST_SGST_INCONSISTENT"}

(* What Tally is asked to book, and a purchase that Zoho is, adds up to    *)
(* the paisa although validation tolerates a rupee.                        *)
(* A voucher read back without a mismatch is the one that was approved:    *)
(* every ledger moved by the approved amount, the voucher's largest entry  *)
(* is the approved total, and for a purchase the ledgers that Tally says   *)
(* collect a tax hold, by type, the tax of the proposal.  A Zoho bill that *)
(* an agent may propose passes when Zoho books it as proposed, unless it   *)
(* has a line of no quantity, which is read back as one; a bill that       *)
(* passes holds the approved tax, total and lines, but for lines that cost *)
(* nothing, and an invoice that passes holds the approved total.           *)
VouchersFaithful ==
  /\ request.kind = "draft" =>
       LET exact == request.doc.total = request.doc.taxable + TaxTotal(request.doc)
       IN  /\ answer.tally => exact
           /\ request.of = PURCHASE /\ answer.zoho => exact
  /\ request.kind = "voucher" /\ answer = {} =>
       LET p == request.payload
           v == request.held
           Held(type) == {i \in DOMAIN v.entries : request.types[v.entries[i].ledger] = type}
           Told(type) == {i \in DOMAIN p.gst_details : p.gst_details[i].type = type}
       IN  /\ \A e \in ToSet(v.entries) \cup ToSet(p.entries) :
                BookedOn(e.ledger, v.entries) = BookedOn(e.ledger, p.entries)
           /\ \A e \in ToSet(v.entries) : Abs(e.amount) <= p.total
           /\ p.kind = PURCHASE =>
                \A type \in TaxTypes :
                  SumFunctionOnSet(AmountsOf(v.entries), Held(type))
                    = SumFunctionOnSet(AmountsOf(p.gst_details), Told(type))
  /\ request.kind = "proposal" /\ answer =>
       LET b == request.bill
       IN  CompareBill(b, MapBill(ZohoBooked(ZohoJson(b), b.tax_total))) = {}
             <=> \A i \in DOMAIN b.lines : b.lines[i].quantity # 0
  /\ request.kind = "bill" /\ answer = {} =>
       LET b == request.draft
           z == request.held
       IN  /\ z.total = b.total
           /\ request.of = PURCHASE =>
                /\ z.tax_total = b.tax_total /\ Len(z.lines) = Len(b.lines)
                /\ \A i \in DOMAIN b.lines : z.lines[i] = b.lines[i] \/ b.lines[i].rate = 0
=============================================================================
