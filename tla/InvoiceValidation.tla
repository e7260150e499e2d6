-------------------------- MODULE InvoiceValidation --------------------------
(***************************************************************************)
(* The checks on one invoice, as the set of codes that they find, and the  *)
(* readers that turn uploaded rows into documents and bank transactions.   *)
(***************************************************************************)
EXTENDS Integers, SequencesExt, Subsequences

-----------------------------------------------------------------------------
(***************************************************************************)
(* validate_invoice.  A party is NoParty or [valid, state]; age is how     *)
(* many days ago the invoice is dated; a line is [quantity, rate, amount]. *)
(***************************************************************************)
NoParty == [valid |-> TRUE, state |-> 0]
Unread == 99999        \* the age of an unreadable date
UnknownState == -1     \* a place of supply that names no state
Gap(a, b) == IF a < b THEN b - a ELSE a - b

DateFindings(d) ==
  CASE d.age = Unread -> {"INVOICE_DATE_INVALID"}
    [] d.age < 0 -> {"INVOICE_DATE_FUTURE"}
    [] d.age > 366 * 8 /\ d.age # Unread -> {"INVOICE_DATE_OLD"}
    [] OTHER -> {}

PartyFindings(d) ==
  {c \in {"GSTIN_INVALID"} : ~d.supplier.valid}
    \cup {c \in {"CLIENT_GSTIN_INVALID"} : ~d.client.valid}
    \cup {c \in {"PAN_INVALID"} : ~d.pan_valid}

(* Faulty variant: the supply is taken to be where the supplier is.        *)
PlaceOfSupplier(d) == IF d.place = 0 THEN d.supplier.state ELSE d.place

PlaceOfSupply(d) == IF d.place = 0 THEN d.client.state ELSE d.place

PlaceFindings(d) ==
  LET place == PlaceOfSupply(d)
      interstate == d.supplier.state # place
  IN  IF d.supplier = NoParty \/ d.client = NoParty THEN {}
      ELSE IF place = UnknownState THEN {"PLACE_OF_SUPPLY_INVALID"}
      ELSE {c \in {"IGST_REQUIRED"} : interstate /\ d.igst = 0}
             \cup {c \in {"CGST_SGST_REQUIRED"} : ~interstate /\ d.igst # 0}

TaxFindings(d) ==
  {c \in {"CGST_SGST_INCONSISTENT"} :
       \/ (d.cgst = 0) # (d.sgst = 0)
       \/ Gap(d.cgst, d.sgst) > 100}
    \cup {c \in {"MIXED_GST_COMPONENTS"} : d.igst # 0 /\ (d.cgst # 0 \/ d.sgst # 0)}

LineFindings(d) ==
  LET sum == SumFunction([i \in DOMAIN d.lines |-> d.lines[i].amount])
  IN  IF d.lines = <<>> THEN {"LINE_ITEMS_REQUIRED"}
      ELSE {c \in {"LINE_ARITHMETIC_MISMATCH"} : \E i \in DOMAIN d.lines :
              Gap(d.lines[i].quantity * d.lines[i].rate, d.lines[i].amount) > 100}
             \cup {c \in {"LINE_TOTAL_MISMATCH"} : Gap(sum, d.taxable) > 100}

ValidateInvoice(d) ==
  LET first == PartyFindings(d) \cup DateFindings(d)
      expected == d.taxable + d.cgst + d.sgst + d.igst + d.other
  IN  IF ~d.money_valid THEN first \cup {"MONEY_INVALID"}
      ELSE first
             \cup {c \in {"TOTAL_MISMATCH"} : Gap(expected, d.total) > 100}
             \cup TaxFindings(d) \cup PlaceFindings(d) \cup LineFindings(d)
             \cup {c \in {"CREDIT_NOTE_SIGN"} : ~ (d.total < 0 <=> d.credit_note)}
             \cup {c \in {"CURRENCY_UNSUPPORTED"} : ~d.inr}

(* The required fields of a sale: missing is the set of the empty ones.    *)
ValidateSalesInvoice(d, missing) ==
  ValidateInvoice(d)
    \cup {c \in {"CUSTOMER_NAME_REQUIRED"} : "customer_name" \in missing}
    \cup {c \in {"INVOICE_NUMBER_REQUIRED"} : "invoice_number" \in missing}
    \cup {c \in {"PLACE_OF_SUPPLY_STATE_REQUIRED"} : "place_of_supply_state" \in missing}

ValidationState(findings) ==
  IF findings \ {"INVOICE_DATE_OLD"} # {} THEN "FAILED"
  ELSE IF findings # {} THEN "WARNING" ELSE "PASSED"

-----------------------------------------------------------------------------
(***************************************************************************)
(* Readers.  A row of a bank statement is [date, description, debit,       *)
(* credit, amount, balance], with no negative debit or credit; a date      *)
(* outside 1..31 cannot be read, and 0 is none.                            *)
(***************************************************************************)
Transaction(row) ==
  LET net == IF row.debit # 0 \/ row.credit # 0 THEN row.credit - row.debit ELSE row.amount
  IN  [date |-> row.date, balance |-> row.balance, amount |-> Gap(net, 0),
       txn_type |-> IF net > 0 THEN "CREDIT" ELSE "DEBIT"]

StatementRows(rows) ==
  LET kept == SelectSeq(rows, LAMBDA r : r.date # 0 /\ r.description)
  IN  [i \in DOMAIN kept |-> Transaction(kept[i])]

(* The positions at which the balance breaks by more than a rupee.         *)
BalanceBreaks(txns) ==
  LET Expected(i) == txns[i - 1].balance
                     + (IF txns[i].txn_type = "CREDIT" THEN txns[i].amount ELSE -txns[i].amount)
  IN  IF txns = <<>> \/ txns[1].balance = 0 THEN {}
      ELSE {i \in 2 .. Len(txns) : Gap(Expected(i), txns[i].balance) > 100}

(* parse_bank_statement: an error code, or the statement.                  *)
ParseBankStatement(rows, supported) ==
  LET txns == StatementRows(rows)
      dates == {txns[i].date : i \in DOMAIN txns}
      balances == SelectSeq(txns, LAMBDA t : t.balance # 0)
  IN  CASE ~supported -> [error |-> "UNSUPPORTED_FORMAT"]
        [] supported /\ txns = <<>> -> [error |-> "BANK_PARSE_FAILED"]
        [] supported /\ txns # <<>> /\ ~(dates \subseteq 1 .. 31) -> [error |-> "INVALID_BANK_DATE"]
        [] OTHER ->
             [error |-> "", transactions |-> txns,
              period |-> <<Min(dates), Max(dates)>>,
              closing |-> IF balances = <<>> THEN 0 ELSE Last(balances).balance,
              breaks |-> BalanceBreaks(txns)]

(***************************************************************************)
(* parse_gstr2b_json.  A raw document is [section, gstin, number, date,    *)
(* total, items, original]; Blank is an empty field.  Documents are read   *)
(* one section after the other.                                            *)
(***************************************************************************)
Blank == "blank"

Identity(gstin, number, date, type) == <<gstin, number, date, type>>

DocumentOf(raw) ==
  LET type == IF raw.section \in {"b2b", "b2ba"} THEN "INVOICE" ELSE "CREDIT_NOTE"
      key == Identity(raw.gstin, raw.number, raw.date, type)
  IN  [key |-> key, gstin |-> raw.gstin, number |-> raw.number, date |-> raw.date,
       type |-> type, total |-> raw.total, amends |-> raw.original # Blank,
       taxable |-> SumFunction([i \in DOMAIN raw.items |-> raw.items[i].taxable]),
       tax |-> SumFunction([i \in DOMAIN raw.items |-> raw.items[i].tax])]

ParseGstr2b(raws) ==
  LET Under(section) == Kept(raws, {i \in DOMAIN raws : raws[i].section = section})
      sorted == ((Under("b2b") \o Under("b2ba")) \o Under("cdnr")) \o Under("cdnra")
      documents == [i \in DOMAIN sorted |-> DocumentOf(sorted[i])]
  IN  IF \E i \in DOMAIN raws : raws[i].gstin = Blank \/ raws[i].number = Blank
        THEN [error |-> "INVALID_GSTR2B_DOCUMENT"]
      ELSE IF raws = <<>> THEN [error |-> "EMPTY_GSTR2B"]
      ELSE [error |-> "", documents |-> documents,
            totals |-> [taxable |-> SumFunction([i \in DOMAIN documents |-> documents[i].taxable]),
                        tax |-> SumFunction([i \in DOMAIN documents |-> documents[i].tax]),
                        total |-> SumFunction([i \in DOMAIN documents |-> documents[i].total])]]
=============================================================================
