------------------------------ MODULE Matching ------------------------------
(***************************************************************************)
(* The three matchers: books against a portal (reconcile), purchases       *)
(* against GSTR-2B documents (match_gstr2b), and one bank transaction      *)
(* against book entries (score_candidates).                                *)
(***************************************************************************)
EXTENDS Integers, SequencesExt, Subsequences

None == "none"   \* an empty field, and no counterpart
AMOUNT_TOLERANCE_PAISE == 100
FUZZY_THRESHOLD == 75
DATE_TOLERANCE_DAYS == 5

Apart(a, b) == IF a < b THEN b - a ELSE a - b

(* The first of the positions that have a score whose score is the highest. *)
FirstBest(score) ==
  CHOOSE i \in DOMAIN score :
    \A j \in DOMAIN score : score[j] < score[i] \/ (score[j] = score[i] /\ i <= j)

-----------------------------------------------------------------------------
(***************************************************************************)
(* reconcile.  A line is [party, gstin, ref, amount]; names[<<a, b>>] is   *)
(* what the fuzzy comparison of two parties returns, 0 to 100.  Scores are *)
(* in millionths, so that a keyed match has 1000000.                       *)
(***************************************************************************)
KeyMatch(src, tgt) ==
  /\ src.gstin # None /\ src.gstin = tgt.gstin
  /\ src.ref # None /\ src.ref = tgt.ref

Admissible(src, tgt, names) ==
  \/ KeyMatch(src, tgt)
  \/ /\ Apart(src.amount, tgt.amount) <= AMOUNT_TOLERANCE_PAISE
     /\ names[<<src.party, tgt.party>>] >= FUZZY_THRESHOLD

Combined(src, tgt, names) ==
  IF KeyMatch(src, tgt) THEN 1000000
  ELSE names[<<src.party, tgt.party>>] * 6000
       + (10000 - Apart(src.amount, tgt.amount)) * 40

Match(s, t, status, flag) == [source |-> s, target |-> t, status |-> status, flag |-> flag]

(* Faulty variant: the target of a match stays open for the next source.   *)
Forgotten(taken, t) == taken

Taken(taken, t) == taken \cup {t}

(* What the s-th source adds to a run: [taken, matches].                   *)
MatchSource(run, s, sources, targets, names) ==
  LET src == sources[s]
      open == {t \in DOMAIN targets \ run.taken : Admissible(src, targets[t], names)}
      score == [t \in open |-> Combined(src, targets[t], names)]
      best == FirstBest(score)
  IN  IF open = {} THEN [run EXCEPT !.matches = Append(@, Match(s, 0, "UNMATCHED", None))]
      ELSE [taken |-> Taken(run.taken, best),
            matches |-> Append(run.matches,
              Match(s, best, IF score[best] >= 800000 THEN "AUTO_MATCHED" ELSE "SUGGESTED",
                    IF Apart(src.amount, targets[best].amount) > AMOUNT_TOLERANCE_PAISE
                      THEN "AMOUNT_MISMATCH" ELSE None))]

Reconcile(sources, targets, names) ==
  LET after[s \in 0 .. Len(sources)] ==
        IF s = 0 THEN [taken |-> {}, matches |-> <<>>]
        ELSE MatchSource(after[s - 1], s, sources, targets, names)
      run == after[Len(sources)]
      rest == InOrder(DOMAIN targets \ run.taken, Len(targets))
  IN  run.matches \o [i \in DOMAIN rest |->
        Match(0, rest[i], "UNMATCHED", "PORTAL_ENTRY_NOT_IN_BOOKS")]

(* The number of matches with a status, and their total: the source's      *)
(* amount, or the target's when there is no source.                        *)
Summary(matches, sources, targets) ==
  [status \in {"AUTO_MATCHED", "SUGGESTED", "UNMATCHED"} |->
     LET of == {i \in DOMAIN matches : matches[i].status = status}
         Amount(i) == IF matches[i].source # 0 THEN sources[matches[i].source].amount
                      ELSE targets[matches[i].target].amount
     IN  [count |-> Cardinality(of), total |-> MapThenSumSet(Amount, of)]]

-----------------------------------------------------------------------------
(***************************************************************************)
(* match_gstr2b.  A purchase is [gstin, number, date, amount], a document  *)
(* [key, gstin, number, date, total, type, amends]; a date is a day number *)
(* and Unreadable a purchase's date that cannot be parsed.                 *)
(***************************************************************************)
Unreadable == -1

Bucket(purchase, document, same, duplicated) ==
  LET value == document.total - purchase.amount
      days == IF purchase.date = Unreadable THEN 0 ELSE document.date - purchase.date
  IN  CASE duplicated -> "DUPLICATE"
        [] ~duplicated /\ (document.amends \/ document.type # "INVOICE") ->
             "AMENDMENT_CREDIT_NOTE"
        [] OTHER ->
             IF ~same THEN "MANUAL_REVIEW"
             ELSE IF value = 0 /\ days = 0 THEN "EXACT"
             ELSE IF /\ Apart(value, 0) <= AMOUNT_TOLERANCE_PAISE
                     /\ Apart(days, 0) <= DATE_TOLERANCE_DAYS
             THEN "PROBABLE" ELSE "MISMATCH"

Occurrences(documents, key) == Cardinality({d \in DOMAIN documents : documents[d].key = key})

(* What one purchase adds to a run: [used, results].                       *)
MatchPurchase(run, p, purchases, documents, claimed) ==
  LET purchase == purchases[p]
      candidates == {d \in DOMAIN documents : /\ documents[d].key \notin run.used
                                              /\ documents[d].gstin = purchase.gstin}
      same == {d \in candidates : documents[d].number = purchase.number}
      pool == IF same = {} THEN candidates ELSE same
      d == FirstBest([i \in pool |-> -Apart(documents[i].total, purchase.amount)])
      key == documents[d].key
  IN  IF pool = {}
        THEN [run EXCEPT !.results = Append(@,
               [purchase |-> p, document |-> 0, bucket |-> "MISSING_IN_2B", warned |-> FALSE])]
        ELSE [used |-> Taken(run.used, key),
              results |-> Append(run.results,
                [purchase |-> p, document |-> d,
                 bucket |-> Bucket(purchase, documents[d], same # {},
                                   Occurrences(documents, key) > 1),
                 warned |-> key \in claimed])]

MatchGstr2b(purchases, documents, claimed) ==
  LET after[p \in 0 .. Len(purchases)] ==
        IF p = 0 THEN [used |-> {}, results |-> <<>>]
        ELSE MatchPurchase(after[p - 1], p, purchases, documents, claimed)
      run == after[Len(purchases)]
      rest == InOrder({d \in DOMAIN documents : documents[d].key \notin run.used}, Len(documents))
  IN  run.results \o [i \in DOMAIN rest |->
        [purchase |-> 0, document |-> rest[i], warned |-> FALSE,
         bucket |-> IF Occurrences(documents, documents[rest[i]].key) > 1
                      THEN "DUPLICATE" ELSE "MISSING_IN_BOOKS"]]

-----------------------------------------------------------------------------
(***************************************************************************)
(* score_candidates, in percent: the candidates that more than the amount  *)
(* speaks for.  Tokens of three letters or more are members of a set.      *)
(***************************************************************************)
BankScore(transaction, candidate) ==
  LET overlap == Cardinality(transaction.tokens \cap candidate.tokens)
      shared == IF overlap > 3 THEN 35 ELSE 10 * overlap
  IN  45 + (IF Apart(candidate.date, transaction.date) <= 3 THEN 20 ELSE 0) + shared

ScoreCandidates(transaction, candidates) ==
  {[candidate |-> c, score |-> BankScore(transaction, c)] :
     c \in {c \in candidates : /\ Apart(c.amount, transaction.amount) <= AMOUNT_TOLERANCE_PAISE
                               /\ BankScore(transaction, c) > 45}}
=============================================================================
