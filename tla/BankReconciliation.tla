-------------------------- MODULE BankReconciliation --------------------------
(***************************************************************************)
(* A bank statement from its upload to the proof that it is reconciled:    *)
(* candidates suggested for its transactions, the reviewers' decisions,    *)
(* posting proposals and proofs.  A request is one READ COMMITTED          *)
(* transaction; one that updates several rows locks them one at a time.    *)
(***************************************************************************)
EXTENDS FiniteSets, Functions, Integers

CONSTANTS
  Transactions, \* transactions of the statement
  Amount,       \* the amount of each transaction: its credit or its debit
  Books,        \* entries of the registers
  Scored,       \* pairs of a transaction and an entry that score_candidates keeps
  Postings,     \* types of action that a transaction may be posted by
  Reviewers,    \* requests under way at one time
  MaxProofs,    \* bound of the model: proofs of the statement
  NoCandidate

ASSUME BankAssumption ==
  /\ IsFiniteSet(Transactions) /\ IsFiniteSet(Books)
  /\ Amount \in [Transactions -> Int]
  /\ Scored \subseteq Transactions \X Books
  /\ MaxProofs \in Nat

VARIABLES
  statement, \* whether bank_statements has the uploaded file
  evidence,  \* how often the file is in private storage
  books,     \* entries posted so far
  candidate, \* bank_match_candidates: the status of each pair
  posting,   \* the candidate named by a transaction's proposed action of each type
  proofs,    \* bank_reconciliation_proofs
  late,      \* history: transactions that got a candidate while one was being accepted
  reviewer   \* what each request has read and locked

bank_vars == <<statement, evidence, books, candidate, posting, proofs, late, reviewer>>

Away == [kind |-> "none"]
Asks(q, r) == reviewer' = [reviewer EXCEPT ![q] = r]
Leaves(q) == Asks(q, Away)
Present(row) == candidate[row] # "NONE"
Rivals(row) == {r \in Scored : r[1] = row[1] /\ r # row /\ Present(r)}

BankInit ==
  /\ statement = FALSE /\ evidence = 0
  /\ books = {} /\ candidate = [row \in Scored |-> "NONE"]
  /\ posting = [t \in Transactions |-> [type \in Postings |-> NoCandidate]]
  /\ proofs = {} /\ late = {}
  /\ reviewer = [q \in Reviewers |-> Away]

-----------------------------------------------------------------------------
(* upload_bank_statement stores the file before it inserts the statement.  *)
StoreUpload(q) ==
  /\ reviewer[q] = Away /\ ~statement /\ evidence < Cardinality(Reviewers)
  /\ evidence' = evidence + 1
  /\ Asks(q, [kind |-> "upload"])
  /\ UNCHANGED <<statement, books, candidate, posting, proofs, late>>

(* The index on the file's hash refuses the second of two uploads.         *)
CommitUpload(q) ==
  /\ reviewer[q].kind = "upload"
  /\ statement' = TRUE
  /\ Leaves(q)
  /\ UNCHANGED <<evidence, books, candidate, posting, proofs, late>>

(* An entry reaches a register.                                            *)
PostEntry(b) ==
  /\ b \notin books
  /\ books' = books \cup {b}
  /\ UNCHANGED <<statement, evidence, candidate, posting, proofs, late, reviewer>>

ReadBooks(q) ==
  /\ reviewer[q] = Away /\ statement
  /\ Asks(q, [kind |-> "generate", books |-> books])
  /\ UNCHANGED <<statement, evidence, books, candidate, posting, proofs, late>>

Deciding(t) ==
  \E q \in Reviewers : reviewer[q].kind = "decide" /\ reviewer[q].row[1] = t

InsertCandidates(q) ==
  /\ reviewer[q].kind = "generate"
  /\ LET new == {row \in Scored : row[2] \in reviewer[q].books /\ ~Present(row)}
     IN  /\ candidate' = [row \in Scored |-> IF row \in new THEN "SUGGESTED" ELSE candidate[row]]
         /\ late' = late \cup {row[1] : row \in {r \in new : Deciding(r[1])}}
  /\ Leaves(q)
  /\ UNCHANGED <<statement, evidence, books, posting, proofs>>

-----------------------------------------------------------------------------
(* Faulty variant: a decision touches no other candidate.                  *)
RejectsNone(row, status) == {}

RejectedBy(row, status) == IF status = "ACCEPTED" THEN Rivals(row) ELSE {}

(* decide_candidate: its first update finds the rows to reject, and locks  *)
(* them in some order; its second locks the candidate's own.               *)
Decide(q) ==
  /\ reviewer[q] = Away
  /\ \E row \in Scored, status \in {"ACCEPTED", "REJECTED"} :
       /\ Present(row)
       /\ Asks(q, [kind |-> "decide", row |-> row, status |-> status,
                   rejects |-> RejectedBy(row, status), held |-> {}])
  /\ UNCHANGED <<statement, evidence, books, candidate, posting, proofs, late>>

Awaited(q) ==
  LET r == reviewer[q]
  IN  IF r.kind # "decide" THEN {}
      ELSE IF r.rejects \ r.held # {} THEN r.rejects \ r.held
      ELSE {r.row} \ r.held

HeldBy(q) == IF reviewer[q].kind = "decide" THEN reviewer[q].held ELSE {}

LockRow(q) ==
  /\ \E row \in Awaited(q) :
       /\ \A p \in Reviewers \ {q} : row \notin HeldBy(p)
       /\ Asks(q, [reviewer[q] EXCEPT !.held = @ \cup {row}])
  /\ UNCHANGED <<statement, evidence, books, candidate, posting, proofs, late>>

CommitDecision(q) ==
  /\ reviewer[q].kind = "decide" /\ Awaited(q) = {}
  /\ candidate' = [row \in Scored |->
       IF row = reviewer[q].row THEN reviewer[q].status
       ELSE IF row \in reviewer[q].rejects THEN "REJECTED" ELSE candidate[row]]
  /\ Leaves(q)
  /\ UNCHANGED <<statement, evidence, books, posting, proofs, late>>

(* Two decisions that wait for each other: PostgreSQL aborts one.          *)
AbortDecision(q) ==
  /\ \E p \in Reviewers \ {q} : Awaited(q) \cap HeldBy(p) # {} /\ Awaited(p) \cap HeldBy(q) # {}
  /\ Leaves(q)
  /\ UNCHANGED <<statement, evidence, books, candidate, posting, proofs, late>>

-----------------------------------------------------------------------------
(* propose_posting, under the idempotency key of the transaction and the   *)
(* type of its action: a later proposal of that type returns the first.    *)
ReadAccepted(q) ==
  /\ reviewer[q] = Away
  /\ \E row \in Scored : candidate[row] = "ACCEPTED" /\ Asks(q, [kind |-> "posting", row |-> row])
  /\ UNCHANGED <<statement, evidence, books, candidate, posting, proofs, late>>

ProposePosting(q) ==
  /\ reviewer[q].kind = "posting"
  /\ LET row == reviewer[q].row
     IN  \E type \in Postings :
           posting' = [posting EXCEPT ![row[1]][type] = IF @ = NoCandidate THEN row ELSE @]
  /\ Leaves(q)
  /\ UNCHANGED <<statement, evidence, books, candidate, proofs, late>>

(* create_proof sums over the transactions joined with their accepted      *)
(* candidates: a transaction counts once for each, and once for none.      *)
Total == SumFunction(Amount)
Accepted == {row \in Scored : candidate[row] = "ACCEPTED"}
Matched == SumFunctionOnSet([row \in Scored |-> Amount[row[1]]], Accepted)
Unmatched ==
  SumFunctionOnSet(Amount, {t \in Transactions : \A row \in Accepted : row[1] # t})

ReadTotals(q) ==
  /\ reviewer[q] = Away /\ statement /\ Cardinality(proofs) < MaxProofs
  /\ \E complete \in BOOLEAN :
       /\ complete => Unmatched = 0
       /\ Asks(q, [kind |-> "proof", matched |-> Matched, unmatched |-> Unmatched,
                   completed |-> complete, late |-> late # {}])
  /\ UNCHANGED <<statement, evidence, books, candidate, posting, proofs, late>>

CreateProof(q) ==
  /\ reviewer[q].kind = "proof"
  /\ LET r == reviewer[q]
     IN  proofs' = proofs \cup
           {[version |-> Cardinality(proofs) + 1, matched |-> r.matched, unmatched |-> r.unmatched,
             completed |-> r.completed, late |-> r.late]}
  /\ Leaves(q)
  /\ UNCHANGED <<statement, evidence, books, candidate, posting, late>>

BankNext ==
  \/ \E b \in Books : PostEntry(b)
  \/ \E q \in Reviewers :
       \/ StoreUpload(q) \/ CommitUpload(q) \/ ReadBooks(q) \/ InsertCandidates(q)
       \/ Decide(q) \/ LockRow(q) \/ CommitDecision(q) \/ AbortDecision(q)
       \/ ReadAccepted(q) \/ ProposePosting(q) \/ ReadTotals(q) \/ CreateProof(q)

BankSpec == BankInit /\ [][BankNext]_bank_vars

-----------------------------------------------------------------------------
(* However the reviewers' decisions interleave, a transaction is accepted  *)
(* against one entry: the row locks serialise two acceptances or make one  *)
(* of them a deadlock's victim.  The exception is a candidate that is      *)
(* inserted while another is being accepted, which no lock covers.  So a   *)
(* proof counts every transaction of the statement once.                   *)
AcceptedOnce ==
  /\ \A r, s \in Scored :
       (candidate[r] = "ACCEPTED" /\ candidate[s] = "ACCEPTED" /\ r[1] = s[1] /\ r # s)
         => r[1] \in late
  /\ \A p \in proofs : p.late \/ p.matched + p.unmatched = Total
=============================================================================
