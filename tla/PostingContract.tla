--------------------------- MODULE PostingContract ---------------------------
(***************************************************************************)
(* What the finance-action spine promises a firm about an accounting       *)
(* document that it posts to a provider's books, whatever queue, worker or *)
(* connector carries the posting out:                                      *)
(*   - a document is posted only after a person approved the action, never *)
(*     after the action was cancelled or handed back, and at most once per *)
(*     provider reference;                                                 *)
(*   - success is announced only for a document that is in the books;      *)
(*   - a cancellation, a success and a hand-over are final.                *)
(***************************************************************************)
EXTENDS Naturals

CONSTANTS Actions, References, Ref

VARIABLES
  decision,  \* what people decided about each action
  outcome,   \* what the system announced about each action
  posted     \* number of documents in the books under each reference

vars == <<decision, outcome, posted>>

TypeOK ==
  /\ decision \in [Actions -> {"undecided", "approved", "cancelled"}]
  /\ outcome \in [Actions -> {"open", "verified", "handed_over"}]
  /\ posted \in [References -> Nat]

Init ==
  /\ decision = [a \in Actions |-> "undecided"]
  /\ outcome = [a \in Actions |-> "open"]
  /\ posted = [r \in References |-> 0]

Approve(a) ==
  /\ decision[a] = "undecided"
  /\ decision' = [decision EXCEPT ![a] = "approved"]
  /\ UNCHANGED <<outcome, posted>>

Cancel(a) ==
  /\ decision[a] # "cancelled"
  /\ outcome[a] = "open"
  /\ decision' = [decision EXCEPT ![a] = "cancelled"]
  /\ UNCHANGED <<outcome, posted>>

(* The document reaches the books.                                         *)
Post(a) ==
  /\ decision[a] = "approved"
  /\ outcome[a] = "open"
  /\ posted[Ref[a]] = 0
  /\ posted' = [posted EXCEPT ![Ref[a]] = 1]
  /\ UNCHANGED <<decision, outcome>>

Verify(a) ==
  /\ decision[a] = "approved"
  /\ outcome[a] = "open"
  /\ posted[Ref[a]] = 1
  /\ outcome' = [outcome EXCEPT ![a] = "verified"]
  /\ UNCHANGED <<decision, posted>>

HandOver(a) ==
  /\ decision[a] = "approved"
  /\ outcome[a] = "open"
  /\ outcome' = [outcome EXCEPT ![a] = "handed_over"]
  /\ UNCHANGED <<decision, posted>>

Next ==
  \E a \in Actions : Approve(a) \/ Cancel(a) \/ Post(a) \/ Verify(a) \/ HandOver(a)

Spec == Init /\ [][Next]_vars
=============================================================================
