----------------------------- MODULE ItrWorkspace -----------------------------
(***************************************************************************)
(* One client's income tax return for one year: sources are added and      *)
(* reconciled, schedules drafted or entered, the workspace approved,       *)
(* packed for filing by hand, and its filing recorded.  Requests are READ  *)
(* COMMITTED transactions; only some of them lock the workspace, and the   *)
(* others read first and write later.                                      *)
(***************************************************************************)
EXTENDS FiniteSets, FiniteSetsExt, Integers

CONSTANTS
  Sources,  \* source documents: [type, version, pan, income, tds, bank]
  Callers,  \* requests under way at one time
  NoHash, NotFiled, Manual

VARIABLES
  taxpayer,    \* the PAN of the workspace
  granted,     \* permissions granted so far
  workspace,   \* status, source_hash, approved_source_hash, stale
  sources,     \* itr_sources
  items,       \* itr_reconciliation_items: the results of reconciliations
  lines,       \* itr_schedule_lines: what was entered, and the sources of what was drafted
  filed,       \* itr_filing_events: by what the return was first set to filed since
               \* its latest approval, or NotFiled
  acknowledged,\* and whether an acknowledgement with evidence came since
  caller       \* what each request has read

itr_vars == <<taxpayer, granted, workspace, sources, items, lines, filed, acknowledged, caller>>

Pans == {s.pan : s \in Sources}
Reconciling == {"REPORTED_INCOME", "TDS", "BANK_CREDITS"}
Resting == [kind |-> "none"]
Calls(q, r) == caller' = [caller EXCEPT ![q] = r]
Answered(q) == Calls(q, Resting)

ItrInit ==
  /\ taxpayer \in Pans /\ granted = {}
  /\ workspace = [status |-> "DATA_REQUIRED", hash |-> NoHash, approved |-> NoHash, stale |-> FALSE]
  /\ sources = {} /\ items = {} /\ lines = {}
  /\ filed = NotFiled /\ acknowledged = FALSE
  /\ caller = [q \in Callers |-> Resting]

(* The table refuses a row that is approved or filed on other sources.     *)
Final == {"APPROVED", "READY_FOR_MANUAL_FILING", "FILED_EXTERNALLY", "COMPLETED"}
Consistent(w) ==
  w.status \in Final => w.approved # NoHash /\ w.approved = w.hash /\ ~w.stale

Update(w) == Consistent(w) /\ workspace' = w

-----------------------------------------------------------------------------
Create ==
  /\ taxpayer' \in Pans \ {taxpayer}
  /\ UNCHANGED <<granted, workspace, sources, items, lines, filed, acknowledged, caller>>

Authorize ==
  /\ \E permissions \in SUBSET {"PREPARE", "APPROVE"} :
       /\ ~(permissions \subseteq granted)
       /\ granted' = granted \cup permissions
  /\ UNCHANGED <<taxpayer, workspace, sources, items, lines, filed, acknowledged, caller>>

(* Faulty variant: the hash is of the sources read before the insertion.   *)
HashBefore(before, s) == before

HashAfter(before, s) == before \cup {s}

(* add_source, under the workspace's lock.                                 *)
AddSource ==
  /\ "PREPARE" \in granted
  /\ \E s \in Sources \ sources :
       LET hash == HashAfter(sources, s)
           moved == workspace.approved # NoHash /\ workspace.approved # hash
       IN  /\ s.pan = taxpayer
           /\ sources' = sources \cup {s}
           /\ Update([workspace EXCEPT !.hash = hash, !.stale = moved,
                        !.status = IF moved THEN "NEEDS_REVIEW" ELSE "DATA_REQUIRED"])
  /\ lines' = {}
  /\ UNCHANGED <<taxpayer, granted, items, filed, acknowledged, caller>>

-----------------------------------------------------------------------------
(* aggregate_sources and reconciliation_pairs.                             *)
Reported(S, types, figure) ==
  MapThenSumSet(LAMBDA s : s[figure], {s \in S : s.type \in types})

Compared(S, left, right, figure) ==
  LET Has(types) == \E s \in S : s.type \in types
      difference == Reported(S, left, figure) - Reported(S, right, figure)
  IN  IF ~Has(left) \/ ~Has(right) THEN "MISSING_EVIDENCE"
      ELSE IF difference \in -100 .. 100 THEN "MATCHED" ELSE "CONFLICT"

Reconciliation(S) ==
  [c \in Reconciling |->
     CASE c = "REPORTED_INCOME" -> Compared(S, {"AIS"}, {"BOOKS"}, "income")
       [] c = "TDS" -> Compared(S, {"26AS"}, {"FORM16", "FORM16A"}, "tds")
       [] c = "BANK_CREDITS" -> Compared(S, {"BANK"}, {"AIS"}, "bank")]

AllMatched(result) == \A c \in Reconciling : result[c] = "MATCHED"
Settled == items # {} /\ \A i \in items : AllMatched(i)

(* reconcile takes no lock: it reads the sources, deletes the results that *)
(* it sees, and inserts its own.                                           *)
ReadSources(q) ==
  /\ caller[q] = Resting /\ "PREPARE" \in granted
  /\ Calls(q, [kind |-> "reconcile", result |-> Reconciliation(sources)])
  /\ UNCHANGED <<taxpayer, granted, workspace, sources, items, lines, filed, acknowledged>>

DeleteItems(q) ==
  /\ caller[q].kind = "reconcile"
  /\ Calls(q, [kind |-> "insert", result |-> caller[q].result, seen |-> items])
  /\ UNCHANGED <<taxpayer, granted, workspace, sources, items, lines, filed, acknowledged>>

CommitReconciliation(q) ==
  /\ caller[q].kind = "insert"
  /\ items' = (items \ caller[q].seen) \cup {caller[q].result}
  /\ Update([workspace EXCEPT !.status =
               IF AllMatched(caller[q].result) THEN "NEEDS_REVIEW" ELSE "DATA_REQUIRED"])
  /\ Answered(q)
  /\ UNCHANGED <<taxpayer, granted, sources, lines, filed, acknowledged>>

(* Lines that are inserted are not the ones that a deletion under way has  *)
(* seen, whatever they say.                                                *)
Unseen(inserted, calls) ==
  [p \in Callers |->
     IF calls[p].kind = "schedules" THEN [calls[p] EXCEPT !.seen = @ \ inserted] ELSE calls[p]]

(* schedules replaces the lines by what the reviewer enters: it takes no   *)
(* lock, deletes the lines that it sees, inserts its own and sets the      *)
(* status.                                                                 *)
DeleteLines(q) ==
  /\ caller[q] = Resting /\ "PREPARE" \in granted
  /\ Calls(q, [kind |-> "schedules", seen |-> lines])
  /\ UNCHANGED <<taxpayer, granted, workspace, sources, items, lines, filed, acknowledged>>

EnterSchedules(q) ==
  /\ caller[q].kind = "schedules"
  /\ \E entered \in SUBSET {Manual} :
       /\ lines' = (lines \ caller[q].seen) \cup entered
       /\ caller' = Unseen(entered, [caller EXCEPT ![q] = Resting])
  /\ Update([workspace EXCEPT !.status = "NEEDS_REVIEW"])
  /\ UNCHANGED <<taxpayer, granted, sources, items, filed, acknowledged>>

(* A line without links to its sources, or with the key of another.        *)
RefuseSchedules(q) ==
  /\ caller[q].kind = "schedules"
  /\ Answered(q)
  /\ UNCHANGED <<taxpayer, granted, workspace, sources, items, lines, filed, acknowledged>>

(* draft, under the workspace's lock.                                      *)
DraftReturn ==
  /\ "PREPARE" \in granted /\ Settled /\ sources # {}
  /\ lines' = {sources}
  /\ caller' = Unseen({sources}, caller)
  /\ Update([workspace EXCEPT !.status = "NEEDS_REVIEW", !.stale = FALSE])
  /\ UNCHANGED <<taxpayer, granted, sources, items, filed, acknowledged>>

-----------------------------------------------------------------------------
CheckApproval(q) ==
  /\ caller[q] = Resting /\ "APPROVE" \in granted
  /\ Settled /\ lines # {}
  /\ Calls(q, [kind |-> "approve"])
  /\ UNCHANGED <<taxpayer, granted, workspace, sources, items, lines, filed, acknowledged>>

Approve(q) ==
  /\ caller[q].kind = "approve"
  /\ workspace.status = "NEEDS_REVIEW" /\ workspace.hash # NoHash
  /\ Update([workspace EXCEPT !.status = "APPROVED", !.approved = workspace.hash, !.stale = FALSE])
  /\ filed' = NotFiled /\ acknowledged' = FALSE
  /\ Answered(q)
  /\ UNCHANGED <<taxpayer, granted, sources, items, lines>>

RefuseApproval(q) ==
  /\ caller[q].kind = "approve"
  /\ workspace.status # "NEEDS_REVIEW" \/ workspace.hash = NoHash
  /\ Answered(q)
  /\ UNCHANGED <<taxpayer, granted, workspace, sources, items, lines, filed, acknowledged>>

ReadForPack(q) ==
  /\ caller[q] = Resting
  /\ workspace.status = "APPROVED" /\ ~workspace.stale
  /\ Calls(q, [kind |-> "pack"])
  /\ UNCHANGED <<taxpayer, granted, workspace, sources, items, lines, filed, acknowledged>>

(* The pack is written whatever the status has become, unless the table    *)
(* refuses the row.                                                        *)
Pack(q) ==
  /\ caller[q].kind = "pack"
  /\ LET packed == [workspace EXCEPT !.status = "READY_FOR_MANUAL_FILING"]
     IN  workspace' = IF Consistent(packed) THEN packed ELSE workspace
  /\ Answered(q)
  /\ UNCHANGED <<taxpayer, granted, sources, items, lines, filed, acknowledged>>

Acceptable(type, evidence) ==
  /\ type = "FILED_EXTERNALLY" => workspace.status = "READY_FOR_MANUAL_FILING"
  /\ type = "ACKNOWLEDGEMENT_UPLOADED" => workspace.status = "FILED_EXTERNALLY" /\ evidence

StatusAfter(type) ==
  CASE type \in {"FILED_EXTERNALLY", "PAYMENT_RECORDED", "E_VERIFIED"} -> "FILED_EXTERNALLY"
    [] type = "REJECTED" -> "REJECTED"
    [] type = "ACKNOWLEDGEMENT_UPLOADED" -> "COMPLETED"

(* event, under the workspace's lock.                                      *)
RecordEvent ==
  /\ \E type \in {"FILED_EXTERNALLY", "PAYMENT_RECORDED", "E_VERIFIED", "REJECTED",
                  "ACKNOWLEDGEMENT_UPLOADED"}, evidence \in BOOLEAN :
       /\ Acceptable(type, evidence)
       /\ Update([workspace EXCEPT !.status = StatusAfter(type)])
       /\ filed' = IF StatusAfter(type) = "FILED_EXTERNALLY" /\ filed = NotFiled THEN type ELSE filed
       /\ acknowledged' = (acknowledged \/ (type = "ACKNOWLEDGEMENT_UPLOADED" /\ evidence))
  /\ UNCHANGED <<taxpayer, granted, sources, items, lines, caller>>

ItrNext ==
  \/ Create \/ Authorize \/ AddSource \/ DraftReturn \/ RecordEvent
  \/ \E q \in Callers :
       \/ ReadSources(q) \/ DeleteItems(q) \/ CommitReconciliation(q)
       \/ DeleteLines(q) \/ EnterSchedules(q) \/ RefuseSchedules(q)
       \/ CheckApproval(q) \/ Approve(q) \/ RefuseApproval(q) \/ ReadForPack(q) \/ Pack(q)

ItrSpec == ItrInit /\ [][ItrNext]_itr_vars

-----------------------------------------------------------------------------
(* A return that is approved, filed or completed rests on the sources that *)
(* the workspace has now and were approved, and lines drafted by the       *)
(* engine are those of the present sources, whatever was entered beside    *)
(* them.  A completed return has, since its latest approval, an            *)
(* acknowledgement with evidence on record and one of the events that set  *)
(* it to filed: a filing, or a payment or verification, which the route    *)
(* accepts without one.                                                    *)
FilingsStand ==
  /\ workspace.status \in Final => workspace.approved = sources
  /\ lines \subseteq {Manual, sources}
  /\ workspace.status = "COMPLETED" =>
       acknowledged /\ filed \in {"FILED_EXTERNALLY", "PAYMENT_RECORDED", "E_VERIFIED"}
=============================================================================
