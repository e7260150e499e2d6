--------------------------- MODULE DocumentReview ---------------------------
(***************************************************************************)
(* An invoice from its upload to the register: ingestion, the reviewer's   *)
(* edits, the drafts prepared for a connector, the approval that binds a   *)
(* draft to a finance action, and the projection of a verified action.     *)
(* Every request is one READ COMMITTED transaction that begins with reads, *)
(* so a request is a step that reads and a later step that writes what it  *)
(* decided then.  The connector that can be chosen is Tally: preparing for *)
(* Zoho imports a name that does not exist, and fails before it writes.    *)
(***************************************************************************)
EXTENDS FiniteSets, Naturals

CONSTANTS
  Documents,   \* files, by their content
  Fields,      \* what the fields of an invoice may say
  ValidFields, \* those that pass deterministic validation
  Providers,   \* connectors that a draft can be prepared for
  Mappings,    \* vendors, ledgers and taxes that a reviewer may choose
  Requests,    \* requests under way at one time
  MaxVersion,  \* bound of the model: versions of one draft
  NoFields, NoPayload

ASSUME ReviewAssumption ==
  /\ ValidFields \subseteq Fields
  /\ MaxVersion \in Nat
  /\ NoFields \notin Fields

(* The idempotency key of an action is its document, provider and payload. *)
Payloads == [document : Documents, provider : Providers,
             fields : Fields, mapping : Mappings]
ASSUME PayloadAssumption == NoPayload \notin Payloads

VARIABLES
  document, \* documents: fields, status, and the file's identity when read
  draft,    \* accounting_drafts, one row per document and provider
  revision, \* accounting_draft_revisions: what was saved, per draft
  action,   \* finance_actions: status and source_version, per payload
  register, \* active rows of the purchase and sales registers
  retired,  \* history: proposals that an edit of their document followed
  overtaken, \* history: drafts posted for an action they were linked to no more
  request   \* what each request has read

drafts == <<draft, revision, overtaken>>
vars == <<document, drafts, action, register, retired, request>>

Idle == [kind |-> "idle"]
Busy(q, r) == request' = [request EXCEPT ![q] = r]
Done(q) == Busy(q, Idle)
NoAction == [status |-> "NONE", version |-> 0]
Pending(p) == action[p].status = "AWAITING_APPROVAL"
Exists(d) == document[d].status # "NONE"
SameKey(d, s) == {p \in Payloads : p.document = d /\ action[p].status \in s}

Init ==
  /\ document = [d \in Documents |->
                   [status |-> "NONE", fields |-> NoFields, identity |-> NoFields, duplicate |-> FALSE]]
  /\ draft = [d \in Documents |-> [v \in Providers |->
                [status |-> "NONE", version |-> 0, payload |-> NoPayload, linked |-> FALSE]]]
  /\ revision = [d \in Documents |-> [v \in Providers |-> {}]]
  /\ action = [p \in Payloads |-> NoAction]
  /\ register = {}
  /\ retired = {}
  /\ overtaken = {}
  /\ request = [q \in Requests |-> Idle]
-----------------------------------------------------------------------------
(* A file that is stored already is answered with its document.            *)
Upload(q, d) ==
  /\ request[q] = Idle
  /\ ~ Exists(d)
  /\ Busy(q, [kind |-> "upload", document |-> d])
  /\ UNCHANGED <<document, drafts, action, register, retired>>

(* A rejected file and a failed extraction raise, and roll back the rows   *)
(* of document_ingestion_runs that were to record them.                    *)
RejectUpload(q) ==
  /\ request[q].kind = "upload"
  /\ Done(q)
  /\ UNCHANGED <<document, drafts, action, register, retired>>

(* The content hash is unique: the second of two uploads of one file fails. *)
StoreUpload(q, f) ==
  /\ request[q].kind = "upload"
  /\ LET d == request[q].document
     IN  IF Exists(d)
         THEN UNCHANGED document
         ELSE document' = [document EXCEPT ![d] =
                [status |-> "PENDING_REVIEW", fields |-> f, identity |-> f,
                 duplicate |-> \E e \in Documents : document[e].identity = f]]
  /\ Done(q)
  /\ UNCHANGED <<drafts, action, register, retired>>
-----------------------------------------------------------------------------
Locking == {"QUEUED", "SUCCEEDED"}
Revise(d, v, p) == revision' = [revision EXCEPT ![d][v] = @ \cup {<<draft'[d][v].version, p>>}]

(* The lock looks only at the action that the draft is linked to now.      *)
ReadForEdit(q, d, f) ==
  /\ request[q] = Idle
  /\ Exists(d)
  /\ \A v \in Providers : draft[d][v].linked => action[draft[d][v].payload].status \notin Locking
  /\ Busy(q, [kind |-> "edit", document |-> d, fields |-> f])
  /\ UNCHANGED <<document, drafts, action, register, retired>>

Reopened(row) ==
  IF row.status \in {"ACTION_PROPOSED", "NEEDS_MAPPING"}
  THEN [status |-> "NEEDS_REVIEW", version |-> row.version + 1, payload |-> NoPayload, linked |-> FALSE]
  ELSE row

(* The edit cancels the linked proposals and reopens the drafts.           *)
UpdateField(q) ==
  /\ request[q].kind = "edit"
  /\ LET d == request[q].document
         linked == {draft[d][v].payload : v \in {w \in Providers : draft[d][w].linked}}
     IN  /\ \A v \in Providers : draft[d][v].version < MaxVersion
         /\ document' = [document EXCEPT ![d].fields = request[q].fields,
                           ![d].status = "PENDING_REVIEW", ![d].duplicate = FALSE]
         /\ action' = [p \in Payloads |->
              IF p \in linked /\ Pending(p) THEN [action[p] EXCEPT !.status = "CANCELLED"] ELSE action[p]]
         /\ draft' = [draft EXCEPT ![d] = [v \in Providers |-> Reopened(@[v])]]
         /\ revision' = [revision EXCEPT ![d] = [v \in Providers |->
              IF draft'[d][v] = draft[d][v] THEN @[v]
              ELSE @[v] \cup {<<draft'[d][v].version, NoPayload>>}]]
         /\ retired' = retired \cup SameKey(d, {"AWAITING_APPROVAL", "CANCELLED"})
  /\ Done(q)
  /\ UNCHANGED <<register, overtaken>>

(* Reject and needs-info do not look at the status they replace.           *)
SetStatus(d, s) ==
  /\ Exists(d)
  /\ s \in {"REJECTED", "NEEDS_INFO"}
  /\ document' = [document EXCEPT ![d].status = s]
  /\ UNCHANGED <<drafts, action, register, retired, request>>
-----------------------------------------------------------------------------
(* Validation is repeated; the findings of the upload are not looked at.   *)
Preparable(d) == Exists(d) /\ document[d].fields \in ValidFields

ReadForProposal(q, d, v, m) ==
  /\ request[q] = Idle
  /\ Preparable(d)
  /\ Busy(q, [kind |-> "map", payload |->
                [document |-> d, provider |-> v, fields |-> document[d].fields, mapping |-> m]])
  /\ UNCHANGED <<document, drafts, action, register, retired>>

(* After the ledgers have been mapped, the version of the draft is read.   *)
ReadVersion(q) ==
  /\ request[q].kind = "map"
  /\ LET p == request[q].payload
     IN  Busy(q, [kind |-> "propose", payload |-> p,
                  version |-> draft[p.document][p.provider].version + 1])
  /\ UNCHANGED <<document, drafts, action, register, retired>>

(* A slip: the version read before the payload was built.                  *)
VersionAsRead(d, v, read) == read

(* The upsert counts the version itself.                                   *)
NextVersion(d, v, read) == draft[d][v].version + 1

SaveDraft(p, status, payload, read) ==
  LET d == p.document  v == p.provider
  IN  /\ draft[d][v].version < MaxVersion
      /\ draft' = [draft EXCEPT ![d][v] =
           [status |-> status, version |-> NextVersion(d, v, read), payload |-> payload,
            linked |-> payload # NoPayload]]
      /\ Revise(d, v, payload)

NeedsMapping(q) ==
  /\ request[q].kind = "propose"
  /\ SaveDraft(request[q].payload, "NEEDS_MAPPING", NoPayload, request[q].version)
  /\ Done(q)
  /\ UNCHANGED <<document, action, register, retired, overtaken>>

(* A payload proposed before keeps its row, in whatever status that is.    *)
ProposeAction(q) ==
  /\ request[q].kind = "propose"
  /\ LET p == request[q].payload
     IN  /\ action' = IF action[p] # NoAction THEN action ELSE
              [action EXCEPT ![p] = [status |-> "AWAITING_APPROVAL", version |-> request[q].version]]
         /\ SaveDraft(p, "ACTION_PROPOSED", p, request[q].version)
  /\ Done(q)
  /\ UNCHANGED <<document, register, retired, overtaken>>
-----------------------------------------------------------------------------
Linked(p) == draft[p.document][p.provider].linked /\ draft[p.document][p.provider].payload = p

(* A draft found by its own id, whatever it is linked to.                  *)
ShownById(p, s) == [draft EXCEPT ![p.document][p.provider].status = s]

(* A draft found by the action it is linked to.                            *)
Shown(p, s) == IF Linked(p) THEN ShownById(p, s) ELSE draft

(* A slip: the version not compared.                                       *)
BoundByPayload(p) == Linked(p)

(* The reviewer's draft must still be the version the action was made for. *)
Bound(p) == Linked(p) /\ draft[p.document][p.provider].version = action[p].version

ReadForApproval(q, p) ==
  /\ request[q] = Idle
  /\ action[p] # NoAction
  /\ Bound(p)
  /\ Busy(q, [kind |-> "approve", payload |-> p, retired |-> p \in retired])
  /\ UNCHANGED <<document, drafts, action, register, retired>>

ApproveAction(q) ==
  /\ request[q].kind = "approve"
  /\ LET p == request[q].payload
     IN  IF Pending(p)
         THEN /\ action' = [action EXCEPT ![p].status = "QUEUED"]
              /\ draft' = Shown(p, "QUEUED")
         ELSE UNCHANGED <<action, draft>>
  /\ Done(q)
  /\ UNCHANGED <<document, revision, overtaken, register, retired>>

(* The report of a verification keeps the action's row locked.             *)
Held(p) == \E q \in Requests : request[q].kind = "project" /\ request[q].payload = p

CancelAction(p) ==
  /\ action[p].status \in {"AWAITING_APPROVAL", "QUEUED"} /\ ~ Held(p)
  /\ action' = [action EXCEPT ![p].status = "CANCELLED"]
  /\ draft' = Shown(p, "CANCELLED")
  /\ UNCHANGED <<document, revision, overtaken, register, retired, request>>

(* The agent's report refuses, or leaves what it found to a person, or     *)
(* verifies what no draft is linked to, which leaves no row.               *)
Execute(p, s) ==
  /\ action[p].status = "QUEUED" /\ ~ Held(p)
  /\ s \in {"FAILED", "NEEDS_REVIEW"} \/ (s = "SUCCEEDED" /\ ~ Linked(p))
  /\ action' = [action EXCEPT ![p].status = s]
  /\ UNCHANGED <<document, drafts, register, retired, request>>

(* The row takes its totals from the draft and its tax heads from the      *)
(* document.                                                               *)
RegisterRow(p) == [payload |-> p, heads |-> document[p.document].fields]

(* The linked draft and its document are read without a lock.              *)
ReadVerified(q, p) ==
  /\ request[q] = Idle
  /\ action[p].status = "QUEUED" /\ ~ Held(p)
  /\ Linked(p)
  /\ Busy(q, [kind |-> "project", payload |-> p, row |-> RegisterRow(p)])
  /\ UNCHANGED <<document, drafts, action, register, retired>>

(* The draft that was read is posted, by its id: by now it may be linked   *)
(* to another proposal, or to none.                                        *)
ProjectVerified(q) ==
  /\ request[q].kind = "project"
  /\ LET p == request[q].payload
         row == <<p.document, p.provider>>
     IN  /\ action' = [action EXCEPT ![p].status = "SUCCEEDED"]
         /\ draft' = ShownById(p, "POSTED")
         /\ overtaken' = IF Linked(p) THEN overtaken \ {row} ELSE overtaken \cup {row}
         /\ register' = register \cup {request[q].row}
         /\ document' = [document EXCEPT ![p.document].status = "POSTED"]
  /\ Done(q)
  /\ UNCHANGED <<revision, retired>>

Next ==
  \/ \E d \in Documents, s \in {"REJECTED", "NEEDS_INFO"} : SetStatus(d, s)
  \/ \E q \in Requests :
       \/ \E d \in Documents : Upload(q, d)
       \/ \E f \in Fields : StoreUpload(q, f)
       \/ \E d \in Documents, f \in Fields : ReadForEdit(q, d, f)
       \/ \E d \in Documents, v \in Providers, m \in Mappings : ReadForProposal(q, d, v, m)
       \/ \E p \in Payloads : ReadForApproval(q, p) \/ ReadVerified(q, p)
       \/ RejectUpload(q) \/ UpdateField(q) \/ ReadVersion(q) \/ NeedsMapping(q)
       \/ ProposeAction(q) \/ ApproveAction(q) \/ ProjectVerified(q)
  \/ \E p \in Payloads :
       \/ CancelAction(p)
       \/ \E s \in {"FAILED", "NEEDS_REVIEW", "SUCCEEDED"} : Execute(p, s)

Spec == Init /\ [][Next]_vars
-----------------------------------------------------------------------------
(* One type invariant of the rows.                                         *)
TypeOK ==
  /\ \A d \in Documents :
       /\ document[d].status \in {"NONE", "PENDING_REVIEW", "NEEDS_INFO", "REJECTED", "POSTED"}
       /\ document[d].fields \in Fields \cup {NoFields}
       /\ \A v \in Providers : /\ draft[d][v].version \in 0 .. MaxVersion
                               /\ draft[d][v].payload \in Payloads \cup {NoPayload}
  /\ retired \subseteq Payloads
  /\ \A q \in Requests : request[q].kind \in {"idle", "upload", "edit", "map", "propose", "approve", "project"}

(* An approval that began after an edit of the document cannot go through  *)
(* for what was proposed before the edit, even when the fields return to   *)
(* their old values and the proposal is prepared again: approve_action.    *)
EditsRetireProposals ==
  \A q \in Requests :
     request[q].kind = "approve" /\ request[q].retired => ~ Pending(request[q].payload)

(* A version of a draft names one payload: the revisions are an audit      *)
(* trail although proposals and edits of one document overlap.             *)
RevisionsNameOnePayload ==
  \A d \in Documents, v \in Providers : \A r, s \in revision[d][v] : r[1] = s[1] => r = s

(* A draft is shown as queued or cancelled only while the action it is     *)
(* linked to was approved or cancelled, and as posted only when the        *)
(* register has a row of the draft for an action that was carried out:     *)
(* the action it is linked to, unless it was linked to another, or to      *)
(* none, between the projection's read of it and its write.                *)
DraftsFollowActions ==
  \A d \in Documents, v \in Providers :
     LET row == draft[d][v]
         of(s) == row.linked /\ action[row.payload].status \in s
     IN  /\ row.status = "QUEUED" => of({"QUEUED", "FAILED", "NEEDS_REVIEW"})
         /\ row.status = "CANCELLED" => of({"CANCELLED"})
         /\ row.status = "POSTED" =>
              /\ \E r \in register : /\ r.payload.document = d /\ r.payload.provider = v
                                      /\ action[r.payload].status = "SUCCEEDED"
              /\ of({"SUCCEEDED"}) \/ <<d, v>> \in overtaken
=============================================================================
