----------------------- MODULE DocumentReview_proofs -----------------------
(* Proofs about DocumentReview: what holds for every number of documents,  *)
(* connectors and requests, and every order of their steps.                *)
EXTENDS DocumentReview, TLAPS

Row == [status : {"NONE", "NEEDS_REVIEW", "NEEDS_MAPPING", "ACTION_PROPOSED", "QUEUED", "POSTED", "CANCELLED"},
        version : Nat, payload : Payloads \cup {NoPayload}, linked : BOOLEAN]
Stage == {"NONE", "AWAITING_APPROVAL", "QUEUED", "SUCCEEDED", "CANCELLED", "FAILED", "NEEDS_REVIEW"}

(* The rows, and what a request carries from its read to its write.        *)
RowTypes ==
  /\ draft \in [Documents -> [Providers -> Row]]
  /\ action \in [Payloads -> [status : Stage, version : Nat]]
  /\ DOMAIN revision = Documents
  /\ \A d \in Documents : DOMAIN revision[d] = Providers
  /\ retired \subseteq Payloads
  /\ DOMAIN request = Requests
RequestTypes ==
  \A q \in Requests :
    /\ request[q].kind = "edit" => request[q].document \in Documents
    /\ request[q].kind \in {"map", "propose", "approve", "project"} => request[q].payload \in Payloads
    /\ request[q].kind = "propose" => request[q].version \in Nat
TypeInv == RowTypes /\ RequestTypes

(* What is written over a row of a draft is such a row.                    *)
LEMMA RowUpdates ==
  ASSUME NEW r \in Row, NEW s \in {"QUEUED", "POSTED", "CANCELLED"}
  PROVE  /\ [r EXCEPT !.status = s] \in Row
         /\ [r EXCEPT !.status = s].status = s
         /\ [r EXCEPT !.status = s].version = r.version
         /\ [r EXCEPT !.status = s].payload = r.payload
         /\ [r EXCEPT !.status = s].linked = r.linked
BY DEF Row

(* Reopening leaves a row as it is, or unlinks it as its next version.     *)
LEMMA ReopenedRows ==
  ASSUME NEW r \in Row
  PROVE  /\ Reopened(r) \in Row
         /\ Reopened(r) = r \/ (Reopened(r).version = r.version + 1 /\ ~ Reopened(r).linked
                                /\ Reopened(r).status = "NEEDS_REVIEW")
         /\ r.status = "ACTION_PROPOSED" => ~ Reopened(r).linked
BY DEF Row, Reopened

(* Showing a state changes the status of one row, and nothing else.        *)
LEMMA ShownByIdRows ==
  ASSUME RowTypes, NEW p \in Payloads, NEW s \in {"QUEUED", "POSTED", "CANCELLED"}, draft' = ShownById(p, s)
  PROVE  /\ draft' \in [Documents -> [Providers -> Row]]
         /\ \A d \in Documents, v \in Providers :
              /\ draft'[d][v].version = draft[d][v].version
              /\ draft'[d][v].payload = draft[d][v].payload
              /\ draft'[d][v].linked = draft[d][v].linked
              /\ draft'[d][v] = draft[d][v] \/ (d = p.document /\ v = p.provider)
         /\ draft'[p.document][p.provider].status = s
<1>. DEFINE d == p.document  v == p.provider
            row == [draft[d][v] EXCEPT !.status = s]
<1>1. d \in Documents /\ v \in Providers /\ draft \in [Documents -> [Providers -> Row]]
  BY DEF Payloads, RowTypes
<1>2. draft[d][v] \in Row
  BY <1>1
<1>3. /\ row \in Row /\ row.status = s /\ row.version = draft[d][v].version
      /\ row.payload = draft[d][v].payload /\ row.linked = draft[d][v].linked
  BY <1>2, RowUpdates
<1>4. draft' = [draft EXCEPT ![d] = [draft[d] EXCEPT ![v] = row]]
  BY DEF ShownById
<1>. HIDE DEF row, d, v
<1>5. draft' \in [Documents -> [Providers -> Row]]
  BY <1>1, <1>3, <1>4
<1>6. draft'[d][v] = row
  BY <1>1, <1>4
<1>7. \A e \in Documents, w \in Providers : draft'[e][w] = draft[e][w] \/ (e = d /\ w = v)
  BY <1>1, <1>4
<1>. QED BY <1>3, <1>5, <1>6, <1>7 DEF d, v

(* Showing it by the link changes the row that is linked to the action.    *)
LEMMA ShownRows ==
  ASSUME RowTypes, NEW p \in Payloads, NEW s \in {"QUEUED", "POSTED", "CANCELLED"}, draft' = Shown(p, s)
  PROVE  /\ draft' \in [Documents -> [Providers -> Row]]
         /\ \A d \in Documents, v \in Providers :
              /\ draft'[d][v].version = draft[d][v].version
              /\ draft'[d][v].payload = draft[d][v].payload
              /\ draft'[d][v].linked = draft[d][v].linked
              /\ \/ draft'[d][v] = draft[d][v]
                 \/ Linked(p) /\ d = p.document /\ v = p.provider
         /\ Linked(p) => draft'[p.document][p.provider].status = s
<1>1. CASE Linked(p)
  <2>1. draft' = ShownById(p, s)
    BY <1>1 DEF Shown
  <2>. QED BY <1>1, <2>1, ShownByIdRows
<1>2. CASE ~ Linked(p)
  BY <1>2 DEF Shown, RowTypes
<1>. QED BY <1>1, <1>2

(* A step records a revision of a draft.                                   *)
Recorded(d, v, x) == revision'[d][v] = revision[d][v] \cup {<<draft[d][v].version + 1, x>>}

(* Saving a draft writes one row, with the next version of it.             *)
LEMMA SavedRows ==
  ASSUME RowTypes, NEW p \in Payloads, NEW s \in {"NEEDS_MAPPING", "ACTION_PROPOSED"},
         NEW x \in Payloads \cup {NoPayload}, NEW n, SaveDraft(p, s, x, n)
  PROVE  /\ draft' \in [Documents -> [Providers -> Row]]
         /\ draft'[p.document][p.provider].status = s
         /\ draft'[p.document][p.provider].payload = x
         /\ x = NoPayload => ~ draft'[p.document][p.provider].linked
         /\ x # NoPayload => draft'[p.document][p.provider].linked
         /\ draft'[p.document][p.provider].version = draft[p.document][p.provider].version + 1
         /\ \A d \in Documents, v \in Providers :
              \/ draft'[d][v] = draft[d][v] /\ revision'[d][v] = revision[d][v]
              \/ (d = p.document /\ v = p.provider)
         /\ DOMAIN revision' = Documents
         /\ \A d \in Documents : DOMAIN revision'[d] = Providers
<1>. DEFINE d == p.document  v == p.provider
            row == [status |-> s, version |-> draft[d][v].version + 1, payload |-> x,
                    linked |-> x # NoPayload]
<1>1. d \in Documents /\ v \in Providers /\ draft \in [Documents -> [Providers -> Row]]
  BY DEF Payloads, RowTypes
<1>2. draft[d][v].version \in Nat
  BY <1>1 DEF Row
<1>3. row \in Row
  BY <1>2 DEF Row
<1>4. draft' = [draft EXCEPT ![d] = [draft[d] EXCEPT ![v] = row]]
  BY DEF SaveDraft, NextVersion
<1>5. revision' = [revision EXCEPT ![d] = [revision[d] EXCEPT ![v] = revision[d][v] \cup {<<draft'[d][v].version, x>>}]]
  BY DEF SaveDraft, Revise
<1>6. /\ row.status = s /\ row.payload = x
      /\ x = NoPayload => ~ row.linked
      /\ x # NoPayload => row.linked
      /\ row.version = draft[d][v].version + 1
  OBVIOUS
<1>. HIDE DEF row
<1>7. draft'[d][v] = row
  BY <1>1, <1>4
<1>8. draft' \in [Documents -> [Providers -> Row]]
  BY <1>1, <1>3, <1>4
<1>9. \A e \in Documents, w \in Providers : draft'[e][w] = draft[e][w] \/ (e = d /\ w = v)
  BY <1>1, <1>4
<1>10. \A e \in Documents, w \in Providers : revision'[e][w] = revision[e][w] \/ (e = d /\ w = v)
  BY <1>1, <1>5 DEF RowTypes
<1>12. DOMAIN revision' = Documents /\ \A e \in Documents : DOMAIN revision'[e] = Providers
  BY <1>1, <1>5 DEF RowTypes
<1>. QED BY <1>6, <1>7, <1>8, <1>9, <1>10, <1>12

(* The saved version is recorded.                                          *)
LEMMA SavedRevision ==
  ASSUME RowTypes, NEW p \in Payloads, NEW s \in {"NEEDS_MAPPING", "ACTION_PROPOSED"},
         NEW x \in Payloads \cup {NoPayload}, NEW n, SaveDraft(p, s, x, n)
  PROVE  Recorded(p.document, p.provider, x)
<1>. DEFINE d == p.document  v == p.provider
<1>1. d \in Documents /\ v \in Providers
  BY DEF Payloads
<1>2. revision' = [revision EXCEPT ![d] = [revision[d] EXCEPT ![v] = revision[d][v] \cup {<<draft'[d][v].version, x>>}]]
  BY DEF SaveDraft, Revise
<1>3. draft'[d][v].version = draft[d][v].version + 1
  BY SavedRows
<1>. HIDE DEF d, v
<1>4. revision'[d][v] = revision[d][v] \cup {<<draft'[d][v].version, x>>}
  BY <1>1, <1>2 DEF RowTypes
<1>. QED BY <1>3, <1>4 DEF Recorded, d, v

(* An edit reopens the drafts of its document that were proposed.          *)
LEMMA EditedRows ==
  ASSUME TypeInv, NEW q \in Requests, UpdateField(q)
  PROVE  /\ request[q].document \in Documents
         /\ draft' \in [Documents -> [Providers -> Row]]
         /\ \A d \in Documents, v \in Providers :
              IF d = request[q].document
              THEN draft'[d][v] = Reopened(draft[d][v])
              ELSE draft'[d][v] = draft[d][v] /\ revision'[d][v] = revision[d][v]
         /\ \A v \in Providers :
              LET d == request[q].document IN
              revision'[d][v] = IF draft'[d][v] = draft[d][v] THEN revision[d][v]
                                ELSE revision[d][v] \cup {<<draft'[d][v].version, NoPayload>>}
         /\ DOMAIN revision' = Documents
         /\ \A d \in Documents : DOMAIN revision'[d] = Providers
<1>. DEFINE d == request[q].document
<1>1. d \in Documents /\ draft \in [Documents -> [Providers -> Row]]
  BY DEF TypeInv, RequestTypes, RowTypes, UpdateField
<1>2. draft' = [draft EXCEPT ![d] = [v \in Providers |-> Reopened(draft[d][v])]]
  BY DEF UpdateField
<1>3. revision' = [revision EXCEPT ![d] = [v \in Providers |->
         IF draft'[d][v] = draft[d][v] THEN revision[d][v]
         ELSE revision[d][v] \cup {<<draft'[d][v].version, NoPayload>>}]]
  BY DEF UpdateField
<1>4. \A v \in Providers : Reopened(draft[d][v]) \in Row
  BY <1>1, ReopenedRows
<1>. HIDE DEF d
<1>5. draft' \in [Documents -> [Providers -> Row]]
  BY <1>1, <1>2, <1>4
<1>6. \A e \in Documents, v \in Providers :
         IF e = d THEN draft'[e][v] = Reopened(draft[e][v]) ELSE draft'[e][v] = draft[e][v]
  BY <1>1, <1>2
<1>7. \A e \in Documents : IF e = d
         THEN revision'[e] = [v \in Providers |->
                IF draft'[d][v] = draft[d][v] THEN revision[d][v]
                ELSE revision[d][v] \cup {<<draft'[d][v].version, NoPayload>>}]
         ELSE revision'[e] = revision[e]
  BY <1>1, <1>3 DEF TypeInv, RowTypes
<1>8. DOMAIN revision' = Documents
  BY <1>3 DEF TypeInv, RowTypes
<1>9. \A e \in Documents : DOMAIN revision'[e] = Providers
  BY <1>7 DEF TypeInv, RowTypes
<1>10. \A e \in Documents, v \in Providers : e # d => revision'[e][v] = revision[e][v]
  BY <1>7
<1>11. \A v \in Providers :
         revision'[d][v] = IF draft'[d][v] = draft[d][v] THEN revision[d][v]
                           ELSE revision[d][v] \cup {<<draft'[d][v].version, NoPayload>>}
  BY <1>1, <1>7
<1>12. \A e \in Documents, v \in Providers :
         IF e = request[q].document THEN draft'[e][v] = Reopened(draft[e][v])
         ELSE draft'[e][v] = draft[e][v] /\ revision'[e][v] = revision[e][v]
  BY <1>6, <1>10 DEF d
<1>. HIDE DEF UpdateField, TypeInv
<1>. QED BY <1>1, <1>5, <1>8, <1>9, <1>11, <1>12 DEF d
-----------------------------------------------------------------------------
(* The rows keep their types.                                              *)
LEMMA TypesKept == Spec => []TypeInv
<1>1. Init => TypeInv
  BY DEF Init, TypeInv, RowTypes, RequestTypes, Row, Stage, Idle, NoAction
<1>2. TypeInv /\ [Next]_vars => TypeInv'
  <2>. SUFFICES ASSUME TypeInv, [Next]_vars PROVE TypeInv'
    OBVIOUS
  <2>. USE DEF TypeInv, RequestTypes, Idle, Done, Busy
  <2>1. ASSUME NEW q \in Requests, NEW d \in Documents, Upload(q, d) PROVE TypeInv'
    BY <2>1 DEF Upload, drafts, RowTypes
  <2>2. ASSUME NEW q \in Requests, RejectUpload(q) \/ \E f \in Fields : StoreUpload(q, f) PROVE TypeInv'
    <3>1. Done(q) /\ UNCHANGED <<drafts, action, retired>>
      BY <2>2 DEF RejectUpload, StoreUpload
    <3>. QED BY <3>1 DEF drafts, RowTypes
  <2>3. ASSUME NEW q \in Requests, NEW d \in Documents, NEW f \in Fields, ReadForEdit(q, d, f) PROVE TypeInv'
    BY <2>3 DEF ReadForEdit, drafts, RowTypes
  <2>4. ASSUME NEW q \in Requests, UpdateField(q) PROVE TypeInv'
    <3>1. RequestTypes' /\ DOMAIN request' = Requests
      BY <2>4 DEF UpdateField, RowTypes
    <3>2. action' \in [Payloads -> [status : Stage, version : Nat]]
      BY <2>4 DEF UpdateField, RowTypes, Stage
    <3>3. retired' \subseteq Payloads
      BY <2>4 DEF UpdateField, SameKey, RowTypes
    <3>. QED BY <2>4, <3>1, <3>2, <3>3, EditedRows DEF RowTypes
  <2>5. ASSUME NEW d \in Documents, NEW s \in {"REJECTED", "NEEDS_INFO"}, SetStatus(d, s) PROVE TypeInv'
    BY <2>5 DEF SetStatus, drafts, RowTypes
  <2>6. ASSUME NEW q \in Requests, NEW d \in Documents, NEW v \in Providers, NEW m \in Mappings,
               ReadForProposal(q, d, v, m)
        PROVE  TypeInv'
    <3>1. [document |-> d, provider |-> v, fields |-> document[d].fields, mapping |-> m] \in Payloads
      BY <2>6, ReviewAssumption DEF ReadForProposal, Preparable, Payloads
    <3>. QED BY <2>6, <3>1 DEF ReadForProposal, drafts, RowTypes
  <2>7. ASSUME NEW q \in Requests, ReadVersion(q) PROVE TypeInv'
    <3>1. request[q].payload \in Payloads
      BY <2>7 DEF ReadVersion
    <3>2. draft[request[q].payload.document][request[q].payload.provider].version \in Nat
      BY <3>1 DEF RowTypes, Payloads, Row
    <3>. QED BY <2>7, <3>1, <3>2 DEF ReadVersion, drafts, RowTypes
  <2>8. ASSUME NEW q \in Requests, NeedsMapping(q) PROVE TypeInv'
    <3>1. request[q].payload \in Payloads
      BY <2>8 DEF NeedsMapping
    <3>2. RequestTypes' /\ DOMAIN request' = Requests
      BY <2>8 DEF NeedsMapping, RowTypes
    <3>. QED BY <2>8, <3>1, <3>2, SavedRows DEF NeedsMapping, RowTypes
  <2>9. ASSUME NEW q \in Requests, ProposeAction(q) PROVE TypeInv'
    <3>1. request[q].payload \in Payloads /\ request[q].version \in Nat
      BY <2>9 DEF ProposeAction
    <3>2. RequestTypes' /\ DOMAIN request' = Requests
      BY <2>9 DEF ProposeAction, RowTypes
    <3>3. action' \in [Payloads -> [status : Stage, version : Nat]]
      BY <2>9, <3>1 DEF ProposeAction, RowTypes, Stage
    <3>. QED BY <2>9, <3>1, <3>2, <3>3, SavedRows DEF ProposeAction, RowTypes
  <2>10. ASSUME NEW q \in Requests, NEW p \in Payloads, ReadForApproval(q, p) PROVE TypeInv'
    BY <2>10 DEF ReadForApproval, drafts, RowTypes
  <2>11. ASSUME NEW q \in Requests, ApproveAction(q) PROVE TypeInv'
    <3>1. request[q].payload \in Payloads
      BY <2>11 DEF ApproveAction
    <3>2. RequestTypes' /\ DOMAIN request' = Requests
      BY <2>11 DEF ApproveAction, RowTypes
    <3>3. action' \in [Payloads -> [status : Stage, version : Nat]]
      BY <2>11, <3>1 DEF ApproveAction, RowTypes, Stage
    <3>4. draft' \in [Documents -> [Providers -> Row]]
      BY <2>11, <3>1, ShownRows DEF ApproveAction, RowTypes
    <3>. QED BY <2>11, <3>2, <3>3, <3>4 DEF ApproveAction, RowTypes
  <2>12. ASSUME NEW p \in Payloads, CancelAction(p) PROVE TypeInv'
    <3>1. action' \in [Payloads -> [status : Stage, version : Nat]]
      BY <2>12 DEF CancelAction, RowTypes, Stage
    <3>. QED BY <2>12, <3>1, ShownRows DEF CancelAction, RowTypes
  <2>13. ASSUME NEW q \in Requests, ProjectVerified(q) PROVE TypeInv'
    <3>1. request[q].payload \in Payloads
      BY <2>13 DEF ProjectVerified
    <3>2. RequestTypes' /\ DOMAIN request' = Requests
      BY <2>13 DEF ProjectVerified, RowTypes
    <3>3. action' \in [Payloads -> [status : Stage, version : Nat]]
      BY <2>13, <3>1 DEF ProjectVerified, RowTypes, Stage
    <3>4. draft' \in [Documents -> [Providers -> Row]]
      BY <2>13, <3>1, ShownByIdRows DEF ProjectVerified, RowTypes
    <3>. QED BY <2>13, <3>2, <3>3, <3>4 DEF ProjectVerified, RowTypes
  <2>14. ASSUME NEW p \in Payloads, NEW s \in {"FAILED", "NEEDS_REVIEW", "SUCCEEDED"}, Execute(p, s) PROVE TypeInv'
    <3>1. action' \in [Payloads -> [status : Stage, version : Nat]]
      BY <2>14 DEF Execute, RowTypes, Stage
    <3>. QED BY <2>14, <3>1 DEF Execute, drafts, RowTypes
  <2>15. CASE UNCHANGED vars
    BY <2>15 DEF vars, drafts, RowTypes
  <2>16. ASSUME NEW q \in Requests, NEW p \in Payloads, ReadVerified(q, p) PROVE TypeInv'
    BY <2>16 DEF ReadVerified, drafts, RowTypes
  <2>. QED
    BY <2>1, <2>2, <2>3, <2>4, <2>5, <2>6, <2>7, <2>8, <2>9, <2>10, <2>11, <2>12, <2>13, <2>14, <2>15, <2>16 DEF Next
<1>. QED BY <1>1, <1>2, PTL DEF Spec

-----------------------------------------------------------------------------
(* No revision is later than its draft, and each has a version of its own. *)
RevisionsOf(d, v) ==
  /\ \A r \in revision[d][v] : r[1] \in Nat /\ r[1] <= draft[d][v].version
  /\ \A r, s \in revision[d][v] : r[1] = s[1] => r = s
RevisionInv == \A d \in Documents, v \in Providers : RevisionsOf(d, v)

(* A version of a draft names one payload, however proposals and edits of  *)
(* one document overlap (accounting_draft_revisions).                      *)
THEOREM RevisionsAlwaysNameOnePayload == Spec => []RevisionsNameOnePayload
<1>1. Init => RevisionInv
  BY DEF Init, RevisionInv, RevisionsOf
<1>2. TypeInv /\ RevisionInv /\ [Next]_vars => RevisionInv'
  <2>. SUFFICES ASSUME TypeInv, RevisionInv, [Next]_vars, NEW d \in Documents, NEW v \in Providers
                PROVE  RevisionsOf(d, v)'
    BY DEF RevisionInv
  <2>1. /\ draft[d][v] \in Row /\ draft[d][v].version \in Nat
        /\ RevisionsOf(d, v)
    BY DEF TypeInv, RowTypes, Row, RevisionInv
  <2>0. RowTypes
    BY DEF TypeInv
  <2>2. ASSUME revision'[d][v] = revision[d][v], draft'[d][v].version = draft[d][v].version
        PROVE  RevisionsOf(d, v)'
    BY <2>1, <2>2 DEF RevisionsOf
  <2>3. ASSUME NEW x, Recorded(d, v, x), draft'[d][v].version = draft[d][v].version + 1
        PROVE  RevisionsOf(d, v)'
    BY <2>1, <2>3 DEF RevisionsOf, Recorded
  <2>4. ASSUME NEW p \in Payloads, NEW s \in {"NEEDS_MAPPING", "ACTION_PROPOSED"},
               NEW x \in Payloads \cup {NoPayload}, NEW n, SaveDraft(p, s, x, n)
        PROVE  RevisionsOf(d, v)'
    <3>1. CASE d = p.document /\ v = p.provider
      <4>1. draft'[p.document][p.provider].version = draft[p.document][p.provider].version + 1
        BY <2>0, <2>4, SavedRows, Zenon
      <4>2. Recorded(p.document, p.provider, x)
        BY <2>0, <2>4, SavedRevision
      <4>3. draft'[d][v].version = draft[d][v].version + 1 /\ Recorded(d, v, x)
        BY <3>1, <4>1, <4>2
      <4>. QED BY <2>3, <4>3, Zenon
    <3>2. CASE ~ (d = p.document /\ v = p.provider)
      <4>1. \A e \in Documents, w \in Providers :
              \/ draft'[e][w] = draft[e][w] /\ revision'[e][w] = revision[e][w]
              \/ (e = p.document /\ w = p.provider)
        BY <2>0, <2>4, SavedRows, Zenon
      <4>. QED BY <2>2, <3>2, <4>1
    <3>. QED BY <3>1, <3>2
  <2>5. ASSUME NEW q \in Requests, UpdateField(q) PROVE RevisionsOf(d, v)'
    <3>1. CASE d = request[q].document /\ draft'[d][v] # draft[d][v]
      <4>1. draft'[d][v].version = draft[d][v].version + 1
        BY <2>1, <2>5, <3>1, EditedRows, ReopenedRows
      <4>2. Recorded(d, v, NoPayload)
        <5>1. \A w \in Providers :
                revision'[request[q].document][w] =
                  IF draft'[request[q].document][w] = draft[request[q].document][w]
                  THEN revision[request[q].document][w]
                  ELSE revision[request[q].document][w] \cup {<<draft'[request[q].document][w].version, NoPayload>>}
          BY <2>5, EditedRows, Zenon
        <5>2. revision'[d][v] = revision[d][v] \cup {<<draft'[d][v].version, NoPayload>>}
          BY <3>1, <5>1, Zenon
        <5>. QED BY <4>1, <5>2 DEF Recorded
      <4>. QED BY <2>3, <4>1, <4>2, Zenon
    <3>2. CASE d = request[q].document /\ draft'[d][v] = draft[d][v]
      BY <2>2, <2>5, <3>2, EditedRows
    <3>3. CASE d # request[q].document
      BY <2>2, <2>5, <3>3, EditedRows
    <3>. QED BY <3>1, <3>2, <3>3
  <2>6. ASSUME NEW q \in Requests, NeedsMapping(q) PROVE RevisionsOf(d, v)'
    <3>1. request[q].payload \in Payloads
      BY <2>6 DEF NeedsMapping, TypeInv, RequestTypes
    <3>2. SaveDraft(request[q].payload, "NEEDS_MAPPING", NoPayload, request[q].version)
      BY <2>6 DEF NeedsMapping
    <3>. QED BY <2>4, <3>1, <3>2
  <2>7. ASSUME NEW q \in Requests, ProposeAction(q) PROVE RevisionsOf(d, v)'
    <3>1. request[q].payload \in Payloads
      BY <2>7 DEF ProposeAction, TypeInv, RequestTypes
    <3>2. SaveDraft(request[q].payload, "ACTION_PROPOSED", request[q].payload, request[q].version)
      BY <2>7 DEF ProposeAction
    <3>. QED BY <2>4, <3>1, <3>2
  <2>8. ASSUME NEW q \in Requests, ApproveAction(q) PROVE RevisionsOf(d, v)'
    <3>1. request[q].payload \in Payloads
      BY <2>8 DEF ApproveAction, TypeInv, RequestTypes
    <3>. QED BY <2>0, <2>2, <2>8, <3>1, ShownRows DEF ApproveAction
  <2>9. ASSUME NEW p \in Payloads, CancelAction(p) PROVE RevisionsOf(d, v)'
    BY <2>0, <2>2, <2>9, ShownRows DEF CancelAction
  <2>10. CASE UNCHANGED drafts
    BY <2>2, <2>10 DEF drafts
  <2>11. ASSUME NEW q \in Requests, ProjectVerified(q) PROVE RevisionsOf(d, v)'
    <3>1. request[q].payload \in Payloads
      BY <2>11 DEF ProjectVerified, TypeInv, RequestTypes
    <3>. QED BY <2>0, <2>2, <2>11, <3>1, ShownByIdRows DEF ProjectVerified
  <2>. QED
    BY <2>5, <2>6, <2>7, <2>8, <2>9, <2>10, <2>11 DEF Next, vars, SetStatus, Upload, RejectUpload, StoreUpload,
       ReadForEdit, ReadForProposal, ReadVersion, ReadForApproval, ReadVerified, Execute
<1>3. RevisionInv => RevisionsNameOnePayload
  BY DEF RevisionInv, RevisionsOf, RevisionsNameOnePayload
<1>. QED BY <1>1, <1>2, <1>3, TypesKept, PTL DEF Spec
-----------------------------------------------------------------------------
(* The status a draft may show for the stage of the action it is linked to. *)
Agrees(status, stage) ==
  /\ stage = "AWAITING_APPROVAL" => status = "ACTION_PROPOSED"
  /\ status = "QUEUED" => stage \in {"QUEUED", "FAILED", "NEEDS_REVIEW"}
  /\ status = "POSTED" => stage = "SUCCEEDED"
  /\ status = "CANCELLED" => stage = "CANCELLED"
Entered(d, v) ==
  \E r \in register : /\ r.payload \in Payloads
                      /\ r.payload.document = d /\ r.payload.provider = v
                      /\ action[r.payload].status = "SUCCEEDED"
Overtaken(d, v) == draft[d][v].status = "POSTED" /\ <<d, v>> \in overtaken
Follows(d, v) ==
  /\ draft[d][v].status = "POSTED" => Entered(d, v)
  /\ ~ draft[d][v].linked /\ ~ Overtaken(d, v) => draft[d][v].status \notin {"QUEUED", "POSTED", "CANCELLED"}
  /\ draft[d][v].linked =>
       /\ draft[d][v].payload \in Payloads
       /\ draft[d][v].payload.document = d /\ draft[d][v].payload.provider = v
       /\ Overtaken(d, v) \/ Agrees(draft[d][v].status, action[draft[d][v].payload].status)
(* The row that a projection under way is to write is that of its action.  *)
ProjectsItsRow(q) == request[q].kind = "project" => request[q].row.payload = request[q].payload
FollowInv ==
  /\ \A d \in Documents, v \in Providers : Follows(d, v)
  /\ \A q \in Requests : ProjectsItsRow(q)

(* What has been carried out stays so, and rows of the register stay.      *)
EnteredStays ==
  /\ register \subseteq register'
  /\ \A p \in Payloads : action[p].status = "SUCCEEDED" => action'[p].status = "SUCCEEDED"
LEMMA EnteredKept ==
  ASSUME EnteredStays, NEW d, NEW v, Entered(d, v)
  PROVE  Entered(d, v)'
BY DEF EnteredStays, Entered

(* Every step keeps what has been carried out and entered.                 *)
LEMMA StepsKeepEntered == TypeInv /\ [Next]_vars => EnteredStays
<1>. SUFFICES ASSUME TypeInv, [Next]_vars PROVE EnteredStays
  OBVIOUS
<1>0. action \in [Payloads -> [status : Stage, version : Nat]]
  BY DEF TypeInv, RowTypes
<1>1. CASE action' = action /\ register \subseteq register'
  BY <1>1 DEF EnteredStays
<1>2. ASSUME NEW q \in Requests, UpdateField(q) PROVE EnteredStays
  BY <1>0, <1>2 DEF UpdateField, EnteredStays, Pending
<1>3. ASSUME NEW q \in Requests, ProposeAction(q) PROVE EnteredStays
  BY <1>0, <1>3 DEF ProposeAction, EnteredStays, NoAction
<1>4. ASSUME NEW q \in Requests, ApproveAction(q) PROVE EnteredStays
  BY <1>0, <1>4 DEF ApproveAction, EnteredStays, Pending
<1>5. ASSUME NEW q \in Requests, ProjectVerified(q) PROVE EnteredStays
  BY <1>0, <1>5 DEF ProjectVerified, EnteredStays
<1>6. ASSUME NEW p \in Payloads, CancelAction(p) PROVE EnteredStays
  BY <1>0, <1>6 DEF CancelAction, EnteredStays
<1>7. ASSUME NEW p \in Payloads, NEW s \in {"FAILED", "NEEDS_REVIEW", "SUCCEEDED"}, Execute(p, s) PROVE EnteredStays
  BY <1>0, <1>7 DEF Execute, EnteredStays
<1>. QED
  BY <1>1, <1>2, <1>3, <1>4, <1>5, <1>6, <1>7 DEF Next, vars, SetStatus, Upload, RejectUpload, StoreUpload,
     ReadForEdit, ReadForProposal, ReadVersion, NeedsMapping, ReadForApproval, ReadVerified

(* A projection under way keeps its row.                                   *)
LEMMA ProjectionsKept ==
  TypeInv /\ FollowInv /\ [Next]_vars => \A q \in Requests : ProjectsItsRow(q)'
<1>. SUFFICES ASSUME TypeInv, FollowInv, [Next]_vars, NEW q \in Requests PROVE ProjectsItsRow(q)'
  OBVIOUS
<1>0. ProjectsItsRow(q) /\ DOMAIN request = Requests
  BY DEF FollowInv, TypeInv, RowTypes
<1>1. CASE request'[q] = request[q]
  BY <1>0, <1>1 DEF ProjectsItsRow
<1>2. CASE request'[q].kind # "project"
  BY <1>2 DEF ProjectsItsRow
<1>3. ASSUME NEW r \in Requests, NEW p \in Payloads, ReadVerified(r, p) PROVE ProjectsItsRow(q)'
  BY <1>0, <1>3 DEF ReadVerified, Busy, RegisterRow, ProjectsItsRow
<1>4. ASSUME NEW r \in Requests, NEW x, Busy(r, x), x.kind # "project" PROVE ProjectsItsRow(q)'
  BY <1>0, <1>1, <1>2, <1>4 DEF Busy
<1>5. Idle.kind # "project"
  BY DEF Idle
<1>6. ASSUME NEW r \in Requests, Done(r) PROVE ProjectsItsRow(q)'
  BY <1>4, <1>5, <1>6 DEF Done
<1>7. ASSUME NEW r \in Requests,
             \/ RejectUpload(r) \/ UpdateField(r) \/ NeedsMapping(r) \/ ProposeAction(r) \/ ApproveAction(r)
             \/ ProjectVerified(r) \/ \E f \in Fields : StoreUpload(r, f)
      PROVE  Done(r)
  BY <1>7 DEF RejectUpload, UpdateField, NeedsMapping, ProposeAction, ApproveAction, ProjectVerified, StoreUpload
<1>8. ASSUME NEW r \in Requests,
             \/ ReadVersion(r)
             \/ \E d \in Documents : Upload(r, d)
             \/ \E d \in Documents, f \in Fields : ReadForEdit(r, d, f)
             \/ \E d \in Documents, v \in Providers, m \in Mappings : ReadForProposal(r, d, v, m)
             \/ \E p \in Payloads : ReadForApproval(r, p)
      PROVE  ProjectsItsRow(q)'
  <2>1. /\ request'[r].kind # "project"
        /\ \A k \in Requests \ {r} : request'[k] = request[k]
    BY <1>0, <1>8 DEF ReadVersion, Upload, ReadForEdit, ReadForProposal, ReadForApproval, Busy
  <2>. QED BY <1>1, <1>2, <2>1
<1>9. CASE request' = request
  BY <1>1, <1>9
<1>. QED
  BY <1>3, <1>6, <1>7, <1>8, <1>9 DEF Next, vars, SetStatus, CancelAction, Execute

(* A draft is shown as queued or cancelled only while its action was       *)
(* approved or cancelled, and as posted only when the register has a row   *)
(* of it, for the action it is linked to unless it was saved anew between  *)
(* the projection's read and its write (approve_action, cancel_action,     *)
(* project_verified_purchase and _sale, update_field).                     *)
THEOREM DraftsAlwaysFollowActions == Spec => []DraftsFollowActions
<1>1. Init => FollowInv
  BY DEF Init, FollowInv, Follows, Overtaken, ProjectsItsRow, Idle
<1>2. TypeInv /\ FollowInv /\ [Next]_vars => FollowInv'
  <2>. SUFFICES ASSUME TypeInv, FollowInv, [Next]_vars, NEW d \in Documents, NEW v \in Providers
                PROVE  Follows(d, v)'
    BY ProjectionsKept DEF FollowInv
  <2>e. Entered(d, v) => Entered(d, v)'
    BY StepsKeepEntered, EnteredKept
  <2>0. RowTypes
    BY DEF TypeInv
  <2>1. Follows(d, v) /\ draft[d][v] \in Row
    BY <2>0 DEF FollowInv, RowTypes
  <2>2. ASSUME draft'[d][v] = draft[d][v], overtaken' = overtaken,
               draft[d][v].linked /\ ~ Overtaken(d, v) =>
                 action'[draft[d][v].payload].status = action[draft[d][v].payload].status
        PROVE  Follows(d, v)'
    BY <2>e, <2>1, <2>2 DEF Follows, Overtaken
  <2>3. ASSUME NEW p \in Payloads, NEW s \in {"QUEUED", "CANCELLED"}, NEW t \in Stage,
               draft' = Shown(p, s), action' = [action EXCEPT ![p].status = t], overtaken' = overtaken,
               Agrees(s, t), t # "AWAITING_APPROVAL"
        PROVE  Follows(d, v)'
    <3>1. action'[p].status = t /\ \A r \in Payloads \ {p} : action'[r] = action[r]
      BY <2>0, <2>3 DEF RowTypes
    <3>2. CASE Linked(p) /\ d = p.document /\ v = p.provider
      <4>1. draft'[d][v].status = s
        BY <2>0, <2>3, <3>2, ShownRows
      <4>2. draft'[d][v].linked = draft[d][v].linked /\ draft'[d][v].payload = draft[d][v].payload
        BY <2>0, <2>3, ShownRows
      <4>3. draft[d][v].linked /\ draft[d][v].payload = p
        BY <3>2 DEF Linked
      <4>. QED BY <2>3, <3>1, <3>2, <4>1, <4>2, <4>3 DEF Follows, Overtaken
    <3>3. CASE ~ (Linked(p) /\ d = p.document /\ v = p.provider)
      <4>1. draft'[d][v] = draft[d][v]
        BY <2>0, <2>3, <3>3, ShownRows
      <4>2. draft[d][v].linked => draft[d][v].payload \in Payloads \ {p}
        BY <2>1, <3>3 DEF Follows, Linked
      <4>. QED BY <2>2, <2>3, <3>1, <4>1, <4>2
    <3>. QED BY <3>2, <3>3
  <2>4. ASSUME NEW q \in Requests, UpdateField(q) PROVE Follows(d, v)'
    <3>. DEFINE e == request[q].document
                linked == {draft[e][w].payload : w \in {u \in Providers : draft[e][u].linked}}
    <3>1. action' = [r \in Payloads |->
            IF r \in linked /\ Pending(r) THEN [action[r] EXCEPT !.status = "CANCELLED"] ELSE action[r]]
      BY <2>4 DEF UpdateField
    <3>2. e \in Documents /\ overtaken' = overtaken
      BY <2>4, EditedRows DEF UpdateField
    <3>3. \A r \in linked : r.document = e
      BY <3>2 DEF FollowInv, Follows
    <3>. HIDE DEF linked
    <3>4. CASE d = e
      <4>1. draft'[d][v] = Reopened(draft[d][v])
        BY <2>4, <3>4, EditedRows
      <4>2. CASE draft'[d][v] = draft[d][v]
        <5>1. draft[d][v].linked /\ ~ Overtaken(d, v) =>
                draft[d][v].payload \in Payloads /\ ~ Pending(draft[d][v].payload)
          BY <2>1, <4>1, <4>2, ReopenedRows DEF Follows, Agrees, Pending
        <5>. QED BY <2>2, <3>1, <3>2, <4>2, <5>1
      <4>3. CASE draft'[d][v] # draft[d][v]
        BY <2>1, <4>1, <4>3, ReopenedRows DEF Follows, Overtaken
      <4>. QED BY <4>2, <4>3
    <3>5. CASE d # e
      <4>1. draft'[d][v] = draft[d][v]
        BY <2>4, <3>5, EditedRows
      <4>2. draft[d][v].linked => draft[d][v].payload \in Payloads /\ draft[d][v].payload \notin linked
        BY <2>1, <3>3, <3>5 DEF Follows
      <4>. QED BY <2>2, <3>1, <3>2, <4>1, <4>2
    <3>. QED BY <3>4, <3>5
  <2>5. ASSUME NEW q \in Requests, NeedsMapping(q) PROVE Follows(d, v)'
    <3>. DEFINE p == request[q].payload
    <3>1. p \in Payloads
      BY <2>5 DEF NeedsMapping, TypeInv, RequestTypes
    <3>2. SaveDraft(p, "NEEDS_MAPPING", NoPayload, request[q].version)
          /\ action' = action /\ overtaken' = overtaken
      BY <2>5 DEF NeedsMapping
    <3>. HIDE DEF p
    <3>3. CASE d = p.document /\ v = p.provider
      <4>1. draft'[p.document][p.provider].status = "NEEDS_MAPPING"
        BY <2>0, <3>1, <3>2, SavedRows
      <4>2. ~ draft'[p.document][p.provider].linked
        BY <2>0, <3>1, <3>2, SavedRows, Zenon
      <4>. QED BY <3>3, <4>1, <4>2 DEF Follows, Overtaken
    <3>4. CASE ~ (d = p.document /\ v = p.provider)
      BY <2>0, <2>2, <3>1, <3>2, <3>4, SavedRows
    <3>. QED BY <3>3, <3>4
  <2>6. ASSUME NEW q \in Requests, ProposeAction(q) PROVE Follows(d, v)'
    <3>. DEFINE p == request[q].payload
    <3>1. p \in Payloads
      BY <2>6 DEF ProposeAction, TypeInv, RequestTypes
    <3>2. SaveDraft(p, "ACTION_PROPOSED", p, request[q].version) /\ overtaken' = overtaken
      BY <2>6 DEF ProposeAction
    <3>3. \A r \in Payloads \ {p} : action'[r] = action[r]
      BY <2>0, <2>6 DEF ProposeAction, RowTypes
    <3>. HIDE DEF p
    <3>4. CASE d = p.document /\ v = p.provider
      <4>1. draft'[d][v].linked /\ draft'[d][v].payload = p /\ draft'[d][v].status = "ACTION_PROPOSED"
        BY <2>0, <3>1, <3>2, <3>4, PayloadAssumption, SavedRows
      <4>. QED BY <3>1, <3>4, <4>1 DEF Follows, Agrees, Overtaken
    <3>5. CASE ~ (d = p.document /\ v = p.provider)
      <4>1. draft'[d][v] = draft[d][v]
        BY <2>0, <3>1, <3>2, <3>5, SavedRows
      <4>2. draft[d][v].linked => draft[d][v].payload \in Payloads \ {p}
        BY <2>1, <3>5 DEF Follows
      <4>. QED BY <2>2, <3>2, <3>3, <4>1, <4>2
    <3>. QED BY <3>4, <3>5
  <2>7. ASSUME NEW q \in Requests, ApproveAction(q) PROVE Follows(d, v)'
    <3>1. request[q].payload \in Payloads
      BY <2>7 DEF ApproveAction, TypeInv, RequestTypes
    <3>2. CASE Pending(request[q].payload)
      BY <2>3, <2>7, <3>1, <3>2 DEF ApproveAction, Agrees, Stage
    <3>3. CASE ~ Pending(request[q].payload)
      BY <2>2, <2>7, <3>3 DEF ApproveAction
    <3>. QED BY <3>2, <3>3
  <2>8. ASSUME NEW p \in Payloads, CancelAction(p) PROVE Follows(d, v)'
    BY <2>3, <2>8 DEF CancelAction, Agrees, Stage
  <2>9. ASSUME NEW q \in Requests, ProjectVerified(q) PROVE Follows(d, v)'
    <3>. DEFINE p == request[q].payload
    <3>1. /\ p \in Payloads /\ p.document \in Documents /\ p.provider \in Providers
          /\ request[q].row.payload = p
      BY <2>9 DEF ProjectVerified, TypeInv, RequestTypes, Payloads, FollowInv, ProjectsItsRow
    <3>2. /\ action' = [action EXCEPT ![p].status = "SUCCEEDED"]
          /\ draft' = ShownById(p, "POSTED")
          /\ overtaken' = IF Linked(p) THEN overtaken \ {<<p.document, p.provider>>}
                          ELSE overtaken \cup {<<p.document, p.provider>>}
          /\ request[q].row \in register'
      BY <2>9 DEF ProjectVerified
    <3>. HIDE DEF p
    <3>3. action'[p].status = "SUCCEEDED" /\ \A r \in Payloads \ {p} : action'[r] = action[r]
      BY <2>0, <3>1, <3>2 DEF RowTypes
    <3>4. CASE d = p.document /\ v = p.provider
      <4>1. /\ draft'[d][v].status = "POSTED"
            /\ draft'[d][v].linked = draft[d][v].linked /\ draft'[d][v].payload = draft[d][v].payload
        BY <2>0, <3>1, <3>2, <3>4, ShownByIdRows
      <4>2. Entered(d, v)'
        BY <3>1, <3>2, <3>3, <3>4 DEF Entered
      <4>3. CASE Linked(p)
        <5>1. draft[d][v].linked /\ draft[d][v].payload = p
          BY <3>4, <4>3 DEF Linked
        <5>. QED BY <3>1, <3>3, <3>4, <4>1, <4>2, <5>1 DEF Follows, Agrees
      <4>4. CASE ~ Linked(p)
        <5>1. Overtaken(d, v)'
          BY <3>2, <3>4, <4>1, <4>4 DEF Overtaken
        <5>. QED BY <2>1, <4>1, <4>2, <5>1 DEF Follows
      <4>. QED BY <4>3, <4>4
    <3>5. CASE ~ (d = p.document /\ v = p.provider)
      <4>1. draft'[d][v] = draft[d][v]
        BY <2>0, <3>1, <3>2, <3>5, ShownByIdRows
      <4>2. draft[d][v].linked => draft[d][v].payload \in Payloads \ {p}
        BY <2>1, <3>5 DEF Follows
      <4>3. Overtaken(d, v)' <=> Overtaken(d, v)
        BY <3>2, <3>5, <4>1 DEF Overtaken
      <4>. QED BY <2>e, <2>1, <3>3, <4>1, <4>2, <4>3 DEF Follows
    <3>. QED BY <3>4, <3>5
  <2>10. ASSUME NEW p \in Payloads, NEW t \in {"FAILED", "NEEDS_REVIEW", "SUCCEEDED"}, Execute(p, t)
         PROVE  Follows(d, v)'
    <3>1. /\ draft' = draft /\ overtaken' = overtaken /\ action[p].status = "QUEUED"
          /\ t = "SUCCEEDED" => ~ Linked(p)
      BY <2>10 DEF Execute, drafts
    <3>2. action'[p].status = t /\ \A r \in Payloads \ {p} : action'[r] = action[r]
      BY <2>0, <2>10 DEF Execute, RowTypes
    <3>3. CASE draft[d][v].linked /\ draft[d][v].payload = p
      <4>1. Linked(p)
        BY <2>1, <3>3 DEF Linked, Follows
      <4>. QED BY <2>e, <2>1, <3>1, <3>2, <3>3, <4>1 DEF Follows, Agrees, Overtaken
    <3>4. CASE ~ (draft[d][v].linked /\ draft[d][v].payload = p)
      <4>1. draft[d][v].linked => draft[d][v].payload \in Payloads \ {p}
        BY <2>1, <3>4 DEF Follows
      <4>. QED BY <2>2, <3>1, <3>2, <4>1
    <3>. QED BY <3>3, <3>4
  <2>11. ASSUME UNCHANGED <<drafts, action>> PROVE Follows(d, v)'
    BY <2>2, <2>11 DEF drafts
  <2>. QED
    BY <2>4, <2>5, <2>6, <2>7, <2>8, <2>9, <2>10, <2>11 DEF Next, vars, SetStatus, Upload, RejectUpload,
       StoreUpload, ReadForEdit, ReadForProposal, ReadVersion, ReadForApproval, ReadVerified
<1>3. TypeInv /\ FollowInv => DraftsFollowActions
  <2>. SUFFICES ASSUME FollowInv, NEW d \in Documents, NEW v \in Providers
                PROVE  LET row == draft[d][v]
                           of(s) == row.linked /\ action[row.payload].status \in s
                       IN  /\ row.status = "QUEUED" => of({"QUEUED", "FAILED", "NEEDS_REVIEW"})
                           /\ row.status = "CANCELLED" => of({"CANCELLED"})
                           /\ row.status = "POSTED" =>
                                /\ \E r \in register : /\ r.payload.document = d /\ r.payload.provider = v
                                                       /\ action[r.payload].status = "SUCCEEDED"
                                /\ of({"SUCCEEDED"}) \/ <<d, v>> \in overtaken
    BY DEF DraftsFollowActions
  <2>1. Follows(d, v)
    BY DEF FollowInv
  <2>. QED BY <2>1 DEF Follows, Agrees, Overtaken, Entered
<1>. QED BY <1>1, <1>2, <1>3, TypesKept, PTL DEF Spec
-----------------------------------------------------------------------------
(* What an edit has overtaken cannot be approved.  A proposal is retired   *)
(* when an edit follows it; the edit cancels it or finds that no draft is  *)
(* linked to it any more, and a draft linked to it again has a later       *)
(* version than the proposal was made for.                                 *)
ProposalInv(p) ==
  LET row == draft[p.document][p.provider] IN
  /\ action[p].status = "NONE" => action[p] = NoAction
  /\ action[p].version <= row.version
  /\ p \in retired => action[p].status # "NONE"
  /\ p \in retired /\ Pending(p) /\ Linked(p) => action[p].version < row.version
RequestInv(q) ==
  LET p == request[q].payload IN
  /\ request[q].kind = "propose" => request[q].version <= draft[p.document][p.provider].version + 1
  /\ request[q].kind \in {"approve", "project"} => action[p].status # "NONE"
  /\ request[q].kind = "approve" /\ request[q].retired => ~ Pending(p)
EditInv == (\A p \in Payloads : ProposalInv(p)) /\ (\A q \in Requests : RequestInv(q))

(* Versions never go back, and stages leave approval for good.             *)
RowsGrow == \A d \in Documents, v \in Providers : draft[d][v].version <= draft'[d][v].version
StagesMove ==
  \A p \in Payloads :
    /\ action'[p].version = action[p].version
    /\ \/ action'[p] = action[p]
       \/ action[p].status # "NONE" /\ action'[p].status \notin {"NONE", "AWAITING_APPROVAL"}

(* Saving a draft makes its version grow, and leaves the other rows.       *)
LEMMA SavedGrow ==
  ASSUME RowTypes, NEW p \in Payloads, NEW s \in {"NEEDS_MAPPING", "ACTION_PROPOSED"},
         NEW x \in Payloads \cup {NoPayload}, NEW n, SaveDraft(p, s, x, n)
  PROVE  /\ RowsGrow
         /\ \A d \in Documents, v \in Providers : draft'[d][v] = draft[d][v] \/ (d = p.document /\ v = p.provider)
<1>1. \A d \in Documents, v \in Providers : draft'[d][v] = draft[d][v] \/ (d = p.document /\ v = p.provider)
  <2>1. \A d \in Documents, v \in Providers :
          \/ draft'[d][v] = draft[d][v] /\ revision'[d][v] = revision[d][v]
          \/ (d = p.document /\ v = p.provider)
    BY SavedRows, Zenon
  <2>. QED BY <2>1
<1>2. draft'[p.document][p.provider].version = draft[p.document][p.provider].version + 1
  BY SavedRows, Zenon
<1>3. \A d \in Documents, v \in Providers : draft[d][v].version \in Nat
  <2>1. \A d \in Documents, v \in Providers : draft[d][v] \in Row
    BY DEF RowTypes
  <2>. QED BY <2>1 DEF Row
<1>4. ASSUME NEW d \in Documents, NEW v \in Providers PROVE draft[d][v].version <= draft'[d][v].version
  <2>1. CASE draft'[d][v] = draft[d][v]
    BY <1>3, <2>1
  <2>2. CASE d = p.document /\ v = p.provider
    BY <1>2, <1>3, <2>2
  <2>. QED BY <1>1, <2>1, <2>2
<1>. QED BY <1>1, <1>4 DEF RowsGrow

(* A step that reads for neither a proposal nor an approval keeps what is  *)
(* known of the requests.                                                  *)
LEMMA RequestsKept ==
  ASSUME TypeInv, EditInv, RowsGrow, DOMAIN request' = Requests,
         draft' \in [Documents -> [Providers -> Row]],
         \A p \in Payloads : action[p].status # "NONE" =>
           action'[p].status # "NONE" /\ (Pending(p)' => Pending(p)),
         NEW q \in Requests,
         request'[q] = request[q] \/ request'[q].kind \in {"idle", "upload", "edit", "map"}
  PROVE  RequestInv(q)'
<1>1. CASE request'[q].kind \in {"idle", "upload", "edit", "map"}
  BY <1>1 DEF RequestInv
<1>2. CASE request'[q] = request[q] /\ request[q].kind = "propose"
  <2>. DEFINE p == request[q].payload
  <2>1. p.document \in Documents /\ p.provider \in Providers /\ request[q].version \in Nat
    BY <1>2 DEF TypeInv, RequestTypes, Payloads
  <2>2. /\ draft[p.document][p.provider].version \in Nat
        /\ draft'[p.document][p.provider].version \in Nat
    BY <2>1 DEF TypeInv, RowTypes, Row
  <2>. QED BY <1>2, <2>1, <2>2 DEF EditInv, RequestInv, RowsGrow
<1>3. CASE request'[q] = request[q] /\ request[q].kind \in {"approve", "project"}
  <2>1. request[q].payload \in Payloads
    BY <1>3 DEF TypeInv, RequestTypes
  <2>. QED BY <1>3, <2>1 DEF EditInv, RequestInv
<1>4. CASE request'[q] = request[q] /\ request[q].kind \notin {"propose", "approve", "project"}
  BY <1>4 DEF RequestInv
<1>. QED BY <1>1, <1>2, <1>3, <1>4

(* A step that only moves stages, and links nothing anew, keeps what is    *)
(* known of a proposal.                                                    *)
LEMMA ProposalKept ==
  ASSUME TypeInv, EditInv, StagesMove, NEW p \in Payloads, p \in retired' => p \in retired,
         draft'[p.document][p.provider].version \in Nat,
         draft[p.document][p.provider].version <= draft'[p.document][p.provider].version,
         Linked(p)' => Linked(p)
  PROVE  ProposalInv(p)'
<1>1. /\ ProposalInv(p)
      /\ draft[p.document][p.provider].version \in Nat
      /\ action[p].version \in Nat
  <2>1. ProposalInv(p)
    BY DEF EditInv
  <2>2. p.document \in Documents /\ p.provider \in Providers
    BY DEF Payloads
  <2>3. draft[p.document][p.provider].version \in Nat
    BY <2>2 DEF TypeInv, RowTypes, Row
  <2>4. action[p].version \in Nat
    <3>. HIDE DEF Payloads
    <3>. QED BY DEF TypeInv, RowTypes
  <2>. QED BY <2>1, <2>3, <2>4
<1>2. /\ action'[p].version = action[p].version
      /\ \/ action'[p] = action[p]
         \/ action[p].status # "NONE" /\ action'[p].status \notin {"NONE", "AWAITING_APPROVAL"}
  BY DEF StagesMove
<1>3. (action[p].status = "NONE" => action[p] = NoAction)'
  BY <1>1, <1>2 DEF ProposalInv
<1>4. (action[p].version <= draft[p.document][p.provider].version)'
  BY <1>1, <1>2 DEF ProposalInv
<1>5. (p \in retired => action[p].status # "NONE")'
  BY <1>1, <1>2 DEF ProposalInv
<1>6. ASSUME (p \in retired /\ Pending(p) /\ Linked(p))'
      PROVE  (action[p].version < draft[p.document][p.provider].version)'
  <2>1. p \in retired /\ Linked(p)
    BY <1>6
  <2>2. Pending(p)
    BY <1>2, <1>6 DEF Pending
  <2>. QED BY <1>1, <1>2, <2>1, <2>2 DEF ProposalInv
<1>. QED BY <1>3, <1>4, <1>5, <1>6 DEF ProposalInv

(* An approval that began after an edit cannot go through for what was     *)
(* proposed before it, even when the proposal is prepared again with the   *)
(* same fields (approve_action compares the draft's version with the       *)
(* version the action was made for).                                       *)
THEOREM EditsAlwaysRetireProposals == Spec => []EditsRetireProposals
<1>1. Init => EditInv
  BY DEF Init, EditInv, ProposalInv, RequestInv, Payloads, NoAction, Idle, Pending
<1>2. TypeInv /\ EditInv /\ [Next]_vars => EditInv'
  <2>. SUFFICES ASSUME TypeInv, EditInv, [Next]_vars PROVE EditInv'
    OBVIOUS
  <2>1. RowTypes /\ RequestTypes
    BY DEF TypeInv
  <2>2. \A p \in Payloads : /\ p.document \in Documents /\ p.provider \in Providers
                             /\ draft[p.document][p.provider] \in Row
                             /\ draft[p.document][p.provider].version \in Nat
    BY <2>1 DEF RowTypes, Row, Payloads
  <2>3. ASSUME draft' \in [Documents -> [Providers -> Row]],
               \A d \in Documents, v \in Providers :
                 /\ draft'[d][v].version = draft[d][v].version
                 /\ draft'[d][v].payload = draft[d][v].payload
                 /\ draft'[d][v].linked = draft[d][v].linked,
               StagesMove, retired' = retired, DOMAIN request' = Requests,
               \A q \in Requests : request'[q] = request[q] \/ request'[q].kind \in {"idle", "upload", "edit", "map"}
        PROVE  EditInv'
    <3>1. RowsGrow
      BY <2>1, <2>3 DEF RowsGrow, RowTypes, Row
    <3>2. ASSUME NEW p \in Payloads PROVE ProposalInv(p)'
      <4>1. /\ draft'[p.document][p.provider].version = draft[p.document][p.provider].version
            /\ draft'[p.document][p.provider].payload = draft[p.document][p.provider].payload
            /\ draft'[p.document][p.provider].linked = draft[p.document][p.provider].linked
        BY <2>2, <2>3
      <4>2. Linked(p)' => Linked(p)
        BY <4>1 DEF Linked
      <4>. QED BY <2>2, <2>3, <4>1, <4>2, ProposalKept
    <3>3. \A p \in Payloads : action[p].status # "NONE" =>
            action'[p].status # "NONE" /\ (Pending(p)' => Pending(p))
      BY <2>3 DEF StagesMove, Pending
    <3>4. ASSUME NEW q \in Requests PROVE RequestInv(q)'
      BY <2>3, <3>1, <3>3, RequestsKept
    <3>. QED BY <3>2, <3>4 DEF EditInv
  <2>4. ASSUME NEW q \in Requests, ReadVersion(q) PROVE EditInv'
    <3>. DEFINE p == request[q].payload
    <3>1. p \in Payloads /\ UNCHANGED <<draft, action, retired>>
      BY <2>1, <2>4 DEF ReadVersion, RequestTypes, drafts
    <3>2. /\ request'[q].kind = "propose" /\ request'[q].payload = p
          /\ request'[q].version = draft[p.document][p.provider].version + 1
          /\ \A r \in Requests \ {q} : request'[r] = request[r]
      BY <2>1, <2>4 DEF ReadVersion, Busy, RowTypes
    <3>. HIDE DEF p
    <3>3. RequestInv(q)'
      BY <2>2, <3>1, <3>2 DEF RequestInv
    <3>4. \A r \in Requests \ {q} : RequestInv(r)'
      BY <3>1, <3>2 DEF EditInv, RequestInv, Pending
    <3>5. \A r \in Payloads : ProposalInv(r)'
      BY <3>1 DEF EditInv, ProposalInv, Pending, Linked
    <3>. QED BY <3>3, <3>4, <3>5 DEF EditInv
  <2>5. ASSUME NEW q \in Requests, NEW p \in Payloads, ReadForApproval(q, p) PROVE EditInv'
    <3>1. UNCHANGED <<draft, action, retired>>
      BY <2>5 DEF ReadForApproval, drafts
    <3>2. /\ request'[q].kind = "approve" /\ request'[q].payload = p
          /\ request'[q].retired => p \in retired
          /\ \A r \in Requests \ {q} : request'[r] = request[r]
      BY <2>1, <2>5 DEF ReadForApproval, Busy, RowTypes
    <3>3. Linked(p) /\ draft[p.document][p.provider].version = action[p].version /\ action[p] # NoAction
      BY <2>5 DEF ReadForApproval, Bound
    <3>4. action[p].status # "NONE" /\ (p \in retired => ~ Pending(p))
      BY <2>2, <3>3 DEF EditInv, ProposalInv
    <3>5. RequestInv(q)'
      BY <3>1, <3>2, <3>4 DEF RequestInv, Pending
    <3>6. \A r \in Requests \ {q} : RequestInv(r)'
      BY <3>1, <3>2 DEF EditInv, RequestInv, Pending
    <3>7. \A r \in Payloads : ProposalInv(r)'
      BY <3>1 DEF EditInv, ProposalInv, Pending, Linked
    <3>. QED BY <3>5, <3>6, <3>7 DEF EditInv
  <2>6. ASSUME NEW q \in Requests, UpdateField(q) PROVE EditInv'
    <3>. DEFINE e == request[q].document
                linked == {draft[e][w].payload : w \in {u \in Providers : draft[e][u].linked}}
    <3>1. action' = [r \in Payloads |->
            IF r \in linked /\ Pending(r) THEN [action[r] EXCEPT !.status = "CANCELLED"] ELSE action[r]]
      BY <2>6 DEF UpdateField
    <3>2. retired' = retired \cup SameKey(e, {"AWAITING_APPROVAL", "CANCELLED"})
      BY <2>6 DEF UpdateField
    <3>3. ASSUME NEW p \in Payloads, p.document = e, Linked(p) PROVE p \in linked
      BY <2>2, <3>3 DEF Linked
    <3>4. request'[q].kind = "idle" /\ DOMAIN request' = Requests
          /\ \A r \in Requests \ {q} : request'[r] = request[r]
      BY <2>1, <2>6 DEF UpdateField, Done, Busy, Idle, RowTypes
    <3>. HIDE DEF linked
    <3>5. StagesMove
      BY <2>1, <3>1 DEF StagesMove, RowTypes, Pending
    <3>6. \A p \in Payloads : p \in linked => ~ Pending(p)'
      BY <2>1, <3>1 DEF RowTypes, Pending
    <3>7. \A p \in Payloads :
            LET row == draft[p.document][p.provider]  next == draft'[p.document][p.provider] IN
            next = row \/ (next.version = row.version + 1 /\ ~ next.linked)
      <4>1. \A d \in Documents, v \in Providers :
              draft[d][v] \in Row
              /\ (draft'[d][v] = draft[d][v] \/ draft'[d][v] = Reopened(draft[d][v]))
        BY <2>1, <2>6, EditedRows DEF RowTypes
      <4>. QED BY <2>2, <4>1, ReopenedRows
    <3>8. draft' \in [Documents -> [Providers -> Row]]
      BY <2>6, EditedRows
    <3>9. RowsGrow
      <4>1. \A d \in Documents, v \in Providers :
              /\ draft[d][v] \in Row /\ draft[d][v].version \in Nat
              /\ draft'[d][v] = draft[d][v] \/ draft'[d][v] = Reopened(draft[d][v])
        BY <2>1, <2>6, EditedRows DEF RowTypes, Row
      <4>. QED BY <4>1, ReopenedRows DEF RowsGrow
    <3>10. ASSUME NEW p \in Payloads PROVE ProposalInv(p)'
      <4>1. draft'[p.document][p.provider].version \in Nat /\ draft[p.document][p.provider].version <= draft'[p.document][p.provider].version
        BY <2>2, <3>8, <3>9 DEF RowsGrow, Row
      <4>2. Linked(p)' => Linked(p)
        BY <3>7 DEF Linked
      <4>3. CASE p \in retired' => p \in retired
        BY <3>5, <4>1, <4>2, <4>3, ProposalKept
      <4>4. CASE p \in SameKey(e, {"AWAITING_APPROVAL", "CANCELLED"})
        <5>1. p.document = e /\ action[p].status \in {"AWAITING_APPROVAL", "CANCELLED"}
          BY <4>4 DEF SameKey
        <5>2. action'[p].status \in {"AWAITING_APPROVAL", "CANCELLED"} /\ action'[p].version = action[p].version
          BY <2>1, <3>1, <5>1 DEF RowTypes, Pending
        <5>3. ~ (Pending(p)' /\ Linked(p)')
          BY <3>3, <3>6, <4>2, <5>1
        <5>4. (action[p].version <= draft[p.document][p.provider].version)'
          <6>1. action[p].version <= draft[p.document][p.provider].version /\ action[p].version \in Nat
            BY <2>1 DEF EditInv, ProposalInv, RowTypes
          <6>. QED BY <2>2, <4>1, <5>2, <6>1
        <5>. QED BY <5>2, <5>3, <5>4 DEF ProposalInv
      <4>. QED BY <3>2, <4>3, <4>4
    <3>11. \A p \in Payloads : action[p].status # "NONE" =>
            action'[p].status # "NONE" /\ (Pending(p)' => Pending(p))
      BY <3>5 DEF StagesMove, Pending
    <3>12. ASSUME NEW r \in Requests PROVE RequestInv(r)'
      BY <3>4, <3>8, <3>9, <3>11, RequestsKept
    <3>. QED BY <3>10, <3>12 DEF EditInv
  <2>7. ASSUME NEW q \in Requests, NeedsMapping(q) PROVE EditInv'
    <3>. DEFINE p == request[q].payload
    <3>0. RowTypes
      BY <2>1
    <3>1. p \in Payloads /\ action' = action /\ retired' = retired
      BY <2>1, <2>7 DEF NeedsMapping, RequestTypes
    <3>2. SaveDraft(p, "NEEDS_MAPPING", NoPayload, request[q].version)
      BY <2>7 DEF NeedsMapping
    <3>3. request'[q].kind = "idle" /\ DOMAIN request' = Requests
          /\ \A r \in Requests \ {q} : request'[r] = request[r]
      BY <2>1, <2>7 DEF NeedsMapping, Done, Busy, Idle, RowTypes
    <3>. HIDE DEF p
    <3>4. /\ draft' \in [Documents -> [Providers -> Row]]
          /\ ~ draft'[p.document][p.provider].linked
      <4>1. draft' \in [Documents -> [Providers -> Row]]
        BY <3>0, <3>1, <3>2, SavedRows
      <4>2. ~ draft'[p.document][p.provider].linked
        BY <3>0, <3>1, <3>2, SavedRows, Zenon
      <4>. QED BY <4>1, <4>2
    <3>5. \A d \in Documents, v \in Providers : draft'[d][v] = draft[d][v] \/ (d = p.document /\ v = p.provider)
      BY <3>0, <3>1, <3>2, SavedGrow
    <3>6. RowsGrow
      BY <3>0, <3>1, <3>2, SavedGrow
    <3>7. StagesMove
      BY <3>1 DEF StagesMove
    <3>8. ASSUME NEW r \in Payloads PROVE ProposalInv(r)'
      <4>1. draft'[r.document][r.provider].version \in Nat /\ draft[r.document][r.provider].version <= draft'[r.document][r.provider].version
        BY <2>2, <3>4, <3>6 DEF RowsGrow, Row
      <4>2. Linked(r)' => Linked(r)
        BY <2>2, <3>4, <3>5 DEF Linked
      <4>. QED BY <3>1, <3>7, <4>1, <4>2, ProposalKept
    <3>9. \A r \in Payloads : action[r].status # "NONE" =>
            action'[r].status # "NONE" /\ (Pending(r)' => Pending(r))
      BY <3>1 DEF Pending
    <3>10. ASSUME NEW r \in Requests PROVE RequestInv(r)'
      BY <3>3, <3>4, <3>6, <3>9, RequestsKept
    <3>. QED BY <3>8, <3>10 DEF EditInv
  <2>8. ASSUME NEW q \in Requests, ProposeAction(q) PROVE EditInv'
    <3>0. RowTypes
      BY <2>1
    <3>p. PICK p \in Payloads, n \in Nat : p = request[q].payload /\ n = request[q].version
      BY <2>1, <2>8 DEF ProposeAction, RequestTypes
    <3>1. p \in Payloads /\ retired' = retired /\ n \in Nat
      BY <2>8 DEF ProposeAction
    <3>2. SaveDraft(p, "ACTION_PROPOSED", p, n)
      BY <2>8, <3>p DEF ProposeAction
    <3>3. request'[q].kind = "idle" /\ DOMAIN request' = Requests
          /\ \A r \in Requests \ {q} : request'[r] = request[r]
      BY <2>1, <2>8 DEF ProposeAction, Done, Busy, Idle, RowTypes
    <3>4. n <= draft[p.document][p.provider].version + 1
      BY <2>8, <3>p DEF ProposeAction, EditInv, RequestInv
    <3>5. \A r \in Payloads \ {p} : action'[r] = action[r]
      BY <2>1, <2>8, <3>p DEF ProposeAction, RowTypes
    <3>6. IF action[p] # NoAction THEN action'[p] = action[p]
          ELSE action'[p] = [status |-> "AWAITING_APPROVAL", version |-> n]
      BY <2>1, <2>8, <3>1, <3>p DEF ProposeAction, RowTypes
    <3>7. /\ draft' \in [Documents -> [Providers -> Row]]
          /\ draft'[p.document][p.provider].version = draft[p.document][p.provider].version + 1
          /\ draft'[p.document][p.provider].payload = p
      <4>1. draft' \in [Documents -> [Providers -> Row]]
        BY <3>0, <3>1, <3>2, SavedRows
      <4>2. draft'[p.document][p.provider].version = draft[p.document][p.provider].version + 1
        BY <3>0, <3>1, <3>2, SavedRows, Zenon
      <4>3. draft'[p.document][p.provider].payload = p
        BY <3>0, <3>1, <3>2, SavedRows, Zenon
      <4>. QED BY <4>1, <4>2, <4>3
    <3>8. \A d \in Documents, v \in Providers : draft'[d][v] = draft[d][v] \/ (d = p.document /\ v = p.provider)
      BY <3>0, <3>1, <3>2, SavedGrow
    <3>9. RowsGrow
      BY <3>0, <3>1, <3>2, SavedGrow
    <3>10. ASSUME NEW r \in Payloads \ {p} PROVE ProposalInv(r)'
      <4>1. draft'[r.document][r.provider].version \in Nat /\ draft[r.document][r.provider].version <= draft'[r.document][r.provider].version
        BY <2>2, <3>7, <3>9 DEF RowsGrow, Row
      <4>2. Linked(r)' => Linked(r) /\ draft'[r.document][r.provider] = draft[r.document][r.provider]
        BY <2>2, <3>7, <3>8 DEF Linked
      <4>3. ProposalInv(r) /\ action'[r] = action[r] /\ retired' = retired
            /\ action[r].version \in Nat /\ draft[r.document][r.provider].version \in Nat
        BY <2>1, <2>2, <3>1, <3>5 DEF EditInv, RowTypes
      <4>. QED BY <4>1, <4>2, <4>3 DEF ProposalInv, Pending
    <3>11. ProposalInv(p)'
      <4>1. ProposalInv(p) /\ action[p].version \in Nat /\ draft[p.document][p.provider].version \in Nat
        BY <2>1, <2>2, <3>1 DEF EditInv, RowTypes
      <4>2. CASE action[p] # NoAction
        <5>1. action'[p] = action[p] /\ retired' = retired
          BY <3>1, <3>6, <4>2
        <5>2. (action[p].status = "NONE" => action[p] = NoAction)'
          BY <4>1, <5>1 DEF ProposalInv
        <5>3. (action[p].version < draft[p.document][p.provider].version)'
          BY <3>7, <4>1, <5>1 DEF ProposalInv
        <5>4. action'[p].version \in Nat /\ draft'[p.document][p.provider].version \in Nat
          BY <3>7, <4>1, <5>1
        <5>5. (p \in retired => action[p].status # "NONE")'
          BY <4>1, <5>1 DEF ProposalInv
        <5>. QED BY <5>2, <5>3, <5>4, <5>5 DEF ProposalInv
      <4>3. CASE action[p] = NoAction
        <5>1. action'[p].status = "AWAITING_APPROVAL" /\ action'[p].version = n /\ p \notin retired
          BY <3>6, <4>1, <4>3 DEF ProposalInv, NoAction
        <5>2. (action[p].version <= draft[p.document][p.provider].version)'
          BY <3>4, <3>7, <5>1
        <5>. QED BY <3>1, <5>1, <5>2 DEF ProposalInv
      <4>. QED BY <4>2, <4>3
    <3>12. \A r \in Payloads : action[r].status # "NONE" =>
            action'[r].status # "NONE" /\ (Pending(r)' => Pending(r))
      BY <3>5, <3>6 DEF Pending, NoAction
    <3>13. ASSUME NEW r \in Requests PROVE RequestInv(r)'
      BY <3>3, <3>7, <3>9, <3>12, RequestsKept
    <3>. QED BY <3>10, <3>11, <3>13 DEF EditInv
  <2>9. ASSUME NEW p \in Payloads, NEW s \in {"QUEUED", "POSTED", "CANCELLED"},
               NEW t \in {"QUEUED", "SUCCEEDED", "CANCELLED", "FAILED", "NEEDS_REVIEW"},
               action[p].status # "NONE",
               action' = [action EXCEPT ![p].status = t],
               draft' = Shown(p, s) \/ draft' = ShownById(p, s) \/ draft' = draft,
               retired' = retired, DOMAIN request' = Requests,
               \A q \in Requests : request'[q] = request[q] \/ request'[q].kind = "idle"
        PROVE  EditInv'
    <3>1. StagesMove
      BY <2>1, <2>9 DEF StagesMove, RowTypes
    <3>2. CASE draft' = draft
      BY <2>1, <2>3, <2>9, <3>1, <3>2 DEF RowTypes
    <3>3. CASE draft' = Shown(p, s)
      <4>1. draft' \in [Documents -> [Providers -> Row]]
        BY <2>1, <2>9, <3>3, ShownRows
      <4>2. \A d \in Documents, v \in Providers :
              /\ draft'[d][v].version = draft[d][v].version
              /\ draft'[d][v].payload = draft[d][v].payload
              /\ draft'[d][v].linked = draft[d][v].linked
        BY <2>1, <2>9, <3>3, ShownRows
      <4>. QED BY <2>3, <2>9, <3>1, <4>1, <4>2
    <3>4. CASE draft' = ShownById(p, s)
      <4>1. draft' \in [Documents -> [Providers -> Row]]
        BY <2>1, <2>9, <3>4, ShownByIdRows
      <4>2. \A d \in Documents, v \in Providers :
              /\ draft'[d][v].version = draft[d][v].version
              /\ draft'[d][v].payload = draft[d][v].payload
              /\ draft'[d][v].linked = draft[d][v].linked
        BY <2>1, <2>9, <3>4, ShownByIdRows
      <4>. QED BY <2>3, <2>9, <3>1, <4>1, <4>2
    <3>. QED BY <2>9, <3>2, <3>3, <3>4
  <2>10. ASSUME NEW q \in Requests, ApproveAction(q) PROVE EditInv'
    <3>1. request[q].payload \in Payloads
      BY <2>1, <2>10 DEF ApproveAction, RequestTypes
    <3>2. retired' = retired /\ DOMAIN request' = Requests
          /\ \A r \in Requests : request'[r] = request[r] \/ request'[r].kind = "idle"
      BY <2>1, <2>10 DEF ApproveAction, Done, Busy, Idle, RowTypes
    <3>3. CASE Pending(request[q].payload)
      BY <2>9, <2>10, <3>1, <3>2, <3>3 DEF ApproveAction, Pending
    <3>4. CASE ~ Pending(request[q].payload)
      <4>1. draft' = draft /\ action' = action
        BY <2>10, <3>4 DEF ApproveAction
      <4>2. StagesMove
        BY <4>1 DEF StagesMove
      <4>. QED BY <2>1, <2>3, <3>2, <4>1, <4>2 DEF RowTypes
    <3>. QED BY <3>3, <3>4
  <2>11. ASSUME NEW p \in Payloads,
                CancelAction(p) \/ \E t \in {"FAILED", "NEEDS_REVIEW", "SUCCEEDED"} : Execute(p, t)
         PROVE  EditInv'
    <3>1. CASE CancelAction(p)
      BY <2>1, <2>9, <3>1 DEF CancelAction, RowTypes
    <3>2. ASSUME NEW t \in {"FAILED", "NEEDS_REVIEW", "SUCCEEDED"}, Execute(p, t) PROVE EditInv'
      BY <2>1, <2>9, <3>2 DEF Execute, drafts, RowTypes
    <3>. QED BY <2>11, <3>1, <3>2
  <2>12. ASSUME UNCHANGED <<drafts, action, retired>>, DOMAIN request' = Requests,
                \A q \in Requests : request'[q] = request[q] \/ request'[q].kind \in {"idle", "upload", "edit", "map"}
         PROVE  EditInv'
    <3>1. StagesMove
      BY <2>12 DEF StagesMove
    <3>. QED BY <2>1, <2>3, <2>12, <3>1 DEF drafts, RowTypes
  <2>13. ASSUME NEW q \in Requests,
                \/ RejectUpload(q)
                \/ \E d \in Documents : Upload(q, d)
                \/ \E f \in Fields : StoreUpload(q, f)
                \/ \E d \in Documents, f \in Fields : ReadForEdit(q, d, f)
                \/ \E d \in Documents, v \in Providers, m \in Mappings : ReadForProposal(q, d, v, m)
         PROVE  EditInv'
    <3>1. UNCHANGED <<drafts, action, retired>>
      BY <2>13 DEF RejectUpload, Upload, StoreUpload, ReadForEdit, ReadForProposal
    <3>2. /\ DOMAIN request' = Requests
          /\ \A r \in Requests : request'[r] = request[r] \/ request'[r].kind \in {"idle", "upload", "edit", "map"}
      <4>1. CASE Done(q)
        BY <2>1, <4>1 DEF Done, Busy, Idle, RowTypes
      <4>2. CASE \E d \in Documents : Upload(q, d)
        BY <2>1, <4>2 DEF Upload, Busy, RowTypes
      <4>3. CASE \E d \in Documents, f \in Fields : ReadForEdit(q, d, f)
        BY <2>1, <4>3 DEF ReadForEdit, Busy, RowTypes
      <4>4. CASE \E d \in Documents, v \in Providers, m \in Mappings : ReadForProposal(q, d, v, m)
        BY <2>1, <4>4 DEF ReadForProposal, Busy, RowTypes
      <4>. QED BY <2>13, <4>1, <4>2, <4>3, <4>4 DEF RejectUpload, StoreUpload
    <3>. QED BY <2>12, <3>1, <3>2
  <2>14. ASSUME (\E d \in Documents, s \in {"REJECTED", "NEEDS_INFO"} : SetStatus(d, s)) \/ UNCHANGED vars
         PROVE  EditInv'
    <3>1. UNCHANGED <<drafts, action, retired, request>>
      BY <2>14 DEF SetStatus, vars
    <3>. QED BY <2>1, <2>12, <3>1 DEF RowTypes
  <2>15. ASSUME NEW q \in Requests, NEW p \in Payloads, ReadVerified(q, p) PROVE EditInv'
    <3>1. UNCHANGED <<draft, action, retired>>
      BY <2>15 DEF ReadVerified, drafts
    <3>2. /\ request'[q].kind = "project" /\ request'[q].payload = p
          /\ \A r \in Requests \ {q} : request'[r] = request[r]
      BY <2>1, <2>15 DEF ReadVerified, Busy, RowTypes
    <3>3. action[p].status # "NONE"
      BY <2>15 DEF ReadVerified
    <3>4. RequestInv(q)'
      BY <3>1, <3>2, <3>3 DEF RequestInv
    <3>5. \A r \in Requests \ {q} : RequestInv(r)'
      BY <3>1, <3>2 DEF EditInv, RequestInv, Pending
    <3>6. \A r \in Payloads : ProposalInv(r)'
      BY <3>1 DEF EditInv, ProposalInv, Pending, Linked
    <3>. QED BY <3>4, <3>5, <3>6 DEF EditInv
  <2>16. ASSUME NEW q \in Requests, ProjectVerified(q) PROVE EditInv'
    <3>. DEFINE p == request[q].payload
    <3>1. p \in Payloads /\ action[p].status # "NONE"
      BY <2>1, <2>16 DEF ProjectVerified, RequestTypes, EditInv, RequestInv
    <3>2. retired' = retired /\ DOMAIN request' = Requests
          /\ \A r \in Requests : request'[r] = request[r] \/ request'[r].kind = "idle"
      BY <2>1, <2>16 DEF ProjectVerified, Done, Busy, Idle, RowTypes
    <3>3. action' = [action EXCEPT ![p].status = "SUCCEEDED"] /\ draft' = ShownById(p, "POSTED")
      BY <2>16 DEF ProjectVerified
    <3>. HIDE DEF p
    <3>. QED BY <2>9, <3>1, <3>2, <3>3
  <2>. QED
    BY <2>4, <2>5, <2>6, <2>7, <2>8, <2>10, <2>11, <2>13, <2>14, <2>15, <2>16 DEF Next
<1>3. EditInv => EditsRetireProposals
  BY DEF EditInv, RequestInv, EditsRetireProposals
<1>. QED BY <1>1, <1>2, <1>3, TypesKept, PTL DEF Spec
-----------------------------------------------------------------------------
Doc == [status : {"NONE", "PENDING_REVIEW", "NEEDS_INFO", "REJECTED", "POSTED"},
        fields : Fields \cup {NoFields}, identity : Fields \cup {NoFields}, duplicate : BOOLEAN]
DocumentTypes ==
  /\ document \in [Documents -> Doc]
  /\ \A q \in Requests : request[q].kind = "edit" => request[q].fields \in Fields
Kinds == {"idle", "upload", "edit", "map", "propose", "approve", "project"}
RestInv ==
  /\ DocumentTypes
  /\ \A d \in Documents, v \in Providers : draft[d][v].version <= MaxVersion
  /\ \A q \in Requests : request[q].kind \in Kinds

(* What a decision or a verification writes over a document's row.         *)
LEMMA DocumentStatus ==
  ASSUME NEW r \in Doc, NEW s \in {"PENDING_REVIEW", "NEEDS_INFO", "REJECTED", "POSTED"}
  PROVE  [r EXCEPT !.status = s] \in Doc
BY DEF Doc

(* What an edit writes over a document's row.                              *)
LEMMA DocumentEdited ==
  ASSUME NEW r \in Doc, NEW f \in Fields
  PROVE  [[[r EXCEPT !.fields = f] EXCEPT !.status = "PENDING_REVIEW"] EXCEPT !.duplicate = FALSE] \in Doc
BY DEF Doc

(* The type invariant of the rows.                                         *)
THEOREM TypesHold == Spec => []TypeOK
<1>. USE ReviewAssumption
<1>1. Init => RestInv
  BY DEF Init, RestInv, DocumentTypes, Doc, Kinds, Idle
<1>2. TypeInv /\ RestInv /\ [Next]_vars => RestInv'
  <2>. SUFFICES ASSUME TypeInv, RestInv, [Next]_vars PROVE RestInv'
    OBVIOUS
  <2>0. RowTypes /\ DOMAIN request = Requests /\ document \in [Documents -> Doc]
    BY DEF TypeInv, RowTypes, RestInv, DocumentTypes
  <2>1. \A d \in Documents, v \in Providers : draft[d][v] \in Row /\ draft[d][v].version \in Nat
    BY <2>0 DEF RowTypes, Row
  <2>2. ASSUME document' \in [Documents -> Doc],
               \A d \in Documents, v \in Providers : draft'[d][v].version <= MaxVersion,
               NEW q \in Requests, \A r \in Requests \ {q} : request'[r] = request[r],
               \/ request'[q] = request[q]
               \/ request'[q].kind \in {"idle", "map", "propose", "approve", "project"}
               \/ request'[q].kind = "upload" /\ request'[q].document \in Documents
               \/ request'[q].kind = "edit" /\ request'[q].fields \in Fields
        PROVE  RestInv'
    BY <2>2 DEF RestInv, DocumentTypes, Kinds
  <2>3. \A d \in Documents, v \in Providers : draft[d][v].version <= MaxVersion
    BY DEF RestInv
  <2>4. ASSUME NEW q \in Requests, NEW d \in Documents, Upload(q, d) PROVE RestInv'
    BY <2>0, <2>2, <2>3, <2>4 DEF Upload, Busy, drafts
  <2>5. ASSUME NEW q \in Requests, RejectUpload(q) PROVE RestInv'
    BY <2>0, <2>2, <2>3, <2>5 DEF RejectUpload, Done, Busy, Idle, drafts
  <2>6. ASSUME NEW q \in Requests, NEW f \in Fields, StoreUpload(q, f) PROVE RestInv'
    <3>1. document' \in [Documents -> Doc]
      <4>1. [status |-> "PENDING_REVIEW", fields |-> f, identity |-> f,
             duplicate |-> \E e \in Documents : document[e].identity = f] \in Doc
        BY DEF Doc
      <4>. HIDE DEF Doc
      <4>. QED BY <2>0, <2>6, <4>1 DEF StoreUpload
    <3>2. draft' = draft /\ request' = [request EXCEPT ![q] = Idle]
      BY <2>6 DEF StoreUpload, Done, Busy, drafts
    <3>. QED BY <2>0, <2>2, <2>3, <3>1, <3>2 DEF Idle
  <2>7. ASSUME NEW q \in Requests, NEW d \in Documents, NEW f \in Fields, ReadForEdit(q, d, f) PROVE RestInv'
    BY <2>0, <2>2, <2>3, <2>7 DEF ReadForEdit, Busy, drafts
  <2>8. ASSUME NEW q \in Requests, UpdateField(q) PROVE RestInv'
    <3>1. request[q].document \in Documents
      BY <2>8, EditedRows
    <3>2. document' \in [Documents -> Doc]
      <4>. DEFINE d == request[q].document  f == request[q].fields
                  row == [[[document[d] EXCEPT !.fields = f] EXCEPT !.status = "PENDING_REVIEW"] EXCEPT !.duplicate = FALSE]
      <4>1. f \in Fields
        BY <2>8 DEF UpdateField, RestInv, DocumentTypes
      <4>2. row \in Doc
        BY <2>0, <3>1, <4>1, DocumentEdited
      <4>3. document' = [document EXCEPT ![d] = row]
        BY <2>0, <2>8, <3>1 DEF UpdateField
      <4>. HIDE DEF row, d
      <4>. QED BY <2>0, <4>2, <4>3
    <3>3. ASSUME NEW d \in Documents, NEW v \in Providers PROVE draft'[d][v].version <= MaxVersion
      <4>1. CASE d = request[q].document
        <5>1. draft'[d][v] = Reopened(draft[d][v]) /\ draft[d][v].version < MaxVersion
          BY <2>8, <4>1, EditedRows DEF UpdateField
        <5>. QED BY <2>1, <2>3, <5>1, ReopenedRows
      <4>2. CASE d # request[q].document
        BY <2>3, <2>8, <4>2, EditedRows
      <4>. QED BY <4>1, <4>2
    <3>4. request' = [request EXCEPT ![q] = Idle]
      BY <2>8 DEF UpdateField, Done, Busy
    <3>. QED BY <2>0, <2>2, <3>2, <3>3, <3>4 DEF Idle
  <2>9. ASSUME NEW p \in Payloads, NEW s \in {"NEEDS_MAPPING", "ACTION_PROPOSED"},
               NEW x \in Payloads \cup {NoPayload}, NEW n, SaveDraft(p, s, x, n)
        PROVE  \A d \in Documents, v \in Providers : draft'[d][v].version <= MaxVersion
    <3>1. \A d \in Documents, v \in Providers : draft'[d][v] = draft[d][v] \/ (d = p.document /\ v = p.provider)
      BY <2>0, <2>9, SavedGrow
    <3>2. RowTypes
      BY <2>0
    <3>3. draft'[p.document][p.provider].version = draft[p.document][p.provider].version + 1
      BY <2>9, <3>2, SavedRows, Zenon
    <3>4. p.document \in Documents /\ p.provider \in Providers
      BY DEF Payloads
    <3>5. draft[p.document][p.provider].version < MaxVersion
      BY <2>9 DEF SaveDraft
    <3>6. draft'[p.document][p.provider].version <= MaxVersion
      BY <2>1, <3>3, <3>4, <3>5
    <3>. QED BY <2>3, <3>1, <3>6
  <2>10. ASSUME NEW q \in Requests, NeedsMapping(q) PROVE RestInv'
    <3>1. request[q].payload \in Payloads
      BY <2>10 DEF NeedsMapping, TypeInv, RequestTypes
    <3>2. SaveDraft(request[q].payload, "NEEDS_MAPPING", NoPayload, request[q].version)
      BY <2>10 DEF NeedsMapping
    <3>3. \A d \in Documents, v \in Providers : draft'[d][v].version <= MaxVersion
      BY <2>9, <3>1, <3>2
    <3>4. request' = [request EXCEPT ![q] = Idle] /\ document' = document
      BY <2>10 DEF NeedsMapping, Done, Busy
    <3>. QED BY <2>0, <2>2, <3>3, <3>4 DEF Idle
  <2>11. ASSUME NEW q \in Requests, ProposeAction(q) PROVE RestInv'
    <3>1. request[q].payload \in Payloads
      BY <2>11 DEF ProposeAction, TypeInv, RequestTypes
    <3>2. SaveDraft(request[q].payload, "ACTION_PROPOSED", request[q].payload, request[q].version)
      BY <2>11 DEF ProposeAction
    <3>3. \A d \in Documents, v \in Providers : draft'[d][v].version <= MaxVersion
      BY <2>9, <3>1, <3>2
    <3>4. request' = [request EXCEPT ![q] = Idle] /\ document' = document
      BY <2>11 DEF ProposeAction, Done, Busy
    <3>. QED BY <2>0, <2>2, <3>3, <3>4 DEF Idle
  <2>12. ASSUME NEW q \in Requests,
                \/ ReadVersion(q)
                \/ \E p \in Payloads : ReadForApproval(q, p) \/ ReadVerified(q, p)
                \/ \E d \in Documents, v \in Providers, m \in Mappings : ReadForProposal(q, d, v, m)
         PROVE  RestInv'
    <3>1. document' = document /\ draft' = draft
      BY <2>12 DEF ReadVersion, ReadForApproval, ReadVerified, ReadForProposal, drafts
    <3>2. CASE ReadVersion(q)
      BY <2>0, <2>2, <2>3, <3>1, <3>2 DEF ReadVersion, Busy
    <3>3. CASE \E p \in Payloads : ReadForApproval(q, p)
      BY <2>0, <2>2, <2>3, <3>1, <3>3 DEF ReadForApproval, Busy
    <3>4. CASE \E d \in Documents, v \in Providers, m \in Mappings : ReadForProposal(q, d, v, m)
      BY <2>0, <2>2, <2>3, <3>1, <3>4 DEF ReadForProposal, Busy
    <3>5. CASE \E p \in Payloads : ReadVerified(q, p)
      BY <2>0, <2>2, <2>3, <3>1, <3>5 DEF ReadVerified, Busy
    <3>. QED BY <2>12, <3>2, <3>3, <3>4, <3>5
  <2>13. ASSUME NEW p \in Payloads, NEW s \in {"QUEUED", "POSTED", "CANCELLED"}, draft' = Shown(p, s)
         PROVE  \A d \in Documents, v \in Providers : draft'[d][v].version <= MaxVersion
    <3>1. RowTypes
      BY <2>0
    <3>2. \A d \in Documents, v \in Providers : draft'[d][v].version = draft[d][v].version
      BY <2>13, <3>1, ShownRows
    <3>. QED BY <2>3, <3>2
  <2>14. ASSUME NEW q \in Requests, ApproveAction(q) PROVE RestInv'
    <3>1. request[q].payload \in Payloads
      BY <2>14 DEF ApproveAction, TypeInv, RequestTypes
    <3>2. \A d \in Documents, v \in Providers : draft'[d][v].version <= MaxVersion
      BY <2>3, <2>13, <2>14, <3>1 DEF ApproveAction
    <3>3. request' = [request EXCEPT ![q] = Idle] /\ document' = document
      BY <2>14 DEF ApproveAction, Done, Busy
    <3>. QED BY <2>0, <2>2, <3>2, <3>3 DEF Idle
  <2>15. ASSUME document' \in [Documents -> Doc], request' = request,
                \A d \in Documents, v \in Providers : draft'[d][v].version <= MaxVersion
         PROVE  RestInv'
    BY <2>15 DEF RestInv, DocumentTypes
  <2>16. ASSUME NEW d \in Documents, NEW s \in {"NEEDS_INFO", "REJECTED", "POSTED"},
                document' = [document EXCEPT ![d].status = s]
         PROVE  document' \in [Documents -> Doc]
    <3>. DEFINE row == [document[d] EXCEPT !.status = s]
    <3>1. row \in Doc
      BY <2>0, DocumentStatus
    <3>2. document' = [document EXCEPT ![d] = row]
      BY <2>16
    <3>. HIDE DEF row
    <3>. QED BY <2>0, <3>1, <3>2
  <2>17. ASSUME NEW d \in Documents, NEW s \in {"REJECTED", "NEEDS_INFO"}, SetStatus(d, s) PROVE RestInv'
    BY <2>3, <2>15, <2>16, <2>17 DEF SetStatus, drafts
  <2>18. ASSUME NEW p \in Payloads, CancelAction(p) PROVE RestInv'
    BY <2>0, <2>13, <2>15, <2>18 DEF CancelAction
  <2>19. ASSUME NEW q \in Requests, ProjectVerified(q) PROVE RestInv'
    <3>. DEFINE p == request[q].payload
    <3>1. p \in Payloads /\ p.document \in Documents
      BY <2>19 DEF ProjectVerified, TypeInv, RequestTypes, Payloads
    <3>2. document' \in [Documents -> Doc]
      BY <2>0, <2>16, <2>19, <3>1 DEF ProjectVerified
    <3>3. draft' = ShownById(p, "POSTED") /\ request' = [request EXCEPT ![q] = Idle]
      BY <2>19 DEF ProjectVerified, Done, Busy
    <3>. HIDE DEF p
    <3>4. \A d \in Documents, v \in Providers : draft'[d][v].version <= MaxVersion
      BY <2>0, <2>3, <3>1, <3>3, ShownByIdRows
    <3>. QED BY <2>0, <2>2, <3>2, <3>3, <3>4 DEF Idle
  <2>20. CASE (\E p \in Payloads, s \in {"FAILED", "NEEDS_REVIEW", "SUCCEEDED"} : Execute(p, s)) \/ UNCHANGED vars
    BY <2>0, <2>3, <2>15, <2>20 DEF Execute, drafts, vars
  <2>. QED
    BY <2>4, <2>5, <2>6, <2>7, <2>8, <2>10, <2>11, <2>12, <2>14, <2>17, <2>18, <2>19, <2>20 DEF Next
<1>3. TypeInv /\ RestInv => TypeOK
  <2>. SUFFICES ASSUME TypeInv, RestInv PROVE TypeOK
    OBVIOUS
  <2>1. \A d \in Documents : document[d] \in Doc
    BY DEF RestInv, DocumentTypes
  <2>2. \A d \in Documents, v \in Providers :
          draft[d][v] \in Row /\ draft[d][v].version <= MaxVersion
    BY DEF RestInv, TypeInv, RowTypes
  <2>3. \A d \in Documents, v \in Providers :
          draft[d][v].version \in 0..MaxVersion /\ draft[d][v].payload \in Payloads \cup {NoPayload}
    BY <2>2 DEF Row
  <2>. QED BY <2>1, <2>3 DEF Doc, TypeOK, TypeInv, RowTypes, RestInv, Kinds
<1>. QED BY <1>1, <1>2, <1>3, TypesKept, PTL DEF Spec
=============================================================================
