--------------------------- MODULE GstReturn_proofs ---------------------------
(* Proofs about GstReturn: what holds for every number of periods, papers, *)
(* uploads and documents, and every order of the requests.                 *)
EXTENDS GstReturn, FiniteSetTheorems, TLAPS

(***************************************************************************)
(* Approvals.  A paper keeps its approval (approved_source_hash) when its  *)
(* return changes, and becomes stale; the constraint admits no paper that  *)
(* is stale where an approved one is wanted.                               *)
(***************************************************************************)

Statuses == {"NONE", "DATA_REQUIRED", "NEEDS_REVIEW"} \cup Final
PaperTypes ==
  /\ status \in [Papers -> Statuses]
  /\ approved \in [Papers -> BOOLEAN] /\ stale \in [Papers -> BOOLEAN]
  /\ packing \in [Packers -> Papers \cup {NoPaper}]
  /\ moved \subseteq Papers /\ filedOnce \subseteq Papers

PaperInv(w) ==
  /\ status[w] \in {"NONE", "DATA_REQUIRED"} => ~approved[w]
  /\ status[w] = "NEEDS_REVIEW" /\ approved[w] => stale[w]
  /\ status[w] \in Final => approved[w] /\ ~stale[w]
  /\ status[w] \in Filed => w \in filedOnce
  /\ w \in moved /\ approved[w] /\ ~stale[w] => w \in filedOnce
PapersInv == PaperTypes /\ \A w \in Papers : PaperInv(w)

(* What sends papers back to review keeps them consistent, when it records *)
(* at most what was approved as overtaken.                                 *)
LEMMA SendingBack ==
  ASSUME PapersInv, NEW rs, SentBack(rs), UNCHANGED <<packing, filedOnce>>,
         moved' = moved \/ Overtaken(rs)
  PROVE  PapersInv'
<1>. USE DEF PapersInv, PaperTypes, Statuses, Final, Current, Filed, SentBack, Outdated, Overtaken
<1>1. PaperTypes'
  OBVIOUS
<1>2. ASSUME NEW w \in Papers PROVE PaperInv(w)'
  <2>1. CASE w[1] \in rs /\ status[w] \in Current
    BY <2>1 DEF PaperInv
  <2>2. CASE ~ (w[1] \in rs /\ status[w] \in Current)
    <3>1. status'[w] = status[w] /\ stale'[w] = stale[w] /\ approved'[w] = approved[w]
      BY <2>2
    <3>2. w \in moved' /\ w \notin moved => w[1] \in rs /\ approved[w]
      OBVIOUS
    <3>. QED BY <2>2, <3>1, <3>2 DEF PaperInv
  <2>. QED BY <2>1, <2>2
<1>. QED BY <1>1, <1>2

(* The papers are consistent in every reachable state.                     *)
LEMMA PapersKept == Spec => []PapersInv
<1>. USE GstReturnAssumption DEF evidence, papers
<1>1. Init => PapersInv
  BY DEF Init, PapersInv, PaperTypes, PaperInv, Statuses, Final, Current, Filed
<1>2. PapersInv /\ [Next]_vars => PapersInv'
  <2>. SUFFICES ASSUME PapersInv, [Next]_vars PROVE PapersInv'
    OBVIOUS
  <2>1. ASSUME NEW p \in Periods, ChangeRegister(p) \/ RewriteRegister(p) PROVE PapersInv'
    BY <2>1, SendingBack DEF ChangeRegister, RewriteRegister, MarkStaleFromRegister
  <2>2. ASSUME NEW u \in Uploads, NEW d \in Documents, NEW x \in Decisions, Decide(u, d, x)
        PROVE  PapersInv'
    BY <2>2, SendingBack DEF Decide
  <2>3. ASSUME NEW u \in Uploads, BulkAccept(u) PROVE PapersInv'
    BY <2>3, SendingBack DEF BulkAccept
  <2>4. ASSUME NEW r \in Returns, NEW v \in Versions, NEW adj \in Adjustments, Prepare(r, v, adj)
        PROVE  PapersInv'
    <3>. DEFINE new == <<r, v>>
    <3>. USE <2>4 DEF PapersInv, PaperTypes, Statuses, Final, Current, Filed, Prepare, Papers
    <3>1. PaperTypes'
      OBVIOUS
    <3>2. ASSUME NEW w \in Papers, w # new PROVE PaperInv(w)'
      <4>1. status'[w] = status[w] /\ approved'[w] = approved[w] /\ moved' = moved /\ filedOnce' = filedOnce
        BY <3>2
      <4>2. stale[w] => stale'[w]
        BY <3>2
      <4>3. status[w] \in Final \/ ~approved[w] => stale'[w] = stale[w]
        BY <3>2
      <4>. QED BY <3>2, <4>1, <4>2, <4>3 DEF PaperInv
    <3>3. PaperInv(new)'
      <4>1. new \in Papers /\ status[new] = "NONE" /\ ~approved[new]
        BY DEF PaperInv
      <4>2. status'[new] \in {"NEEDS_REVIEW", "DATA_REQUIRED"} /\ ~approved'[new]
        BY <4>1
      <4>. QED BY <4>1, <4>2 DEF PaperInv
    <3>. QED BY <3>1, <3>2, <3>3
  <2>5. ASSUME NEW w \in Papers, Approve(w) PROVE PapersInv'
    BY <2>5 DEF Approve, PapersInv, PaperTypes, PaperInv, Statuses, Final, Current, Filed
  <2>6. ASSUME NEW w \in Papers, FileExternally(w) PROVE PapersInv'
    BY <2>6 DEF FileExternally, PapersInv, PaperTypes, PaperInv, Statuses, Final, Current, Filed
  <2>7. ASSUME NEW w \in Papers, Acknowledge(w) PROVE PapersInv'
    BY <2>7 DEF Acknowledge, PapersInv, PaperTypes, PaperInv, Statuses, Final, Current, Filed
  <2>8. ASSUME NEW q \in Packers, MakePack(q) PROVE PapersInv'
    BY <2>8 DEF MakePack, Admissible, PapersInv, PaperTypes, PaperInv, Statuses, Final, Current, Filed
  <2>9. ASSUME NEW q \in Packers, NEW w \in Papers, ReadForPack(q, w) PROVE PapersInv'
    BY <2>9 DEF ReadForPack, PapersInv, PaperTypes, PaperInv
  <2>10. CASE UNCHANGED <<status, approved, stale, packing, moved, filedOnce>>
    BY <2>10 DEF PapersInv, PaperTypes, PaperInv
  <2>. QED
    BY <2>1, <2>2, <2>3, <2>4, <2>5, <2>6, <2>7, <2>8, <2>9, <2>10 DEF Next, vars, ActivateRules, CreateRun
<1>. QED BY <1>1, <1>2, PTL DEF Spec

(* What is approved, packed or filed was approved after the last change of *)
(* its registers and matches, whatever a pack under way read               *)
(* (gst_workpapers.py make_pack, and the triggers and the CHECK).          *)
THEOREM ApprovalsAlwaysHold == Spec => []ApprovalsHold
<1>1. PapersInv => ApprovalsHold
  BY DEF PapersInv, PaperTypes, PaperInv, ApprovalsHold, Final
<1>. QED BY <1>1, PapersKept, PTL

(***************************************************************************)
(* Claims.  A claim counts the runs there were when it was made; a run is  *)
(* numbered when it is made, and warns of the claims there are by then.    *)
(***************************************************************************)

Result == [bucket : {"EXACT", "OTHER", "NONE"}, warned : BOOLEAN, decision : Decisions]
Unwarned(u, d) == results[u][d].bucket = "EXACT" /\ ~results[u][d].warned

EvidenceTypes ==
  /\ DOMAIN runs = Uploads
  /\ \A u \in Uploads : runs[u].order \in Nat
  /\ results \in [Uploads -> [Documents -> Result]]
  /\ DOMAIN claims = Documents
  /\ \A d \in Documents : claims[d].order \in Nat
ClaimInv ==
  /\ EvidenceTypes
  /\ \A u \in Uploads : runs[u].order <= Cardinality(Imported)
  /\ \A u \in Uploads : runs[u] = NoRun => \A d \in Documents : ~Unwarned(u, d)
  /\ \A u \in Uploads, d \in ClaimedKeys : Unwarned(u, d) => claims[d].order >= runs[u].order

(* A decision leaves what the run found.                                   *)
LEMMA ResultUpdates ==
  ASSUME NEW r \in Result, NEW x \in Decisions
  PROVE  /\ [r EXCEPT !.decision = x] \in Result
         /\ [r EXCEPT !.decision = x].bucket = r.bucket
         /\ [r EXCEPT !.decision = x].warned = r.warned
BY DEF Result

(* The runs that were made are counted.                                    *)
LEMMA RunsCounted == IsFiniteSet(Imported) /\ Cardinality(Imported) \in Nat
BY GstReturnAssumption, FS_Subset, FS_CardinalityType DEF Imported

(* Claims and results agree in every reachable state.                      *)
LEMMA ClaimsKept == Spec => []ClaimInv
<1>. USE GstReturnAssumption DEF evidence, papers
<1>1. Init => ClaimInv
  <2>. SUFFICES ASSUME Init PROVE ClaimInv
    OBVIOUS
  <2>1. EvidenceTypes
    BY DEF Init, EvidenceTypes, Result, NoResult, Decisions, NoRun, NoClaim
  <2>2. \A u \in Uploads, d \in Documents : ~Unwarned(u, d)
    BY DEF Init, Unwarned, NoResult
  <2>3. \A u \in Uploads : runs[u].order = 0
    BY DEF Init, NoRun
  <2>. QED BY <2>1, <2>2, <2>3, RunsCounted DEF ClaimInv, ClaimedKeys
<1>2. ClaimInv /\ [Next]_vars => ClaimInv'
  <2>. SUFFICES ASSUME ClaimInv, [Next]_vars PROVE ClaimInv'
    OBVIOUS
  <2>1. ASSUME NEW u \in Uploads, NEW p \in Periods, NEW identical \in BOOLEAN,
               NEW exact \in SUBSET Documents, CreateRun(u, p, identical, exact)
        PROVE  ClaimInv'
    <3>1. runs[u] = NoRun /\ runs'[u] # NoRun /\ runs'[u].order = Cardinality(Imported) + 1
      BY <2>1 DEF CreateRun, ClaimInv, EvidenceTypes, NoRun
    <3>2. \A t \in Uploads \ {u} : runs'[t] = runs[t] /\ results'[t] = results[t]
      BY <2>1 DEF CreateRun, ClaimInv, EvidenceTypes
    <3>3. claims' = claims
      BY <2>1 DEF CreateRun
    <3>4. Imported' = Imported \cup {u} /\ u \notin Imported
      BY <3>1, <3>2 DEF Imported
    <3>5. Cardinality(Imported') = Cardinality(Imported) + 1
      BY <3>4, RunsCounted, FS_AddElement
    <3>6. results' \in [Uploads -> [Documents -> Result]]
      BY <2>1 DEF CreateRun, ClaimInv, EvidenceTypes, Result, Decisions
    <3>7. ASSUME NEW d \in ClaimedKeys PROVE ~Unwarned(u, d)'
      <4>1. CASE identical
        BY <2>1, <3>7, <4>1 DEF CreateRun, ClaimInv, EvidenceTypes, Unwarned, ClaimedKeys
      <4>2. CASE ~identical
        BY <2>1, <3>7, <4>2 DEF CreateRun, ClaimInv, EvidenceTypes, Unwarned, ClaimedKeys
      <4>. QED BY <4>1, <4>2
    <3>8. EvidenceTypes'
      BY <2>1, <3>1, <3>2, <3>3, <3>6, RunsCounted DEF EvidenceTypes, ClaimInv, CreateRun
    <3>9. \A t \in Uploads : runs'[t].order <= Cardinality(Imported')
      BY <3>1, <3>2, <3>5, RunsCounted DEF ClaimInv, EvidenceTypes
    <3>10. \A t \in Uploads : runs'[t] = NoRun => \A d \in Documents : ~Unwarned(t, d)'
      BY <3>1, <3>2 DEF ClaimInv, Unwarned
    <3>11. \A t \in Uploads, d \in ClaimedKeys' : Unwarned(t, d)' => claims'[d].order >= runs'[t].order
      BY <3>2, <3>3, <3>7 DEF ClaimInv, Unwarned, ClaimedKeys
    <3>. QED BY <3>8, <3>9, <3>10, <3>11 DEF ClaimInv
  <2>2. ASSUME results' \in [Uploads -> [Documents -> Result]], runs' = runs,
               \A u \in Uploads, d \in Documents :
                 /\ results'[u][d].bucket = results[u][d].bucket
                 /\ results'[u][d].warned = results[u][d].warned,
               DOMAIN claims' = Documents,
               \A d \in Documents : \/ claims'[d] = claims[d]
                                    \/ claims'[d].order = Cardinality(Imported)
        PROVE  ClaimInv'
    <3>1. EvidenceTypes'
      BY <2>2, RunsCounted DEF EvidenceTypes, ClaimInv
    <3>2. Imported' = Imported
      BY <2>2 DEF Imported
    <3>3. \A t \in Uploads, d \in Documents : Unwarned(t, d)' <=> Unwarned(t, d)
      BY <2>2 DEF Unwarned
    <3>4. ASSUME NEW t \in Uploads, NEW d \in ClaimedKeys', Unwarned(t, d)'
          PROVE  claims'[d].order >= runs'[t].order
      <4>1. d \in Documents /\ claims'[d] # NoClaim
        BY DEF ClaimedKeys
      <4>2. CASE claims'[d] = claims[d]
        BY <2>2, <3>3, <3>4, <4>1, <4>2 DEF ClaimInv, ClaimedKeys
      <4>3. CASE claims'[d].order = Cardinality(Imported)
        BY <2>2, <4>3, RunsCounted DEF ClaimInv, EvidenceTypes
      <4>. QED BY <2>2, <4>1, <4>2, <4>3
    <3>. QED BY <2>2, <3>1, <3>2, <3>3, <3>4 DEF ClaimInv
  <2>3. ASSUME NEW u \in Uploads, NEW d \in Documents, NEW x \in Decisions, Decide(u, d, x)
        PROVE  ClaimInv'
    <3>. DEFINE row == [results[u][d] EXCEPT !.decision = x]
    <3>1. results[u][d] \in Result /\ results \in [Uploads -> [Documents -> Result]]
      BY DEF ClaimInv, EvidenceTypes
    <3>2. row \in Result /\ row.bucket = results[u][d].bucket /\ row.warned = results[u][d].warned
      BY <3>1, ResultUpdates
    <3>3. results' = [results EXCEPT ![u] = [results[u] EXCEPT ![d] = row]]
      BY <2>3 DEF Decide
    <3>. HIDE DEF row
    <3>4. results' \in [Uploads -> [Documents -> Result]]
      BY <3>1, <3>2, <3>3
    <3>5. \A t \in Uploads, e \in Documents : results'[t][e] = results[t][e] \/ (t = u /\ e = d /\ results'[t][e] = row)
      BY <3>1, <3>3
    <3>. QED BY <2>2, <2>3, <3>2, <3>4, <3>5 DEF Decide, ClaimInv, EvidenceTypes
  <2>4. ASSUME NEW u \in Uploads, BulkAccept(u) PROVE ClaimInv'
    <3>. DEFINE row(d) == [results[u][d] EXCEPT !.decision = "ACCEPTED"]
                rows == [d \in Documents |-> IF d \in Clean(u) THEN row(d) ELSE results[u][d]]
    <3>1. results \in [Uploads -> [Documents -> Result]]
      BY DEF ClaimInv, EvidenceTypes
    <3>2. \A d \in Documents :
             row(d) \in Result /\ row(d).bucket = results[u][d].bucket /\ row(d).warned = results[u][d].warned
      <4>1. "ACCEPTED" \in Decisions /\ \A d \in Documents : results[u][d] \in Result
        BY <3>1 DEF Decisions
      <4>. QED BY <4>1, ResultUpdates
    <3>3. results' = [results EXCEPT ![u] = rows]
      BY <2>4 DEF BulkAccept
    <3>. HIDE DEF row
    <3>4. results' \in [Uploads -> [Documents -> Result]]
      BY <3>1, <3>2, <3>3
    <3>5. \A t \in Uploads, e \in Documents : results'[t][e] = results[t][e] \/ (t = u /\ results'[t][e] = row(e))
      BY <3>1, <3>3
    <3>6. \A t \in Uploads, e \in Documents :
            results'[t][e].bucket = results[t][e].bucket /\ results'[t][e].warned = results[t][e].warned
      BY <3>2, <3>5
    <3>7. DOMAIN claims' = Documents
          /\ \A d \in Documents : claims'[d] = claims[d] \/ claims'[d].order = Cardinality(Imported)
      BY <2>4 DEF BulkAccept, Claim
    <3>. QED BY <2>2, <2>4, <3>4, <3>6, <3>7 DEF BulkAccept
  <2>5. CASE UNCHANGED evidence
    BY <2>2, <2>5 DEF ClaimInv, EvidenceTypes
  <2>6. ASSUME NEW u \in Uploads, NEW p \in Periods,
               CreateRun(u, p, FALSE, {}) \/ \E exact \in SUBSET Documents : CreateRun(u, p, TRUE, exact)
        PROVE  ClaimInv'
    <3>1. {} \in SUBSET Documents
      OBVIOUS
    <3>2. CASE CreateRun(u, p, FALSE, {})
      BY <2>1, <3>1, <3>2, Zenon
    <3>3. CASE \E exact \in SUBSET Documents : CreateRun(u, p, TRUE, exact)
      BY <2>1, <3>3, Zenon
    <3>. QED BY <2>6, <3>2, <3>3
  <2>. QED
    BY <2>3, <2>4, <2>5, <2>6 DEF Next, vars, ActivateRules, ChangeRegister, RewriteRegister, Prepare,
       Approve, ReadForPack, MakePack, FileExternally, Acknowledge
<1>. QED BY <1>1, <1>2, PTL DEF Spec

(* A claim stays that of the period it was made in, and a document claimed *)
(* before a file was imported is never among that file's clean matches     *)
(* (gstr2b_runs.py create_run, bulk_accept).                               *)
THEOREM ClaimsAlwaysStand == Spec => ClaimsStand
<1>1. ClaimInv /\ [Next]_vars
        => [\A d \in ClaimedKeys :
              /\ claims'[d] = claims[d]
              /\ \A u \in Uploads : d \in Clean(u) => claims[d].order >= runs[u].order]_vars
  <2>. SUFFICES ASSUME ClaimInv, Next, NEW d \in ClaimedKeys
                PROVE  /\ claims'[d] = claims[d]
                       /\ \A u \in Uploads : d \in Clean(u) => claims[d].order >= runs[u].order
    BY DEF vars
  <2>1. claims'[d] = claims[d]
    <3>1. d \in Documents /\ claims[d] # NoClaim
      BY DEF ClaimedKeys
    <3>2. CASE \E u \in Uploads : BulkAccept(u)
      BY <3>1, <3>2 DEF BulkAccept, Claim
    <3>3. CASE claims' = claims
      BY <3>3
    <3>. QED
      BY <3>2, <3>3 DEF Next, evidence, ActivateRules, ChangeRegister, RewriteRegister, CreateRun,
         Decide, Prepare, Approve, ReadForPack, MakePack, FileExternally, Acknowledge
  <2>2. \A u \in Uploads : d \in Clean(u) => claims[d].order >= runs[u].order
    BY DEF ClaimInv, Clean, Unwarned
  <2>. QED BY <2>1, <2>2
<1>. QED BY <1>1, ClaimsKept, PTL DEF Spec, ClaimsStand

(***************************************************************************)
(* Types.                                                                  *)
(***************************************************************************)

RestInv ==
  /\ rules \in BOOLEAN
  /\ register \in [Periods -> Nat] /\ \A p \in Periods : register[p] <= MaxChanges[p]
  /\ \A u \in Uploads : runs[u] # NoRun =>
       runs[u].period \in Periods /\ runs[u].order \in 1..Cardinality(Uploads)
  /\ \A d \in Documents : claims[d] # NoClaim => claims[d].period \in Periods
  /\ source \in [Papers -> Sources]
  /\ acknowledged \subseteq Papers

(* The type invariant of the rows, which the two parts above rest on.      *)
THEOREM TypesHold == Spec => []TypeOK
<1>. USE GstReturnAssumption DEF evidence, papers
<1>1. Init => RestInv
  <2>. SUFFICES ASSUME Init PROVE RestInv
    OBVIOUS
  <2>1. NoSource \in Sources
    BY DEF NoSource, Sources
  <2>2. source \in [Papers -> Sources] /\ rules \in BOOLEAN /\ acknowledged \subseteq Papers
    BY <2>1 DEF Init
  <2>3. register \in [Periods -> Nat] /\ \A p \in Periods : register[p] <= MaxChanges[p]
    BY DEF Init
  <2>. QED BY <2>2, <2>3 DEF Init, RestInv
<1>2. ClaimInv /\ RestInv /\ [Next]_vars => RestInv'
  <2>. SUFFICES ASSUME ClaimInv, RestInv, [Next]_vars PROVE RestInv'
    OBVIOUS
  <2>1. ASSUME NEW p \in Periods, ChangeRegister(p) PROVE RestInv'
    <3>1. register' = [register EXCEPT ![p] = register[p] + 1] /\ register[p] < MaxChanges[p]
      BY <2>1 DEF ChangeRegister
    <3>2. register' \in [Periods -> Nat] /\ \A q \in Periods : register'[q] <= MaxChanges[q]
      BY <3>1 DEF RestInv
    <3>. QED BY <2>1, <3>2 DEF ChangeRegister, MarkStaleFromRegister, SentBack, RestInv
  <2>2. ASSUME NEW u \in Uploads, NEW p \in Periods, NEW identical \in BOOLEAN,
               NEW exact \in SUBSET Documents, CreateRun(u, p, identical, exact)
        PROVE  RestInv'
    <3>1. u \notin Imported
      BY <2>2 DEF CreateRun, Imported
    <3>2. Cardinality(Imported \cup {u}) = Cardinality(Imported) + 1
      BY <3>1, RunsCounted, FS_AddElement
    <3>3. Imported \cup {u} \subseteq Uploads
      BY DEF Imported
    <3>4. Cardinality(Imported \cup {u}) <= Cardinality(Uploads) /\ Cardinality(Uploads) \in Nat
      BY <3>3, FS_Subset, FS_CardinalityType
    <3>5. Cardinality(Imported) + 1 \in 1..Cardinality(Uploads)
      BY <3>2, <3>4, RunsCounted
    <3>6. runs'[u].period = p /\ runs'[u].order = Cardinality(Imported) + 1
      BY <2>2 DEF CreateRun, ClaimInv, EvidenceTypes
    <3>7. \A t \in Uploads \ {u} : runs'[t] = runs[t]
      BY <2>2 DEF CreateRun, ClaimInv, EvidenceTypes
    <3>. QED BY <2>2, <3>5, <3>6, <3>7 DEF CreateRun, RestInv
  <2>3. ASSUME NEW u \in Uploads, BulkAccept(u) PROVE RestInv'
    <3>1. runs[u].period \in Periods
      BY <2>3 DEF BulkAccept, Clean, ClaimInv, Unwarned, RestInv
    <3>2. \A d \in Documents : claims'[d] = claims[d] \/ claims'[d].period = runs[u].period
      BY <2>3 DEF BulkAccept, Claim
    <3>. QED BY <2>3, <3>1, <3>2 DEF BulkAccept, SentBack, RestInv
  <2>4. ASSUME NEW r \in Returns, NEW v \in Versions, NEW adj \in Adjustments, Prepare(r, v, adj)
        PROVE  RestInv'
    <3>1. r[1] \in Periods
      OBVIOUS
    <3>2. [register |-> register[r[1]], adjustment |-> adj] \in Sources
      BY <3>1 DEF Sources, RestInv
    <3>. QED BY <2>4, <3>2 DEF Prepare, RestInv
  <2>5. ASSUME NEW w \in Papers, Acknowledge(w) PROVE RestInv'
    BY <2>5 DEF Acknowledge, RestInv
  <2>6. CASE rules' \in BOOLEAN /\ UNCHANGED <<register, runs, claims, source, acknowledged>>
    BY <2>6 DEF RestInv
  <2>7. ASSUME NEW u \in Uploads, NEW p \in Periods,
               CreateRun(u, p, FALSE, {}) \/ \E exact \in SUBSET Documents : CreateRun(u, p, TRUE, exact)
        PROVE  RestInv'
    <3>1. {} \in SUBSET Documents
      OBVIOUS
    <3>2. CASE CreateRun(u, p, FALSE, {})
      BY <2>2, <3>1, <3>2, Zenon
    <3>3. CASE \E exact \in SUBSET Documents : CreateRun(u, p, TRUE, exact)
      BY <2>2, <3>3, Zenon
    <3>. QED BY <2>7, <3>2, <3>3
  <2>8. CASE ActivateRules \/ (\E p \in Periods : RewriteRegister(p))
             \/ (\E u \in Uploads, d \in Documents, x \in Decisions : Decide(u, d, x)) \/ UNCHANGED vars
    BY <2>6, <2>8 DEF RestInv, vars, ActivateRules, RewriteRegister, MarkStaleFromRegister, SentBack, Decide
  <2>9. CASE (\E w \in Papers : Approve(w) \/ FileExternally(w))
             \/ (\E q \in Packers : MakePack(q) \/ \E w \in Papers : ReadForPack(q, w))
    BY <2>6, <2>9 DEF RestInv, Approve, FileExternally, MakePack, ReadForPack
  <2>. QED
    BY <2>1, <2>3, <2>4, <2>5, <2>7, <2>8, <2>9 DEF Next
<1>3. PapersInv /\ ClaimInv /\ RestInv => TypeOK
  <2>. SUFFICES ASSUME PapersInv, ClaimInv, RestInv PROVE TypeOK
    OBVIOUS
  <2>1. \A p \in Periods : register[p] \in 0..MaxChanges[p]
    BY DEF RestInv
  <2>2. \A u \in Uploads, d \in Documents : results[u][d].decision \in Decisions
    <3>1. \A u \in Uploads, d \in Documents : results[u][d] \in Result
      BY DEF ClaimInv, EvidenceTypes
    <3>. QED BY <3>1 DEF Result
  <2>. QED BY <2>1, <2>2 DEF TypeOK, RestInv, PapersInv, PaperTypes, Statuses
<1>. QED BY <1>1, <1>2, <1>3, PapersKept, ClaimsKept, PTL DEF Spec
=============================================================================
