------------------------------ MODULE GstReturn ------------------------------
(***************************************************************************)
(* The GST returns of one client: what is imported from GSTR-2B and        *)
(* decided on, the workpapers prepared from the verified registers, and    *)
(* how they are approved, packed, filed by hand and acknowledged           *)
(* (gstr2b_runs.py, gst_workpapers.py, gst_rules.py and the triggers and   *)
(* constraints of their migrations).                                       *)
(*                                                                         *)
(* A request is one database transaction (api/deps.py get_db), so a        *)
(* handler is one action, except make_pack: it reads the paper without a   *)
(* lock and updates it by its id alone, and other requests come between.   *)
(***************************************************************************)
EXTENDS Integers, FiniteSets

CONSTANTS
  Periods,       \* tax periods
  Returns,       \* the returns filed: a period and a type
  Documents,     \* canonical identities of 2B documents
  Uploads,       \* 2B files, by content
  Packers,       \* requests that may make a pack at one time
  Adjustments,   \* what a preparer may adjust
  MaxChanges,    \* bound: changes of each period's registers
  MaxVersions,   \* bound: workpapers prepared for a return
  NoAdjustment   \* one of Adjustments: none

Types == {"GSTR1", "GSTR3B"}

ASSUME GstReturnAssumption ==
  /\ Returns \subseteq Periods \X Types
  /\ IsFiniteSet(Uploads)
  /\ MaxChanges \in [Periods -> Nat] /\ MaxVersions \in Nat
  /\ NoAdjustment \in Adjustments

Versions == 1..MaxVersions
Papers == Returns \X Versions
Decisions == {"PENDING", "ACCEPTED", "REJECTED"}
Current == {"APPROVED", "READY_FOR_MANUAL_FILING"}
Filed == {"FILED_EXTERNALLY", "COMPLETED"}
Final == Current \cup Filed

(* The hash of the sources: the versions of the rows and the adjustments.  *)
Sources == [register : Nat, adjustment : Adjustments]

VARIABLES
  rules,      \* whether GST rules were activated
  register,   \* per period, how often its registers changed; 0: no verified row
  runs,       \* the import run of each upload
  results,    \* what a run found for each document
  claims,     \* ITC claim history: the period and the runs there were
  status,     \* of each workpaper; "NONE" before it is prepared
  source,     \* source_hash of each workpaper
  approved,   \* whether approved_source_hash is set; it equals source_hash
  stale,      \* of each workpaper
  packing,    \* the paper each make_pack request has read as approved
  acknowledged, \* papers with an acknowledgement
  moved,      \* history: papers whose return changed after their approval
  filedOnce   \* history: papers that were ever filed

evidence == <<runs, results, claims>>
papers == <<status, source, approved, stale>>
vars == <<rules, register, runs, results, claims, status, source, approved,
          stale, packing, acknowledged, moved, filedOnce>>

NoPaper == <<>>
NoRun == [status |-> "NONE", order |-> 0, period |-> "NONE"]
NoResult == [bucket |-> "NONE", warned |-> FALSE, decision |-> "PENDING"]
NoClaim == [period |-> "NONE", order |-> 0]
NoSource == [register |-> 0, adjustment |-> NoAdjustment]
Imported == {u \in Uploads : runs[u] # NoRun}

TypeOK ==
  /\ rules \in BOOLEAN
  /\ \A p \in Periods : register[p] \in 0..MaxChanges[p]
  /\ \A u \in Uploads :
       runs[u] = NoRun \/ (runs[u].period \in Periods /\ runs[u].order \in 1..Cardinality(Uploads))
  /\ \A u \in Uploads, d \in Documents : results[u][d].decision \in Decisions
  /\ \A d \in Documents : claims[d] = NoClaim \/ claims[d].period \in Periods
  /\ status \in [Papers -> {"NONE", "DATA_REQUIRED", "NEEDS_REVIEW"} \cup Final]
  /\ source \in [Papers -> Sources]
  /\ approved \in [Papers -> BOOLEAN] /\ stale \in [Papers -> BOOLEAN]
  /\ packing \in [Packers -> Papers \cup {NoPaper}]
  /\ acknowledged \subseteq Papers /\ moved \subseteq Papers /\ filedOnce \subseteq Papers

Init ==
  /\ rules = FALSE
  /\ register = [p \in Periods |-> 0]
  /\ runs = [u \in Uploads |-> NoRun]
  /\ results = [u \in Uploads |-> [d \in Documents |-> NoResult]]
  /\ claims = [d \in Documents |-> NoClaim]
  /\ status = [w \in Papers |-> "NONE"]
  /\ source = [w \in Papers |-> NoSource]
  /\ approved = [w \in Papers |-> FALSE]
  /\ stale = [w \in Papers |-> FALSE]
  /\ packing = [q \in Packers |-> NoPaper]
  /\ acknowledged = {} /\ moved = {} /\ filedOnce = {}

(***************************************************************************)
(* Registers and rules.                                                    *)
(***************************************************************************)

(* The papers that a change of the returns rs sends back to review.        *)
Outdated(rs) == {w \in Papers : w[1] \in rs /\ status[w] \in Current}
SentBack(rs) ==
  /\ status' = [w \in Papers |-> IF w \in Outdated(rs) THEN "NEEDS_REVIEW" ELSE status[w]]
  /\ stale' = [w \in Papers |-> stale[w] \/ w \in Outdated(rs)]
  /\ UNCHANGED <<source, approved>>
Overtaken(rs) == moved' = moved \cup {w \in Papers : w[1] \in rs /\ approved[w]}

(* A row of a register is inserted or one of the columns the trigger names *)
(* is written.                                                             *)
MarkStaleFromRegister(p) == SentBack({p} \X Types)
ChangeRegister(p) ==
  /\ register[p] < MaxChanges[p]
  /\ register' = [register EXCEPT ![p] = @ + 1]
  /\ MarkStaleFromRegister(p) /\ Overtaken({p} \X Types)
  /\ UNCHANGED <<rules, evidence, packing, acknowledged, filedOnce>>

(* Reading the GST summary, or synchronising again, writes every invoice's *)
(* total as it was: nothing changed, and the trigger fires all the same.   *)
RewriteRegister(p) ==
  /\ register[p] > 0
  /\ MarkStaleFromRegister(p)
  /\ UNCHANGED <<rules, register, evidence, packing, acknowledged, moved, filedOnce>>

ActivateRules ==
  /\ rules' = TRUE
  /\ UNCHANGED <<register, evidence, papers, packing, acknowledged, moved, filedOnce>>

(***************************************************************************)
(* GSTR-2B.                                                                *)
(***************************************************************************)

(* Documents claimed before: those for which a warning is recorded.        *)
ClaimedKeys == {d \in Documents : claims[d] # NoClaim}

(* One file is imported once, whatever period is selected the second time. *)
(* A file of another taxpayer or period is recorded without results.       *)
CreateRun(u, p, identical, exact) ==
  /\ runs[u] = NoRun
  /\ runs' = [runs EXCEPT ![u] =
       [status |-> IF identical THEN "RECONCILED" ELSE "IDENTITY_MISMATCH",
        order |-> Cardinality(Imported) + 1, period |-> p]]
  /\ results' = IF ~identical THEN results ELSE [results EXCEPT ![u] =
       [d \in Documents |->
          [bucket |-> IF d \in exact THEN "EXACT" ELSE "OTHER",
           warned |-> d \in exact \cap ClaimedKeys, decision |-> "PENDING"]]]
  /\ UNCHANGED <<rules, register, claims, papers, packing, acknowledged, moved, filedOnce>>

Decide(u, d, decision) ==
  /\ results[u][d] # NoResult
  /\ results' = [results EXCEPT ![u][d].decision = decision]
  /\ SentBack({<<runs[u].period, "GSTR3B">>}) /\ Overtaken({<<runs[u].period, "GSTR3B">>})
  /\ UNCHANGED <<rules, register, runs, claims, packing, acknowledged, filedOnce>>

(* The matches a reviewer may accept at once.                              *)
Clean(u) == {d \in Documents :
  results[u][d].bucket = "EXACT" /\ ~results[u][d].warned /\ results[u][d].decision = "PENDING"}

(* A bug: every claim is recorded anew. *)
ClaimAgain(d, p) == [period |-> p, order |-> Cardinality(Imported)]
Claim(d, p) == IF claims[d] # NoClaim THEN claims[d]
               ELSE [period |-> p, order |-> Cardinality(Imported)]

BulkAccept(u) ==
  /\ Clean(u) # {}
  /\ results' = [results EXCEPT ![u] =
       [d \in Documents |-> IF d \in Clean(u) THEN [@[d] EXCEPT !.decision = "ACCEPTED"] ELSE @[d]]]
  /\ claims' = [d \in Documents |-> IF d \in Clean(u) THEN Claim(d, runs[u].period) ELSE claims[d]]
  /\ SentBack({<<runs[u].period, "GSTR3B">>}) /\ Overtaken({<<runs[u].period, "GSTR3B">>})
  /\ UNCHANGED <<rules, register, runs, packing, acknowledged, filedOnce>>

(***************************************************************************)
(* Workpapers.                                                             *)
(***************************************************************************)

(* Papers once approved on other sources become stale.  One that is still  *)
(* approved, or filed, cannot be: the constraint refuses the whole         *)
(* request.                                                                *)
Prepare(r, v, adjustment) ==
  LET now == [register |-> register[r[1]], adjustment |-> adjustment]
      other(w) == w[1] = r /\ approved[w] /\ source[w] # now
  IN
  /\ status[<<r, v>>] = "NONE" /\ \A u \in 1..(v - 1) : status[<<r, u>>] # "NONE"
  /\ \A w \in Papers : other(w) => status[w] \notin Final
  /\ stale' = [w \in Papers |-> stale[w] \/ other(w)]
  /\ status' = [status EXCEPT ![<<r, v>>] =
       IF rules /\ register[r[1]] > 0 THEN "NEEDS_REVIEW" ELSE "DATA_REQUIRED"]
  /\ source' = [source EXCEPT ![<<r, v>>] = now]
  /\ UNCHANGED <<rules, register, evidence, approved, packing, acknowledged, moved, filedOnce>>

Approve(w) ==
  /\ status[w] = "NEEDS_REVIEW" /\ ~stale[w]
  /\ status' = [status EXCEPT ![w] = "APPROVED"]
  /\ approved' = [approved EXCEPT ![w] = TRUE]
  /\ moved' = moved \ {w}
  /\ UNCHANGED <<rules, register, evidence, source, stale, packing, acknowledged, filedOnce>>

(* make_pack reads the paper, builds the pack and updates by the id alone: *)
(* two requests may both have read it as approved, and the second writes   *)
(* whatever became of the paper since.                                     *)
ReadForPack(q, w) ==
  /\ packing[q] = NoPaper
  /\ status[w] = "APPROVED" /\ ~stale[w]
  /\ packing' = [packing EXCEPT ![q] = w]
  /\ UNCHANGED <<rules, register, evidence, papers, acknowledged, moved, filedOnce>>

(* A bug: the constraint is not there. *)
AdmissibleAlways(w) == approved[w]

(* gst_workpapers' CHECK: what is approved or beyond is current.           *)
Admissible(w) == approved[w] /\ ~stale[w]

MakePack(q) ==
  /\ packing[q] # NoPaper
  /\ packing' = [packing EXCEPT ![q] = NoPaper]
  /\ status' = IF Admissible(packing[q])
               THEN [status EXCEPT ![packing[q]] = "READY_FOR_MANUAL_FILING"] ELSE status
  /\ UNCHANGED <<rules, register, evidence, source, approved, stale, acknowledged, moved, filedOnce>>

FileExternally(w) ==
  /\ status[w] = "READY_FOR_MANUAL_FILING"
  /\ status' = [status EXCEPT ![w] = "FILED_EXTERNALLY"]
  /\ filedOnce' = filedOnce \cup {w}
  /\ UNCHANGED <<rules, register, evidence, source, approved, stale, packing, acknowledged, moved>>

(* An acknowledgement is unique for its paper.                             *)
Acknowledge(w) ==
  /\ status[w] = "FILED_EXTERNALLY" /\ w \notin acknowledged
  /\ status' = [status EXCEPT ![w] = "COMPLETED"]
  /\ acknowledged' = acknowledged \cup {w}
  /\ UNCHANGED <<rules, register, evidence, source, approved, stale, packing, moved, filedOnce>>

Next ==
  \/ ActivateRules
  \/ \E p \in Periods : ChangeRegister(p) \/ RewriteRegister(p)
  \/ \E u \in Uploads, p \in Periods :
       \/ CreateRun(u, p, FALSE, {})
       \/ \E exact \in SUBSET Documents : CreateRun(u, p, TRUE, exact)
  \/ \E u \in Uploads, d \in Documents, decision \in Decisions : Decide(u, d, decision)
  \/ \E u \in Uploads : BulkAccept(u)
  \/ \E r \in Returns, v \in Versions, adjustment \in Adjustments : Prepare(r, v, adjustment)
  \/ \E w \in Papers : Approve(w) \/ FileExternally(w) \/ Acknowledge(w)
  \/ \E q \in Packers : MakePack(q) \/ \E w \in Papers : ReadForPack(q, w)

Spec == Init /\ [][Next]_vars

(***************************************************************************)
(* Properties.                                                             *)
(***************************************************************************)

(* A paper that stands approved or ready for filing was approved after the *)
(* last change of its registers and the last decision on its matches,      *)
(* whatever a make_pack that is under way read before: what is filed is    *)
(* what was reviewed.  (A paper that was filed before is excepted: a       *)
(* second make_pack can reopen it.)                                        *)
ApprovalsHold == \A w \in Papers : status[w] \in Current /\ w \in moved => w \in filedOnce

(* A claim once recorded stays that of the period it was made in, and a    *)
(* document that was claimed before a file was imported is never among the *)
(* clean matches of that file, also after its match was reset: it may be   *)
(* accepted only by a decision of its own ("already accepted for ITC in    *)
(* another period", gstr2b_matcher.py).                                    *)
ClaimsStand ==
  [][\A d \in ClaimedKeys :
       /\ claims'[d] = claims[d]
       /\ \A u \in Uploads : d \in Clean(u) => claims[d].order >= runs[u].order]_vars
=============================================================================
