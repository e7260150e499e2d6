---------------------------- MODULE ActionStatus ----------------------------
(***************************************************************************)
(* The statuses of a row of finance_actions and the transitions that the   *)
(* database lets any writer make.  The relation is the one enforced by the *)
(* trigger finance_action_transition, so it binds the API, the automation  *)
(* worker, the scheduler and the Tally routes alike.                       *)
(***************************************************************************)

Status ==
  {"DRAFT", "VALIDATED", "AWAITING_APPROVAL", "APPROVED", "QUEUED", "CLAIMED",
   "EXECUTING", "PROVIDER_ACCEPTED", "VERIFYING", "SUCCEEDED", "NEEDS_INPUT",
   "NEEDS_REVIEW", "RETRY_SCHEDULED", "AUTH_EXPIRED", "FAILED", "DEAD_LETTER",
   "CANCELLED"}

(* What may follow each status; a status that is not listed is final.      *)
Successors(s) ==
  CASE s = "DRAFT"             -> {"VALIDATED", "CANCELLED", "NEEDS_INPUT"}
    [] s = "VALIDATED"         -> {"AWAITING_APPROVAL", "NEEDS_INPUT", "CANCELLED"}
    [] s = "AWAITING_APPROVAL" -> {"APPROVED", "CANCELLED"}
    [] s = "APPROVED"          -> {"QUEUED", "CANCELLED"}
    [] s = "QUEUED"            -> {"CLAIMED", "CANCELLED"}
    [] s = "CLAIMED"           -> {"EXECUTING", "RETRY_SCHEDULED", "FAILED"}
    [] s = "EXECUTING"         -> {"PROVIDER_ACCEPTED", "RETRY_SCHEDULED",
                                   "AUTH_EXPIRED", "FAILED", "NEEDS_REVIEW"}
    [] s = "PROVIDER_ACCEPTED" -> {"VERIFYING", "NEEDS_REVIEW"}
    [] s = "VERIFYING"         -> {"SUCCEEDED", "NEEDS_REVIEW",
                                   "RETRY_SCHEDULED", "FAILED"}
    [] s = "RETRY_SCHEDULED"   -> {"QUEUED", "DEAD_LETTER", "CANCELLED"}
    [] s = "NEEDS_INPUT"       -> {"VALIDATED", "CANCELLED"}
    [] s = "NEEDS_REVIEW"      -> {"QUEUED", "FAILED", "CANCELLED"}
    [] s = "AUTH_EXPIRED"      -> {"QUEUED", "CANCELLED"}
    [] s = "FAILED"            -> {"QUEUED", "DEAD_LETTER", "CANCELLED"}
    [] OTHER                   -> {}

(* The trigger accepts an UPDATE that keeps the status or makes a listed   *)
(* transition, and aborts the statement otherwise.                         *)
Allowed(old, new) == new = old \/ new \in Successors(old)
=============================================================================
