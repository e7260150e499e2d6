---------------------------- MODULE ActionEngine ----------------------------
(***************************************************************************)
(* What the API does to an action and its job when a person decides about  *)
(* it.  The handlers serve every provider: the automation worker and the   *)
(* Tally routes pick up the rows that they leave.                          *)
(***************************************************************************)
EXTENDS ActionStatus

CONSTANTS
  Actions,      \* idempotency keys, hence rows of finance_actions
  Cancellable   \* actions that a person may cancel

ASSUME CancellableAssumption == Cancellable \subseteq Actions

VARIABLES
  status,    \* finance_actions.status; "NONE" before the row exists
  approved,  \* finance_actions.approved_at is set
  job        \* automation_jobs.status of the action's job; "NONE" without one

JobStatus == {"NONE", "QUEUED", "CLAIMED", "RETRY_SCHEDULED", "SUCCEEDED",
              "NEEDS_REVIEW", "AUTH_EXPIRED", "FAILED", "DEAD_LETTER", "CANCELLED"}

(* A second proposal under the same idempotency key returns the first row. *)
ProposeAction(a) ==
  /\ status[a] = "NONE"
  /\ status' = [status EXCEPT ![a] = "AWAITING_APPROVAL"]
  /\ UNCHANGED <<approved, job>>

(* APPROVED and then QUEUED in one transaction, with the job row.          *)
ApproveAction(a) ==
  /\ status[a] = "AWAITING_APPROVAL"
  /\ status' = [status EXCEPT ![a] = "QUEUED"]
  /\ approved' = [approved EXCEPT ![a] = TRUE]
  /\ job' = [job EXCEPT ![a] = IF @ = "NONE" THEN "QUEUED" ELSE @]

(* The job is cancelled only while it is QUEUED.                           *)
CancelAction(a) ==
  /\ a \in Cancellable
  /\ status[a] \in {"AWAITING_APPROVAL", "QUEUED", "RETRY_SCHEDULED"}
  /\ status' = [status EXCEPT ![a] = "CANCELLED"]
  /\ job' = [job EXCEPT ![a] = IF @ = "QUEUED" THEN "CANCELLED" ELSE @]
  /\ UNCHANGED approved
=============================================================================
