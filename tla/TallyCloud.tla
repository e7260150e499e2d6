----------------------------- MODULE TallyCloud -----------------------------
(***************************************************************************)
(* The cloud's side of the Tally actions: the routes through which a       *)
(* paired device claims an approved action, renews its lease and reports   *)
(* what it did, beside the engine through which people decide.             *)
(*                                                                         *)
(* Each request is one transaction.  One installation is modelled: it has  *)
(* at most one device that is not revoked, devices are numbered in the     *)
(* order of their pairing, and 0 stands for no device.  TallyCloud alone   *)
(* lets the active device call in any order and report anything;           *)
(* TallyAgent restricts it to what the desktop agent does.                 *)
(***************************************************************************)
EXTENDS Naturals, ActionEngine

CONSTANTS
  Order,       \* finance_actions.created_at
  Misfits,     \* actions with a company or a ledger that the snapshot lacks
  MaxTries,    \* the 3 of attempt_number<3
  MaxPairings  \* bound on the devices that are ever paired

ASSUME TallyCloudAssumption ==
  /\ Order \in [Actions -> Nat]
  /\ \A a, b \in Actions : Order[a] = Order[b] => a = b
  /\ Misfits \subseteq Actions
  /\ MaxTries \in Nat \ {0}
  /\ MaxPairings \in Nat

VARIABLES
  lease,      \* finance_actions.lease_device_id
  lapsed,     \* finance_actions.lease_expires_at is in the past
  tries,      \* finance_actions.attempt_number
  device,     \* the installation's ACTIVE device, while it is AVAILABLE
  paired,     \* the number of devices paired so far
  permitted   \* _precondition finds no reason to refuse

actionVars == <<status, approved, job, lease, lapsed, tries>>
deviceVars == <<device, paired, permitted>>
cloudVars == <<actionVars, deviceVars>>

-----------------------------------------------------------------------------
NoDevice == 0
Devices == 1..paired

(* The statuses that no Tally route and no person changes any more.        *)
Closed == {"SUCCEEDED", "NEEDS_REVIEW", "FAILED", "CANCELLED"}

(* What an agent reports; an acceptance without a GUID or a read-back is   *)
(* "INCOMPLETE".                                                           *)
Reports == {"ACCEPTED", "INCOMPLETE", "FAILED", "AMBIGUOUS"}

CloudTypeOK ==
  /\ status \in [Actions -> Status \cup {"NONE"}]
  /\ approved \in [Actions -> BOOLEAN]
  /\ job \in [Actions -> JobStatus]
  /\ lease \in [Actions -> Devices \cup {NoDevice}]
  /\ lapsed \in [Actions -> BOOLEAN]
  /\ tries \in [Actions -> Nat]
  /\ device \in Devices \cup {NoDevice}
  /\ paired \in Nat
  /\ permitted \in BOOLEAN

CloudInit ==
  /\ status = [a \in Actions |-> "NONE"]
  /\ approved = [a \in Actions |-> FALSE]
  /\ job = [a \in Actions |-> "NONE"]
  /\ lease = [a \in Actions |-> NoDevice]
  /\ lapsed = [a \in Actions |-> FALSE]
  /\ tries = [a \in Actions |-> 0]
  /\ device = NoDevice
  /\ paired = 0
  /\ permitted = FALSE

-----------------------------------------------------------------------------
(***************************************************************************)
(* People and time.                                                        *)
(***************************************************************************)

Decide(a) ==
  /\ \/ /\ ProposeAction(a)
        /\ \A b \in Actions : Order[b] < Order[a] => status[b] # "NONE"
     \/ ApproveAction(a)
     \/ CancelAction(a)
  /\ UNCHANGED <<lease, lapsed, tries, deviceVars>>

(* Ninety seconds pass without a renewal.                                  *)
LeaseLapses(a) ==
  /\ status[a] = "CLAIMED"
  /\ ~lapsed[a]
  /\ lapsed' = [lapsed EXCEPT ![a] = TRUE]
  /\ UNCHANGED <<status, approved, job, lease, tries, deviceVars>>

(* The switch in the agent's window, a health, license, certification or   *)
(* mapping change, a kill switch.                                          *)
TogglePermission ==
  /\ device # NoDevice
  /\ permitted' = ~permitted
  /\ UNCHANGED <<actionVars, device, paired>>

(* pair_device revokes the installation's devices and adds one, whose      *)
(* write_enabled is not set.                                               *)
PairDevice ==
  /\ paired < MaxPairings
  /\ paired' = paired + 1
  /\ device' = paired + 1
  /\ permitted' = FALSE
  /\ UNCHANGED actionVars

DisconnectDevice(d) ==
  /\ d = device
  /\ device' = NoDevice
  /\ permitted' = FALSE
  /\ UNCHANGED <<actionVars, paired>>

-----------------------------------------------------------------------------
(***************************************************************************)
(* Claiming.                                                               *)
(***************************************************************************)

Expired(a) == status[a] = "CLAIMED" /\ lapsed[a]

Requeue(a, waiting) ==
  CASE waiting /\ tries[a] < MaxTries -> "QUEUED"
    [] waiting /\ tries[a] >= MaxTries -> "RETRY_SCHEDULED"
    [] OTHER -> status[a]

(* Faulty variants: no claim is swept; what was handed to a person is      *)
(* queued again.                                                           *)
SweptRetriesOnly(a) == Requeue(a, status[a] = "RETRY_SCHEDULED")
SweptReviews(a) ==
  Requeue(a, Expired(a) \/ status[a] \in {"RETRY_SCHEDULED", "NEEDS_REVIEW"})

(* The two updates that open claim_action: a claim whose lease is over     *)
(* becomes a retry, and a retry with attempts left is queued.              *)
Swept(a) == Requeue(a, Expired(a) \/ status[a] = "RETRY_SCHEDULED")

(* Faulty variant: one attempt more than the sweep allows.                 *)
ClaimableOnceMore(a) ==
  Swept(a) \in {"QUEUED", "RETRY_SCHEDULED"} /\ tries[a] <= MaxTries

Claimable(a) == Swept(a) = "QUEUED" /\ tries[a] < MaxTries

Oldest(a) ==
  /\ Claimable(a)
  /\ \A b \in Actions : Claimable(b) => Order[a] <= Order[b]

ClaimAction(d, a) ==
  /\ d = device
  /\ permitted
  /\ Oldest(a)
  /\ a \notin Misfits
  /\ status' = [b \in Actions |-> IF b = a THEN "CLAIMED" ELSE Swept(b)]
  /\ lease' = [b \in Actions |->
                 IF b = a THEN d ELSE IF Expired(b) THEN NoDevice ELSE lease[b]]
  /\ lapsed' = [b \in Actions |-> lapsed[b] /\ b # a /\ ~Expired(b)]
  /\ tries' = [tries EXCEPT ![a] = @ + 1]
  /\ job' = [job EXCEPT ![a] = "CLAIMED"]
  /\ UNCHANGED <<approved, deviceVars>>

(* 204: the sweep is committed all the same.                               *)
ClaimNothing(d) ==
  /\ d = device
  /\ \A a \in Actions : ~Claimable(a)
  /\ status' = [b \in Actions |-> Swept(b)]
  /\ lease' = [b \in Actions |-> IF Expired(b) THEN NoDevice ELSE lease[b]]
  /\ lapsed' = [b \in Actions |-> lapsed[b] /\ ~Expired(b)]
  /\ UNCHANGED <<approved, job, tries, deviceVars>>

(* 401 for a device that is revoked; 409 for a failed precondition or an   *)
(* oldest action that does not fit, which rolls the sweep back.            *)
ClaimRefused(d) ==
  /\ d # device \/ \E a \in Actions : Oldest(a) /\ (~permitted \/ a \in Misfits)
  /\ UNCHANGED cloudVars

-----------------------------------------------------------------------------
(***************************************************************************)
(* Renewing and reporting.  Neither looks at lease_expires_at.             *)
(***************************************************************************)

HoldsLease(d, a) == d = device /\ status[a] = "CLAIMED" /\ lease[a] = d

RenewLease(d, a) ==
  /\ HoldsLease(d, a)
  /\ lapsed' = [lapsed EXCEPT ![a] = FALSE]
  /\ UNCHANGED <<status, approved, job, lease, tries, deviceVars>>

(* Faulty variant: the reported status is stored as it is.                 *)
VerdictsAsReported(r) == IF r = "ACCEPTED" THEN {"SUCCEEDED", "NEEDS_REVIEW"} ELSE {r}

(* The final status for a report.  An accepted voucher was compared with   *)
(* the payload and is the same or is not.                                  *)
Verdicts(r) ==
  CASE r = "ACCEPTED"  -> {"SUCCEEDED", "NEEDS_REVIEW"}
    [] r = "AMBIGUOUS" -> {"NEEDS_REVIEW"}
    [] OTHER           -> {"FAILED"}

(* One transaction from EXECUTING through PROVIDER_ACCEPTED and VERIFYING  *)
(* to the final status, with the job.                                      *)
ReportResult(d, a, r) ==
  /\ HoldsLease(d, a)
  /\ \E s \in Verdicts(r) :
       /\ status' = [status EXCEPT ![a] = s]
       /\ job' = [job EXCEPT ![a] = s]
  /\ lapsed' = [lapsed EXCEPT ![a] = FALSE]
  /\ UNCHANGED <<approved, lease, tries, deviceVars>>

LeaseRefused(d, a) == ~HoldsLease(d, a) /\ UNCHANGED cloudVars

-----------------------------------------------------------------------------
CloudNext ==
  \/ \E a \in Actions : Decide(a) \/ LeaseLapses(a)
  \/ TogglePermission \/ PairDevice
  \/ \E d \in Devices :
       \/ DisconnectDevice(d) \/ ClaimNothing(d) \/ ClaimRefused(d)
       \/ \E a \in Actions :
            \/ ClaimAction(d, a) \/ RenewLease(d, a) \/ LeaseRefused(d, a)
            \/ \E r \in Reports : ReportResult(d, a, r)

CloudSpec == CloudInit /\ [][CloudNext]_cloudVars

-----------------------------------------------------------------------------
(***************************************************************************)
(* Safety, for whatever the devices send.                                  *)
(***************************************************************************)

(* An action is CLAIMED exactly while a device that was really paired has  *)
(* the lease or the lease waits to be swept; a row that waits for a claim  *)
(* belongs to nobody, and only a claim can be over time.                   *)
LeasesExact ==
  \A a \in Actions :
    /\ status[a] = "CLAIMED" => lease[a] \in Devices
    /\ status[a] \in {"NONE", "AWAITING_APPROVAL", "QUEUED", "RETRY_SCHEDULED"} =>
         lease[a] = NoDevice
    /\ lapsed[a] => status[a] = "CLAIMED"

(* attempt_number never passes the limit, a row that rests in              *)
(* RETRY_SCHEDULED has used up its attempts, and one that was never        *)
(* claimed has used none.                                                  *)
TriesExact ==
  \A a \in Actions :
    /\ tries[a] <= MaxTries
    /\ status[a] = "QUEUED" => tries[a] < MaxTries
    /\ status[a] = "RETRY_SCHEDULED" => tries[a] = MaxTries
    /\ tries[a] > 0 => approved[a]

(* The job's row is written by claim_action and _finish_job alone, while   *)
(* the sweep leaves it CLAIMED: it may lag behind an action that waits or  *)
(* was cancelled, and it agrees with every action that was reported on.    *)
TallyJobAgrees(a) ==
  CASE job[a] = "NONE" -> status[a] \in {"NONE", "AWAITING_APPROVAL", "CANCELLED"}
    [] job[a] = "QUEUED" -> status[a] = "QUEUED" /\ tries[a] = 0
    [] job[a] = "CLAIMED" ->
         status[a] \in {"CLAIMED", "QUEUED", "RETRY_SCHEDULED", "CANCELLED"} /\ tries[a] > 0
    [] OTHER -> status[a] = job[a] /\ status[a] \in Closed
TallyJobsAgree == \A a \in Actions : TallyJobAgrees(a)

(* A result, a hand-over and a cancellation are final for the routes and   *)
(* the engine: no sweep, late report or second decision takes them back.   *)
ClosedForGood ==
  [][\A a \in Actions : status[a] \in Closed => status'[a] = status[a]]_cloudVars
=============================================================================
