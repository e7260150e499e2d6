-------------------------- MODULE FinanceActionQueue --------------------------
(***************************************************************************)
(* The durable queue that carries an approved finance action to Zoho Books *)
(* and back: the engine the API calls (propose, approve, cancel), the      *)
(* automation worker, the retry scheduler, the Zoho connector's preflight, *)
(* create, recovery and read-back, and Zoho itself as the environment.     *)
(*                                                                         *)
(* An API request is one database transaction, hence one step.  A worker   *)
(* commits statement by statement, so each of its commits and each of its  *)
(* calls to the provider is a step of its own, and a failure may fall      *)
(* between any two of them.                                                *)
(*                                                                         *)
(* Time is abstracted: available_at may pass at any moment.  Whatever      *)
(* queues a job leaves its lease_expires_at NULL, so the claim's test of   *)
(* the lease never refuses a queued job and the lease is left out.  Zoho   *)
(* actions come from the agent tool and have no accounting draft, so the   *)
(* draft updates and the register projection select no row here.           *)
(***************************************************************************)
EXTENDS Naturals, FiniteSets, ActionEngine

CONSTANTS
  References,   \* bill or invoice references known to the provider
  Ref,          \* the reference each action posts under
  Workers,      \* automation worker processes
  NoAction,     \* what an idle worker holds
  MaxAttempts,  \* MAX_ATTEMPTS
  MaxFailures,  \* bound on infrastructure failures (process or database)
  LateCommits   \* may a create that was reported lost take effect later?

ASSUME ConstantsAssumption ==
  /\ Ref \in [Actions -> References]
  /\ NoAction \notin Actions
  /\ MaxAttempts \in Nat \ {0}
  /\ MaxFailures \in Nat
  /\ LateCommits \in BOOLEAN

VARIABLES
  attempts,  \* automation_jobs.attempt_count
  finished,  \* the numbers of the automation_attempts rows with finished_at
  dead,      \* the actions whose job has a row in dead_letters
  verdicts,  \* the statuses of the action's verification_results
  ready,     \* installation available, certified at L5 and mapped
  writes,    \* no environment switch and no override blocks provider writes
  pc,        \* where each worker is in run_finance_action
  claim,     \* the action of the job each worker holds
  result,    \* the status a worker is about to finish its action with
  bills,     \* the provider's documents under each reference
  inflight,  \* creates reported lost that the provider may still carry out
  failures   \* infrastructure failures so far

dbVars == <<status, approved, job, attempts, finished, dead, verdicts>>
workerVars == <<pc, claim, result>>
providerVars == <<bills, inflight>>
switchVars == <<ready, writes>>
vars == <<dbVars, workerVars, providerVars, switchVars, failures>>

-----------------------------------------------------------------------------
(* Positions inside the try block of run_finance_action, from the          *)
(* connector's first request to the transaction that records success.      *)
Connector == {"preflight", "create", "recover"}
Recording == {"accept", "begin_verify", "readback", "mismatch", "complete"}
Busy == {"claimed", "checked", "cleared", "finish"} \cup Connector \cup Recording

(* What a worker hands to _finish.                                         *)
Results == {"FAILED", "NEEDS_REVIEW", "AUTH_EXPIRED", "RETRY_SCHEDULED"}

(* The statuses the scheduler and the worker leave to a person.            *)
Settled == {"SUCCEEDED", "NEEDS_REVIEW", "AUTH_EXPIRED", "FAILED",
            "DEAD_LETTER", "CANCELLED"}

TypeOK ==
  /\ status \in [Actions -> Status \cup {"NONE"}]
  /\ approved \in [Actions -> BOOLEAN]
  /\ job \in [Actions -> JobStatus]
  /\ attempts \in [Actions -> Nat]
  /\ finished \in [Actions -> SUBSET Nat]
  /\ dead \subseteq Actions
  /\ verdicts \in [Actions -> SUBSET {"MATCHED", "MISMATCH"}]
  /\ ready \in BOOLEAN
  /\ writes \in BOOLEAN
  /\ pc \in [Workers -> Busy \cup {"idle", "down"}]
  /\ claim \in [Workers -> Actions \cup {NoAction}]
  /\ result \in [Workers -> Results]
  /\ bills \in [References -> Nat]
  /\ inflight \in [References -> Nat]
  /\ failures \in Nat

Init ==
  /\ status = [a \in Actions |-> "NONE"]
  /\ approved = [a \in Actions |-> FALSE]
  /\ job = [a \in Actions |-> "NONE"]
  /\ attempts = [a \in Actions |-> 0]
  /\ finished = [a \in Actions |-> {}]
  /\ dead = {}
  /\ verdicts = [a \in Actions |-> {}]
  /\ ready = TRUE
  /\ writes = TRUE
  /\ pc = [w \in Workers |-> "idle"]
  /\ claim = [w \in Workers |-> NoAction]
  /\ result = [w \in Workers |-> "FAILED"]
  /\ bills = [r \in References |-> 0]
  /\ inflight = [r \in References |-> 0]
  /\ failures = 0

-----------------------------------------------------------------------------
(***************************************************************************)
(* The engine, called from the API.                                        *)
(***************************************************************************)

Propose(a) ==
  /\ ProposeAction(a)
  /\ UNCHANGED <<attempts, finished, dead, verdicts,
                 workerVars, providerVars, switchVars, failures>>

Approve(a) ==
  /\ ApproveAction(a)
  /\ UNCHANGED <<attempts, finished, dead, verdicts,
                 workerVars, providerVars, switchVars, failures>>

(* Faulty variant: an action that was handed over can still be cancelled.  *)
CancelHandedOver(a) ==
  /\ a \in Cancellable
  /\ status[a] \in {"AWAITING_APPROVAL", "QUEUED", "RETRY_SCHEDULED", "NEEDS_REVIEW"}
  /\ status' = [status EXCEPT ![a] = "CANCELLED"]
  /\ job' = [job EXCEPT ![a] = IF @ \in {"QUEUED", "NEEDS_REVIEW"} THEN "CANCELLED" ELSE @]
  /\ UNCHANGED <<approved, attempts, finished, dead, verdicts,
                 workerVars, providerVars, switchVars, failures>>

Cancel(a) ==
  /\ CancelAction(a)
  /\ UNCHANGED <<attempts, finished, dead, verdicts,
                 workerVars, providerVars, switchVars, failures>>

(* Faulty variant: the scheduler releases the job and not its action.      *)
TickJobOnly(S) ==
  /\ S # {}
  /\ \A a \in S : job[a] = "RETRY_SCHEDULED"
  /\ job' = [a \in Actions |-> IF a \in S THEN "QUEUED" ELSE job[a]]
  /\ UNCHANGED <<status, approved, attempts, finished, dead, verdicts,
                 workerVars, providerVars, switchVars, failures>>

(* One tick of the scheduler, which finds the jobs in S due.               *)
Tick(S) ==
  /\ S # {}
  /\ \A a \in S : job[a] = "RETRY_SCHEDULED"
  /\ status' = [a \in Actions |->
                  IF a \in S /\ status[a] = "RETRY_SCHEDULED" THEN "QUEUED"
                  ELSE status[a]]
  /\ job' = [a \in Actions |-> IF a \in S THEN "QUEUED" ELSE job[a]]
  /\ UNCHANGED <<approved, attempts, finished, dead, verdicts,
                 workerVars, providerVars, switchVars, failures>>

-----------------------------------------------------------------------------
(***************************************************************************)
(* The worker.                                                             *)
(***************************************************************************)

At(w, p) == pc[w] = p
Goto(w, p) == pc' = [pc EXCEPT ![w] = p] /\ UNCHANGED <<claim, result>>

(* Leave the try block, or refuse the job, towards _finish(job, s, _).     *)
FinishAs(w, s) ==
  /\ pc' = [pc EXCEPT ![w] = "finish"]
  /\ result' = [result EXCEPT ![w] = s]
  /\ UNCHANGED claim

(* An exception that nothing catches ends the process; it loses what it    *)
(* held, and the rows stay as they were committed.                         *)
Die(w) ==
  /\ pc' = [pc EXCEPT ![w] = "down"]
  /\ claim' = [claim EXCEPT ![w] = NoAction]
  /\ UNCHANGED result

(* Faulty variant: the claim also takes jobs that are CLAIMED, as one that *)
(* looks at an expired lease alone would.                                  *)
ClaimAgain(w, a) ==
  /\ At(w, "idle")
  /\ job[a] \in {"QUEUED", "CLAIMED"}
  /\ job' = [job EXCEPT ![a] = "CLAIMED"]
  /\ attempts' = [attempts EXCEPT ![a] = @ + 1]
  /\ attempts[a] < MaxAttempts
  /\ status' = [status EXCEPT ![a] = IF @ = "QUEUED" THEN "CLAIMED" ELSE @]
  /\ pc' = [pc EXCEPT ![w] = "claimed"]
  /\ claim' = [claim EXCEPT ![w] = a]
  /\ UNCHANGED <<approved, finished, dead, verdicts, result,
                 providerVars, switchVars, failures>>

(* FOR UPDATE SKIP LOCKED: two workers never take the same queued job.     *)
Claim(w, a) ==
  /\ At(w, "idle")
  /\ job[a] = "QUEUED"
  /\ job' = [job EXCEPT ![a] = "CLAIMED"]
  /\ attempts' = [attempts EXCEPT ![a] = @ + 1]
  /\ status' = [status EXCEPT ![a] = IF @ = "QUEUED" THEN "CLAIMED" ELSE @]
  /\ pc' = [pc EXCEPT ![w] = "claimed"]
  /\ claim' = [claim EXCEPT ![w] = a]
  /\ UNCHANGED <<approved, finished, dead, verdicts, result,
                 providerVars, switchVars, failures>>

(* _write_precondition: installation, certification, mappings, and no      *)
(* verification of an earlier posting.                                     *)
CheckPrecondition(w) ==
  /\ At(w, "claimed")
  /\ IF ready /\ verdicts[claim[w]] = {}
       THEN Goto(w, "checked")
       ELSE FinishAs(w, "FAILED")
  /\ UNCHANGED <<dbVars, providerVars, switchVars, failures>>

(* scoped_write_block_reason, read once per attempt.                       *)
CheckWriteBlock(w) ==
  /\ At(w, "checked")
  /\ IF writes THEN Goto(w, "cleared") ELSE FinishAs(w, "FAILED")
  /\ UNCHANGED <<dbVars, providerVars, switchVars, failures>>

(* The update is outside the try block, so when the trigger refuses the    *)
(* transition the exception ends the process.                              *)
BeginExecuting(w) ==
  LET a == claim[w] IN
  /\ At(w, "cleared")
  /\ IF Allowed(status[a], "EXECUTING")
       THEN /\ status' = [status EXCEPT ![a] = "EXECUTING"]
            /\ Goto(w, "preflight")
       ELSE Die(w) /\ UNCHANGED status
  /\ UNCHANGED <<approved, job, attempts, finished, dead, verdicts,
                 providerVars, switchVars, failures>>

(* registry.create knows no implementation of the action's operation.      *)
ConnectorMissing(w) ==
  /\ At(w, "preflight")
  /\ FinishAs(w, "FAILED")
  /\ UNCHANGED <<dbVars, providerVars, switchVars, failures>>

(* Faulty variant: the connector's status is stored as it is.              *)
FailureStatusAsGiven(s) == IF s = "RATE_LIMITED" THEN "RETRY_SCHEDULED" ELSE s

(* _result_failure: what a connector status other than SUCCESS finishes    *)
(* as.                                                                     *)
FailureStatus(s) ==
  CASE s = "AUTH_EXPIRED" -> "AUTH_EXPIRED"
    [] s \in {"RATE_LIMITED", "PROVIDER_UNAVAILABLE"} -> "RETRY_SCHEDULED"
    [] OTHER -> "NEEDS_REVIEW"

(* _recover_ambiguous found one candidate: it is taken as this action's    *)
(* document when it can be read and equals the approved payload, and goes  *)
(* to review otherwise.                                                    *)
OneCandidate(w) ==
  /\ bills[Ref[claim[w]]] = 1
  /\ Goto(w, "accept") \/ FinishAs(w, FailureStatus("NEEDS_REVIEW"))

SeveralCandidates(w) ==
  /\ bills[Ref[claim[w]]] > 1
  /\ FinishAs(w, FailureStatus("NEEDS_REVIEW"))

(* Faulty variant: a lookup that fails is taken for one without a result.  *)
LookupFailureIgnored(w) == Goto(w, "create")

(* Any error of Zoho or of the transport makes the lookup AMBIGUOUS.       *)
LookupFails(w) == FinishAs(w, FailureStatus("AMBIGUOUS_RESULT"))

(* Only a lookup that succeeds and finds nothing leads on to the create.   *)
Preflight(w) ==
  /\ At(w, "preflight")
  /\ \/ OneCandidate(w)
     \/ SeveralCandidates(w)
     \/ LookupFails(w)
     \/ bills[Ref[claim[w]]] = 0 /\ Goto(w, "create")
  /\ UNCHANGED <<dbVars, providerVars, switchVars, failures>>

(* Faulty variants: finding nothing after a lost response is taken for     *)
(* acceptance, or makes the connector create again.                        *)
NothingIsAccepted(w) == bills[Ref[claim[w]]] = 0 /\ Goto(w, "accept")
NothingIsRecreated(w) == bills[Ref[claim[w]]] = 0 /\ Goto(w, "create")

(* After a lost response the connector looks the document up and never     *)
(* creates again: no candidate is ambiguous too.                           *)
NothingRecovered(w) ==
  /\ bills[Ref[claim[w]]] = 0
  /\ FinishAs(w, FailureStatus("AMBIGUOUS_RESULT"))

Recover(w) ==
  /\ At(w, "recover")
  /\ \/ OneCandidate(w)
     \/ SeveralCandidates(w)
     \/ LookupFails(w)
     \/ NothingRecovered(w)
  /\ UNCHANGED <<dbVars, providerVars, switchVars, failures>>

(* The provider carries the create out, now or after it was given up on.   *)
AddBill(r) == bills' = [bills EXCEPT ![r] = @ + 1] /\ UNCHANGED inflight

CreateEffect(r) ==
  \/ AddBill(r)
  \/ UNCHANGED <<bills, inflight>>
  \/ /\ LateCommits
     /\ inflight' = [inflight EXCEPT ![r] = @ + 1]
     /\ UNCHANGED bills

(* A response with the document's id; without one; or one whose handling   *)
(* raises, which the worker turns into a retry.                            *)
CreateAnswered(w) ==
  /\ At(w, "create")
  /\ AddBill(Ref[claim[w]])
  /\ \/ Goto(w, "accept")
     \/ FinishAs(w, FailureStatus("AMBIGUOUS_RESULT"))
     \/ FinishAs(w, "RETRY_SCHEDULED")
  /\ UNCHANGED <<dbVars, switchVars, failures>>

(* Zoho refuses the request: throttled, unauthorised or invalid.           *)
CreateRefused(w, s) ==
  /\ At(w, "create")
  /\ FinishAs(w, FailureStatus(s))
  /\ UNCHANGED <<dbVars, providerVars, switchVars, failures>>

(* Timeout, connection error, server error or unreadable response.         *)
CreateLost(w) ==
  /\ At(w, "create")
  /\ CreateEffect(Ref[claim[w]])
  /\ Goto(w, "recover")
  /\ UNCHANGED <<dbVars, switchVars, failures>>

(* An exception that the connector lets through before it sends anything   *)
(* in this position, such as credentials revoked meanwhile.                *)
ConnectorRaises(w) ==
  /\ pc[w] \in Connector \cup {"readback"}
  /\ FinishAs(w, "RETRY_SCHEDULED")
  /\ UNCHANGED <<dbVars, providerVars, switchVars, failures>>

(* Two updates that commit one after the other.                            *)
RecordAcceptance(w) ==
  /\ At(w, "accept")
  /\ status' = [status EXCEPT ![claim[w]] = "PROVIDER_ACCEPTED"]
  /\ Goto(w, "begin_verify")
  /\ UNCHANGED <<approved, job, attempts, finished, dead, verdicts,
                 providerVars, switchVars, failures>>

BeginVerifying(w) ==
  /\ At(w, "begin_verify")
  /\ status' = [status EXCEPT ![claim[w]] = "VERIFYING"]
  /\ Goto(w, "readback")
  /\ UNCHANGED <<approved, job, attempts, finished, dead, verdicts,
                 providerVars, switchVars, failures>>

(* verify_write: the document equals the payload, differs from it, or      *)
(* cannot be read.                                                         *)
ReadBack(w) ==
  /\ At(w, "readback")
  /\ \/ Goto(w, "complete")
     \/ Goto(w, "mismatch")
     \/ FinishAs(w, "NEEDS_REVIEW")
  /\ UNCHANGED <<dbVars, providerVars, switchVars, failures>>

RecordMismatch(w) ==
  /\ At(w, "mismatch")
  /\ verdicts' = [verdicts EXCEPT ![claim[w]] = @ \cup {"MISMATCH"}]
  /\ FinishAs(w, "NEEDS_REVIEW")
  /\ UNCHANGED <<status, approved, job, attempts, finished, dead,
                 providerVars, switchVars, failures>>

(* Verification, SUCCEEDED, attempt and job in one transaction.            *)
Complete(w) ==
  LET a == claim[w] IN
  /\ At(w, "complete")
  /\ verdicts' = [verdicts EXCEPT ![a] = @ \cup {"MATCHED"}]
  /\ status' = [status EXCEPT ![a] = "SUCCEEDED"]
  /\ job' = [job EXCEPT ![a] = "SUCCEEDED"]
  /\ finished' = [finished EXCEPT ![a] = @ \cup {attempts[a]}]
  /\ pc' = [pc EXCEPT ![w] = "idle"]
  /\ claim' = [claim EXCEPT ![w] = NoAction]
  /\ UNCHANGED <<approved, attempts, dead, result,
                 providerVars, switchVars, failures>>

(* Faulty variant: the last attempt counts one too early.                  *)
ExhaustedEarly(w) == result[w] = "RETRY_SCHEDULED" /\ attempts[claim[w]] + 1 >= MaxAttempts

(* The status _finish really stores, and whether the trigger lets every    *)
(* update it makes on the way through.                                     *)
Exhausted(w) == result[w] = "RETRY_SCHEDULED" /\ attempts[claim[w]] >= MaxAttempts
Stored(w) == IF Exhausted(w) THEN "DEAD_LETTER" ELSE result[w]
Storable(w) ==
  IF Exhausted(w)
    THEN Allowed(status[claim[w]], "FAILED") /\ Allowed("FAILED", "DEAD_LETTER")
    ELSE Allowed(status[claim[w]], result[w])

(* _finish: one transaction over the action, the job, the attempt and the  *)
(* dead letter.  A refused transition raises where nothing catches it.     *)
Finish(w) ==
  LET a == claim[w] IN
  /\ At(w, "finish")
  /\ IF Storable(w)
       THEN /\ status' = [status EXCEPT ![a] = Stored(w)]
            /\ job' = [job EXCEPT ![a] = Stored(w)]
            /\ finished' = [finished EXCEPT ![a] = @ \cup {attempts[a]}]
            /\ dead' = IF Exhausted(w) THEN dead \cup {a} ELSE dead
            /\ pc' = [pc EXCEPT ![w] = "idle"]
            /\ claim' = [claim EXCEPT ![w] = NoAction]
            /\ UNCHANGED result
       ELSE Die(w) /\ UNCHANGED <<status, job, finished, dead>>
  /\ UNCHANGED <<approved, attempts, verdicts, providerVars, switchVars, failures>>

(* The hosting platform starts the process again.                          *)
Restart(w) ==
  /\ At(w, "down")
  /\ Goto(w, "idle")
  /\ UNCHANGED <<dbVars, providerVars, switchVars, failures>>

-----------------------------------------------------------------------------
(***************************************************************************)
(* Failures and the environment.                                           *)
(***************************************************************************)

(* A process is killed at any point; a create it was waiting for may have  *)
(* been carried out.                                                       *)
Crash(w) ==
  /\ pc[w] \in Busy
  /\ failures < MaxFailures
  /\ failures' = failures + 1
  /\ IF At(w, "create")
       THEN CreateEffect(Ref[claim[w]])
       ELSE UNCHANGED providerVars
  /\ Die(w)
  /\ UNCHANGED <<dbVars, switchVars>>

(* A statement of the try block loses its database connection: the handler *)
(* schedules a retry, also when the statement was one of a _finish.        *)
StatementFails(w) ==
  /\ \/ pc[w] \in Recording \ {"readback"}
     \/ At(w, "finish") /\ status[claim[w]] \in {"EXECUTING", "VERIFYING"}
                        /\ result[w] \in {"NEEDS_REVIEW", "AUTH_EXPIRED"}
  /\ failures < MaxFailures
  /\ failures' = failures + 1
  /\ FinishAs(w, "RETRY_SCHEDULED")
  /\ UNCHANGED <<dbVars, providerVars, switchVars>>

(* The provider carries out, or drops, a create that was reported lost.    *)
LateEffect(r) ==
  /\ inflight[r] > 0
  /\ inflight' = [inflight EXCEPT ![r] = @ - 1]
  /\ \/ bills' = [bills EXCEPT ![r] = @ + 1]
     \/ UNCHANGED bills
  /\ UNCHANGED <<dbVars, workerVars, switchVars, failures>>

(* Disconnecting or reconnecting the installation, certifying it, mapping  *)
(* it; turning a kill switch on or off.                                    *)
ToggleReady ==
  /\ ready' = ~ready
  /\ UNCHANGED <<dbVars, workerVars, providerVars, writes, failures>>

ToggleWrites ==
  /\ writes' = ~writes
  /\ UNCHANGED <<dbVars, workerVars, providerVars, ready, failures>>

-----------------------------------------------------------------------------
Refusals == {"RATE_LIMITED", "AUTH_EXPIRED", "INVALID_PAYLOAD"}

(* What a running worker process does by itself.                           *)
WorkerStep(w) ==
  \/ \E a \in Actions : Claim(w, a)
  \/ CheckPrecondition(w) \/ CheckWriteBlock(w) \/ BeginExecuting(w)
  \/ ConnectorMissing(w) \/ Preflight(w) \/ Recover(w)
  \/ CreateAnswered(w) \/ CreateLost(w) \/ ConnectorRaises(w)
  \/ \E s \in Refusals : CreateRefused(w, s)
  \/ RecordAcceptance(w) \/ BeginVerifying(w) \/ ReadBack(w)
  \/ RecordMismatch(w) \/ Complete(w) \/ Finish(w)

SchedulerStep == \E S \in SUBSET Actions : Tick(S)

Next ==
  \/ \E a \in Actions : Propose(a) \/ Approve(a) \/ Cancel(a)
  \/ SchedulerStep
  \/ \E w \in Workers : WorkerStep(w) \/ Restart(w) \/ Crash(w) \/ StatementFails(w)
  \/ \E r \in References : LateEffect(r)
  \/ ToggleReady \/ ToggleWrites

Spec == Init /\ [][Next]_vars

(* service.py keeps the worker and the scheduler looping and the platform  *)
(* restarts the process; requests to Zoho end by their timeouts.  Nothing  *)
(* obliges a person to approve, cancel or flip a switch.                   *)
Fairness ==
  /\ \A w \in Workers : WF_vars(WorkerStep(w)) /\ WF_vars(Restart(w))
  /\ WF_vars(SchedulerStep)

FairSpec == Spec /\ Fairness

-----------------------------------------------------------------------------
(***************************************************************************)
(* Safety.                                                                 *)
(***************************************************************************)

(* The provider decides a create before it answers or gives up, and two    *)
(* actions share a reference only where one worker runs.  These are the    *)
(* conditions under which looking up before creating is enough.            *)
PromptProvider == ~LateCommits
ReferencesSeparate ==
  \A a, b \in Actions :
    Ref[a] = Ref[b] => a = b \/ \A v, w \in Workers : v = w

(* No reference ever has two documents in the provider's books, whatever   *)
(* crashes, lost responses and retries fall between the preflight lookup   *)
(* of execute_write and its create.                                        *)
AtMostOneBill == \A r \in References : bills[r] <= 1

(* Even a provider that carries out creates it reported as lost never ends *)
(* up with more documents under an action's own reference than the action  *)
(* had attempts: one attempt sends at most one create, and its recovery    *)
(* after a lost response only looks up.                                    *)
BillsBoundedByAttempts ==
  \A a \in Actions :
    (\A b \in Actions : Ref[b] = Ref[a] => b = a) =>
      bills[Ref[a]] + inflight[Ref[a]] <= attempts[a]

(* A document reaches the provider only while an action with its reference *)
(* is EXECUTING under a CLAIMED job: never after cancel_action, after the  *)
(* action was finished, or for an attempt that is already accounted for.   *)
BillOnlyWhileExecuting ==
  [][\A r \in References :
       bills'[r] > bills[r] =>
         \E a \in Actions :
           /\ Ref[a] = r
           /\ status[a] = "EXECUTING"
           /\ approved[a]
           /\ job[a] = "CLAIMED"
           /\ attempts[a] \notin finished[a]]_vars

(* SUCCEEDED means that the document is in the provider's books, that a    *)
(* read-back matched it, and that the job and its last attempt say so.     *)
SuccessIsReal ==
  \A a \in Actions : status[a] = "SUCCEEDED" =>
    /\ bills[Ref[a]] > 0
    /\ "MATCHED" \in verdicts[a]
    /\ job[a] = "SUCCEEDED"
    /\ attempts[a] \in finished[a]

(* The row of the action and the row of its job are written by different   *)
(* statements of the engine, the scheduler and the worker; they stay in    *)
(* step.  In particular a queued action always has a job that a worker can *)
(* claim, a scheduled retry one that the scheduler can release, and no     *)
(* running action has lost its claim.                                      *)
Running == {"CLAIMED", "EXECUTING", "PROVIDER_ACCEPTED", "VERIFYING"}
JobAgrees(a) ==
  CASE job[a] = "NONE" -> status[a] \in {"NONE", "AWAITING_APPROVAL", "CANCELLED"}
    [] job[a] \in {"QUEUED", "RETRY_SCHEDULED"} -> status[a] \in {job[a], "CANCELLED"}
    [] job[a] = "CLAIMED" -> status[a] \in Running \cup {"CANCELLED"}
    [] OTHER -> status[a] = job[a]
JobsAgree == \A a \in Actions : JobAgrees(a)

(* The database agrees with where a worker is: the row has the status the  *)
(* worker is about to move on from, a create is sent only right after a    *)
(* lookup that found nothing, and an acceptance is recorded only for a     *)
(* document that exists.  CANCELLED is there for a retry that was          *)
(* cancelled while its job was not.                                        *)
RowInStep(w) ==
  LET a == claim[w] IN
  /\ pc[w] \in {"claimed", "checked", "cleared"} => status[a] \in {"CLAIMED", "CANCELLED"}
  /\ pc[w] \in Connector \cup {"accept"} => status[a] = "EXECUTING"
  /\ pc[w] = "begin_verify" => status[a] = "PROVIDER_ACCEPTED"
  /\ pc[w] \in {"readback", "mismatch", "complete"} => status[a] = "VERIFYING"
  /\ pc[w] = "finish" =>
       status[a] \in (IF result[w] = "FAILED" THEN {"CLAIMED", "CANCELLED", "EXECUTING"}
                      ELSE Running \ {"CLAIMED"})
AttemptInStep(w) ==
  pc[w] \in Busy => attempts[claim[w]] > 0 /\ attempts[claim[w]] \notin finished[claim[w]]
DocumentInStep(w) == pc[w] \in Recording => bills[Ref[claim[w]]] > 0
WorkersInStep ==
  \A w \in Workers : RowInStep(w) /\ AttemptInStep(w) /\ DocumentInStep(w)

(* Two workers never hold the same job, and whatever a worker holds is     *)
(* claimed in the database.                                                *)
ExclusiveClaims ==
  \A w \in Workers : claim[w] # NoAction =>
    /\ job[claim[w]] = "CLAIMED"
    /\ \A v \in Workers : claim[v] = claim[w] => v = w

(* Attempts are numbered without gaps, only the last one can be open, and  *)
(* never more than MAX_ATTEMPTS are made.                                  *)
AttemptsAccounted ==
  \A a \in Actions :
    /\ attempts[a] <= MaxAttempts
    /\ finished[a] \subseteq 1..attempts[a]
    /\ \A n \in 1..attempts[a] : n < attempts[a] => n \in finished[a]

(* A dead letter is written for, and only for, a job whose last permitted  *)
(* attempt asked for one more retry.                                       *)
DeadLettersExact ==
  \A a \in Actions :
    /\ a \in dead <=> status[a] = "DEAD_LETTER"
    /\ a \in dead => attempts[a] = MaxAttempts

(***************************************************************************)
(* The queue keeps the promise of PostingContract.                         *)
(***************************************************************************)
Decision(a) ==
  CASE status[a] = "CANCELLED" -> "cancelled"
    [] status[a] # "CANCELLED" /\ approved[a] -> "approved"
    [] OTHER -> "undecided"
Outcome(a) ==
  CASE status[a] = "SUCCEEDED" -> "verified"
    [] status[a] \in Settled \ {"SUCCEEDED", "CANCELLED"} -> "handed_over"
    [] OTHER -> "open"

Contract == INSTANCE PostingContract WITH
  decision <- [a \in Actions |-> Decision(a)],
  outcome <- [a \in Actions |-> Outcome(a)],
  posted <- bills

(* Approval before posting, at most one document, success only for a       *)
(* posted document, no posting after a cancellation or a hand-over, and    *)
(* none of these revoked: every step of the queue is a step of the         *)
(* contract or invisible to it.                                            *)
KeepsContract == Contract!Spec

(***************************************************************************)
(* Liveness.                                                               *)
(***************************************************************************)

(* While the infrastructure holds, every queued action reaches a status    *)
(* that a person can act on: retries are released, claimed again and at    *)
(* last dead-lettered, and a worker that ends itself on a refused          *)
(* transition does not keep the other actions from finishing.              *)
QueuedActionsSettle ==
  \A a \in Actions : status[a] = "QUEUED" ~> status[a] \in Settled
=============================================================================
