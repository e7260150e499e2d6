-------------------------- MODULE TallyAgent_proofs --------------------------
(***************************************************************************)
(* Theorems about TallyAgent: for every set of actions, computers and      *)
(* programs, and every number of attempts, pairings and faults.            *)
(***************************************************************************)
EXTENDS TallyAgent, TLAPS

-----------------------------------------------------------------------------
(***************************************************************************)
(* The routes, for devices that send anything at any time.                 *)
(***************************************************************************)

(* What waits to be claimed or is claimed was approved, and nothing else   *)
(* has been claimed before it was: the strengthening that makes TriesExact *)
(* and TallyJobsAgree inductive.                                           *)
Waiting == {"QUEUED", "CLAIMED", "RETRY_SCHEDULED"}
ApprovedFirst ==
  \A a \in Actions :
    /\ status[a] \in Waiting \cup {"SUCCEEDED", "NEEDS_REVIEW", "FAILED"} => approved[a]
    /\ status[a] \in {"NONE", "AWAITING_APPROVAL"} => ~approved[a]

Rows == LeasesExact /\ TriesExact /\ TallyJobsAgree /\ ApprovedFirst
CloudInv == CloudTypeOK /\ Rows

-----------------------------------------------------------------------------
(* The sweep touches waiting and claimed rows only, and leaves one queued  *)
(* exactly if it has attempts left.                                        *)
LEMMA SweepFacts ==
  ASSUME CloudTypeOK, TriesExact, NEW a \in Actions
  PROVE  /\ Swept(a) \in Status \cup {"NONE"}
         /\ status[a] \notin {"CLAIMED", "RETRY_SCHEDULED"} => Swept(a) = status[a]
         /\ status[a] = "CLAIMED" /\ ~lapsed[a] => Swept(a) = "CLAIMED"
         /\ Expired(a) => Swept(a) \in {"QUEUED", "RETRY_SCHEDULED"}
         /\ status[a] = "RETRY_SCHEDULED" => Swept(a) = "RETRY_SCHEDULED"
         /\ Swept(a) = "QUEUED" => tries[a] < MaxTries
         /\ Swept(a) = "RETRY_SCHEDULED" => tries[a] = MaxTries
<1>. tries[a] \in Nat /\ MaxTries \in Nat
  BY TallyCloudAssumption DEF CloudTypeOK
<1>. QED
  BY DEF Swept, Requeue, Expired, CloudTypeOK, TriesExact, Status

(* The rows of the cloud satisfy the invariant at first.                   *)
LEMMA InitRows == CloudInit => CloudInv
<1>. SUFFICES ASSUME CloudInit PROVE CloudInv
  OBVIOUS
<1>1. CloudTypeOK
  BY DEF CloudInit, CloudTypeOK, Devices, NoDevice, JobStatus
<1>2. LeasesExact /\ TriesExact
  BY TallyCloudAssumption DEF CloudInit, LeasesExact, TriesExact, NoDevice
<1>3. TallyJobsAgree /\ ApprovedFirst
  BY DEF CloudInit, TallyJobsAgree, TallyJobAgrees, ApprovedFirst, Waiting
<1>. QED BY <1>1, <1>2, <1>3 DEF CloudInv, Rows

-----------------------------------------------------------------------------
(* Every step of people, time and routes keeps the rows consistent.        *)
LEMMA StepKeepsRows == CloudInv /\ [CloudNext]_cloudVars => CloudInv'
<1>. SUFFICES ASSUME CloudInv, [CloudNext]_cloudVars PROVE CloudInv'
  OBVIOUS
<1>. USE TallyCloudAssumption DEF CloudInv, CloudTypeOK, Rows, LeasesExact, TriesExact,
       TallyJobsAgree, ApprovedFirst, Waiting, Devices, NoDevice, deviceVars, actionVars,
       cloudVars
<1>1. ASSUME NEW a \in Actions, Decide(a) PROVE CloudInv'
  <2>1. CASE ProposeAction(a)
    BY <1>1, <2>1 DEF Decide, ProposeAction, TallyJobAgrees, Closed, Status
  <2>2. CASE ApproveAction(a)
    BY <1>1, <2>2 DEF Decide, ApproveAction, TallyJobAgrees, Closed, Status, JobStatus
  <2>3. CASE CancelAction(a)
    BY <1>1, <2>3 DEF Decide, CancelAction, TallyJobAgrees, Closed, Status, JobStatus
  <2>. QED BY <1>1, <2>1, <2>2, <2>3 DEF Decide
<1>2. ASSUME NEW a \in Actions, LeaseLapses(a) PROVE CloudInv'
  BY <1>2 DEF LeaseLapses, TallyJobAgrees
<1>3. CASE TogglePermission
  BY <1>3 DEF TogglePermission, TallyJobAgrees
<1>4. CASE PairDevice
  <2>1. paired \in Nat /\ paired' = paired + 1 /\ 1..paired \subseteq 1..paired'
    BY <1>4 DEF PairDevice
  <2>2. CloudTypeOK'
    <3>1. \A a \in Actions : lease[a] \in (1..paired') \cup {0}
      BY <2>1
    <3>2. lease' \in [Actions -> (1..paired') \cup {0}]
      BY <1>4, <3>1 DEF PairDevice
    <3>3. device' \in 1..paired' /\ paired' \in Nat
      BY <1>4, <2>1 DEF PairDevice
    <3>. QED BY <1>4, <3>2, <3>3 DEF PairDevice
  <2>3. LeasesExact'
    BY <1>4, <2>1 DEF PairDevice
  <2>4. Rows'
    BY <1>4, <2>3 DEF PairDevice, TallyJobAgrees
  <2>. QED BY <2>2, <2>4
<1>5. ASSUME NEW d \in Devices, DisconnectDevice(d) PROVE CloudInv'
  BY <1>5 DEF DisconnectDevice, TallyJobAgrees
<1>6. ASSUME NEW d \in Devices, NEW a \in Actions, ClaimAction(d, a) PROVE CloudInv'
  <2>1. \A b \in Actions :
          status'[b] = (IF b = a THEN "CLAIMED" ELSE Swept(b))
    BY <1>6 DEF ClaimAction
  <2>2. tries[a] \in Nat /\ tries[a] < MaxTries /\ Swept(a) = "QUEUED"
    BY <1>6 DEF ClaimAction, Oldest, Claimable
  <2>3. approved[a] /\ status[a] \in Waiting
    BY <2>2, SweepFacts DEF TallyJobAgrees
  <2>4. CloudTypeOK'
    BY <1>6, <2>2, SweepFacts DEF ClaimAction, Status, JobStatus
  <2>5. LeasesExact'
    BY <1>6, <2>1, SweepFacts DEF ClaimAction, Expired
  <2>6. TriesExact'
    BY <1>6, <2>1, <2>2, <2>3, SweepFacts DEF ClaimAction
  <2>7. TallyJobsAgree'
    BY <1>6, <2>1, <2>2, SweepFacts DEF ClaimAction, TallyJobAgrees, Expired, Closed
  <2>8. ApprovedFirst'
    BY <1>6, <2>1, <2>3, SweepFacts DEF ClaimAction, Expired
  <2>. QED BY <2>4, <2>5, <2>6, <2>7, <2>8
<1>7. ASSUME NEW d \in Devices, ClaimNothing(d) PROVE CloudInv'
  <2>1. \A b \in Actions : status'[b] = Swept(b)
    BY <1>7 DEF ClaimNothing
  <2>2. CloudTypeOK'
    BY <1>7, SweepFacts DEF ClaimNothing
  <2>3. LeasesExact'
    BY <1>7, <2>1, SweepFacts DEF ClaimNothing, Expired
  <2>4. TriesExact'
    BY <1>7, <2>1, SweepFacts DEF ClaimNothing
  <2>5. TallyJobsAgree'
    BY <1>7, <2>1, SweepFacts DEF ClaimNothing, TallyJobAgrees, Expired, Closed
  <2>6. ApprovedFirst'
    BY <1>7, <2>1, SweepFacts DEF ClaimNothing, Expired
  <2>. QED BY <2>2, <2>3, <2>4, <2>5, <2>6
<1>8. ASSUME NEW d \in Devices, NEW a \in Actions, RenewLease(d, a) PROVE CloudInv'
  BY <1>8 DEF RenewLease, HoldsLease, TallyJobAgrees
<1>9. ASSUME NEW d \in Devices, NEW a \in Actions, NEW r \in Reports, ReportResult(d, a, r)
      PROVE CloudInv'
  <2>1. PICK s \in {"SUCCEEDED", "NEEDS_REVIEW", "FAILED"} :
          /\ status' = [status EXCEPT ![a] = s]
          /\ job' = [job EXCEPT ![a] = s]
    BY <1>9 DEF ReportResult, Verdicts
  <2>. QED
    BY <1>9, <2>1 DEF ReportResult, HoldsLease, TallyJobAgrees, Closed, Status, JobStatus
<1>10. CASE UNCHANGED cloudVars
  BY <1>10 DEF TallyJobAgrees
<1>11. ASSUME NEW d \in Devices, ClaimRefused(d) \/ \E a \in Actions : LeaseRefused(d, a)
       PROVE CloudInv'
  BY <1>10, <1>11 DEF ClaimRefused, LeaseRefused
<1>. QED
  BY <1>1, <1>2, <1>3, <1>4, <1>5, <1>6, <1>7, <1>8, <1>9, <1>10, <1>11 DEF CloudNext

(* And always.                                                             *)
LEMMA CloudInvariant == CloudSpec => []CloudInv
BY InitRows, StepKeepsRows, PTL DEF CloudSpec

-----------------------------------------------------------------------------
(* Leases name the device that holds them and nobody else                  *)
(* (tally_agent_actions.py claim_action, renew_lease, report_result).      *)
THEOREM LeasesAreExact == CloudSpec => []LeasesExact
<1>1. CloudInv => LeasesExact
  BY DEF CloudInv, Rows
<1>. QED BY <1>1, CloudInvariant, PTL

(* attempt_number stays within the limit that the sweep, the claim and the *)
(* retry each compare it with.                                             *)
THEOREM TriesAreExact == CloudSpec => []TriesExact
<1>1. CloudInv => TriesExact
  BY DEF CloudInv, Rows
<1>. QED BY <1>1, CloudInvariant, PTL

(* The job's row lags behind the action only as far as TallyJobAgrees says. *)
THEOREM JobsOfTallyAgree == CloudSpec => []TallyJobsAgree
<1>1. CloudInv => TallyJobsAgree
  BY DEF CloudInv, Rows
<1>. QED BY <1>1, CloudInvariant, PTL

(* No request, however late or often repeated, reopens a closed action.    *)
LEMMA StepKeepsClosed ==
  CloudInv /\ [CloudNext]_cloudVars =>
    \A a \in Actions : status[a] \in Closed => status'[a] = status[a]
<1>. SUFFICES ASSUME CloudInv, [CloudNext]_cloudVars,
                     NEW a \in Actions, status[a] \in Closed
              PROVE  status'[a] = status[a]
  OBVIOUS
<1>. USE DEF CloudInv, CloudTypeOK, Closed
<1>1. Swept(a) = status[a]
  BY SweepFacts DEF Rows
<1>2. ASSUME NEW b \in Actions, Decide(b) \/ LeaseLapses(b) PROVE status'[a] = status[a]
  BY <1>2 DEF Decide, LeaseLapses, ProposeAction, ApproveAction, CancelAction
<1>3. CASE TogglePermission \/ PairDevice
  BY <1>3 DEF TogglePermission, PairDevice, actionVars
<1>4. ASSUME NEW d \in Devices, DisconnectDevice(d) \/ ClaimNothing(d) \/ ClaimRefused(d)
      PROVE status'[a] = status[a]
  BY <1>1, <1>4 DEF DisconnectDevice, ClaimNothing, ClaimRefused, actionVars, cloudVars
<1>5. ASSUME NEW d \in Devices, NEW b \in Actions, ClaimAction(d, b)
      PROVE status'[a] = status[a]
  BY <1>1, <1>5 DEF ClaimAction, Oldest, Claimable
<1>6. ASSUME NEW d \in Devices, NEW b \in Actions, RenewLease(d, b) \/ LeaseRefused(d, b)
      PROVE status'[a] = status[a]
  BY <1>6 DEF RenewLease, LeaseRefused, cloudVars, actionVars
<1>7. ASSUME NEW d \in Devices, NEW b \in Actions, NEW r \in Reports, ReportResult(d, b, r)
      PROVE status'[a] = status[a]
  BY <1>7 DEF ReportResult, HoldsLease
<1>8. CASE UNCHANGED cloudVars
  BY <1>8 DEF cloudVars, actionVars
<1>. QED
  BY <1>2, <1>3, <1>4, <1>5, <1>6, <1>7, <1>8 DEF CloudNext

(* A closed action keeps its status for good (tally_agent_actions.py).     *)
THEOREM ClosedActionsStayClosed == CloudSpec => ClosedForGood
<1>1. CloudInv /\ [CloudNext]_cloudVars =>
        [\A a \in Actions : status[a] \in Closed => status'[a] = status[a]]_cloudVars
  BY StepKeepsClosed
<1>. QED BY <1>1, CloudInvariant, PTL DEF CloudSpec, ClosedForGood

-----------------------------------------------------------------------------
(***************************************************************************)
(* Types, and the agent's side of the routes.                              *)
(***************************************************************************)

(* What a poller holds goes with where it is.                              *)
Holding == {"save", "renew", "complete"} \cup Working
Reporting == {"record", "report", "complete"}
Hands ==
  \A p \in Pollers :
    /\ pc[p] \in Busy <=> using[p] \in Devices
    /\ pc[p] \in Holding <=> held[p] \in Actions
    /\ pc[p] \in Reporting <=> result[p] \in Reports

LocalTypeOK ==
  /\ config \in [Computers -> Devices \cup {NoDevice}]
  /\ claimed \in [Computers -> SUBSET Actions]
  /\ unsent \in [Computers -> [Actions -> Reports \cup {"NONE"}]]
  /\ pc \in [Pollers -> Busy \cup {"idle"}]
  /\ using \in [Pollers -> Devices \cup {NoDevice}]
  /\ held \in [Pollers -> Actions \cup {NoAction}]
  /\ result \in [Pollers -> Reports \cup {"NONE"}]
  /\ vouchers \in [Actions -> Nat]
  /\ failures \in Nat

AgentTypeInv == CloudInv /\ LocalTypeOK /\ Hands

(* Each step of the composition is a step that the routes allow.           *)
LEMMA AgentStepsAreCloudSteps ==
  AgentTypeInv /\ [Next]_vars => [CloudNext]_cloudVars
<1>. SUFFICES ASSUME AgentTypeInv, [Next]_vars PROVE [CloudNext]_cloudVars
  OBVIOUS
<1>. USE DEF AgentTypeInv, Hands, LocalTypeOK
<1>1. CASE CloudAlone
  BY <1>1 DEF CloudAlone, CloudNext
<1>2. ASSUME NEW a \in Actions, Lapse(a) PROVE CloudNext
  BY <1>2 DEF Lapse, CloudNext
<1>3. ASSUME NEW c \in Computers, Pair(c) PROVE CloudNext
  BY <1>3 DEF Pair, CloudNext
<1>4. ASSUME NEW c \in Computers, Disconnect(c) PROVE [CloudNext]_cloudVars
  <2>1. config[c] \in Devices
    BY <1>4 DEF Disconnect
  <2>. QED BY <1>4, <2>1 DEF Disconnect, CloudNext
<1>5. ASSUME NEW p \in Pollers, Claim(p) PROVE CloudNext
  <2>1. using[p] \in Devices
    BY <1>5 DEF Claim, At, Busy
  <2>. QED BY <1>5, <2>1 DEF Claim, CloudNext
<1>6. ASSUME NEW p \in Pollers, Renew(p) PROVE CloudNext
  <2>1. using[p] \in Devices /\ held[p] \in Actions
    BY <1>6 DEF Renew, At, Busy, Holding
  <2>. QED BY <1>6, <2>1 DEF Renew, CloudNext
<1>7. ASSUME NEW p \in Pollers, Report(p) PROVE CloudNext
  <2>1. using[p] \in Devices /\ held[p] \in Actions /\ result[p] \in Reports
    BY <1>7 DEF Report, At, Busy, Holding, Reporting, Working
  <2>. QED BY <1>7, <2>1 DEF Report, CloudNext
<1>8. ASSUME NEW p \in Pollers, LoseAnswer(p) PROVE CloudNext
  <2>1. CASE At(p, "claim")
    <3>1. using[p] \in Devices
      BY <2>1 DEF At, Busy
    <3>. QED BY <1>8, <2>1, <3>1 DEF LoseAnswer, CloudNext, At
  <2>2. CASE At(p, "renew")
    <3>1. using[p] \in Devices /\ held[p] \in Actions
      BY <2>2 DEF At, Busy, Holding
    <3>. QED BY <1>8, <2>2, <3>1 DEF LoseAnswer, CloudNext, At
  <2>3. CASE At(p, "report")
    <3>1. using[p] \in Devices /\ held[p] \in Actions /\ result[p] \in Reports
      BY <2>3 DEF At, Busy, Holding, Reporting, Working
    <3>. QED BY <1>8, <2>3, <3>1 DEF LoseAnswer, CloudNext, At
  <2>. QED BY <1>8, <2>1, <2>2, <2>3 DEF LoseAnswer
<1>9. ASSUME NEW p \in Pollers,
             \/ Poll(p) \/ SaveClaim(p) \/ Resume(p) \/ LookUp(p) \/ Import(p)
             \/ ReadBack(p) \/ Record(p) \/ Complete(p) \/ Interrupt(p)
      PROVE UNCHANGED cloudVars
  BY <1>9 DEF Poll, SaveClaim, Resume, LookUp, Import, ReadBack, Record, Complete, Interrupt
<1>10. CASE UNCHANGED vars
  BY <1>10 DEF vars
<1>. QED
  BY <1>1, <1>2, <1>3, <1>4, <1>5, <1>6, <1>7, <1>8, <1>9, <1>10 DEF Next, PollStep

(* How a poller moves on with an action in its hands, and how it stops.    *)
PollTypeOK ==
  /\ pc \in [Pollers -> Busy \cup {"idle"}]
  /\ using \in [Pollers -> Devices \cup {NoDevice}]
  /\ held \in [Pollers -> Actions \cup {NoAction}]
  /\ result \in [Pollers -> Reports \cup {"NONE"}]

(* A poll that goes on with an action in its hands.                        *)
LEMMA HoldingMoves ==
  ASSUME PollTypeOK, Hands, Devices' = Devices, NEW p \in Pollers, pc[p] \in Holding,
         NEW s \in Holding, NEW r \in Reports \cup {"NONE"},
         s \in Reporting <=> r \in Reports,
         pc' = [pc EXCEPT ![p] = s], result' = [result EXCEPT ![p] = r],
         UNCHANGED <<using, held>>
  PROVE  (PollTypeOK /\ Hands)'
<1>1. Holding \subseteq Busy
  BY DEF Holding, Busy
<1>2. PollTypeOK'
  BY <1>1 DEF PollTypeOK
<1>3. ASSUME NEW q \in Pollers, q # p
      PROVE  pc'[q] = pc[q] /\ result'[q] = result[q]
  BY <1>3 DEF PollTypeOK
<1>4. pc'[p] = s /\ result'[p] = r
  BY DEF PollTypeOK
<1>. QED BY <1>1, <1>2, <1>3, <1>4 DEF Hands

(* The same, with what it knows of the result unchanged.                   *)
LEMMA GoingMoves ==
  ASSUME PollTypeOK, Hands, Devices' = Devices, NEW p \in Pollers, pc[p] \in Holding,
         NEW s \in Holding, s \in Reporting <=> pc[p] \in Reporting, Goto(p, s)
  PROVE  (PollTypeOK /\ Hands)'
<1>1. /\ result[p] \in Reports \cup {"NONE"}
      /\ s \in Reporting <=> result[p] \in Reports
      /\ result' = [result EXCEPT ![p] = result[p]]
  BY DEF PollTypeOK, Hands, Goto
<1>. QED BY <1>1, HoldingMoves DEF Goto

(* The same, with a result.                                                *)
LEMMA ResultMoves ==
  ASSUME PollTypeOK, Hands, Devices' = Devices, NEW p \in Pollers, pc[p] \in Holding,
         NEW r \in Reports, NEW s \in {"record", "report"}, HaveResult(p, r, s)
  PROVE  (PollTypeOK /\ Hands)'
<1>1. s \in Holding /\ s \in Reporting
  BY DEF Holding, Working, Reporting
<1>. QED BY <1>1, HoldingMoves DEF HaveResult

(* A poll that stops has nothing in its hands.                             *)
LEMMA StopMoves ==
  ASSUME PollTypeOK, Hands, Devices' = Devices, NEW p \in Pollers, Stop(p)
  PROVE  (PollTypeOK /\ Hands)'
<1>1. 0 \notin Devices
  BY DEF Devices
<1>2. "idle" \notin Busy /\ Holding \subseteq Busy /\ Reporting \subseteq Busy
      /\ "NONE" \notin Reports
  BY DEF Busy, Holding, Reporting, Working, Reports
<1>3. PollTypeOK'
  BY DEF PollTypeOK, Stop, NoDevice
<1>4. ASSUME NEW q \in Pollers, q # p
      PROVE  /\ pc'[q] = pc[q] /\ using'[q] = using[q]
             /\ held'[q] = held[q] /\ result'[q] = result[q]
  BY <1>4 DEF PollTypeOK, Stop
<1>5. /\ pc'[p] = "idle" /\ using'[p] = 0
      /\ held'[p] = NoAction /\ result'[p] = "NONE"
  BY DEF PollTypeOK, Stop, NoDevice
<1>. QED BY TallyAgentAssumption, <1>1, <1>2, <1>3, <1>4, <1>5 DEF Hands

(* Every step keeps the types of what the agents hold.                     *)
LEMMA AgentTypes == AgentTypeInv /\ [Next]_vars => (LocalTypeOK /\ Hands)'
<1>. SUFFICES ASSUME AgentTypeInv, [Next]_vars PROVE (LocalTypeOK /\ Hands)'
  OBVIOUS
<1>. USE TallyAgentAssumption DEF AgentTypeInv, Hands, LocalTypeOK, Busy, Holding, Working,
       Reporting, Reports, NoDevice, localVars, pollVars, At, Goto, HaveResult, Stop
<1>. DEFINE Same == UNCHANGED <<device, paired, permitted>>
<1>0. paired \in Nat
  BY DEF CloudInv, CloudTypeOK
<1>1. CASE CloudAlone
  BY <1>1 DEF CloudAlone, Decide, TogglePermission, deviceVars, Devices
<1>2. ASSUME NEW a \in Actions, Lapse(a) PROVE (LocalTypeOK /\ Hands)'
  BY <1>2 DEF Lapse, LeaseLapses, deviceVars, Devices
<1>3. ASSUME NEW c \in Computers, Pair(c) PROVE (LocalTypeOK /\ Hands)'
  <2>0. paired' = paired + 1
    BY <1>3 DEF Pair, PairDevice
  <2>1. Devices' = Devices \cup {paired + 1} /\ 0 \notin Devices'
    BY <1>0, <2>0 DEF Devices
  <2>2. \A p \in Pollers : using[p] \in Devices <=> using[p] \in Devices'
    BY <1>0, <1>3 DEF Pair, PairDevice, Devices
  <2>3. config' \in [Computers -> Devices' \cup {0}]
    BY <1>3, <2>1 DEF Pair
  <2>4. using' \in [Pollers -> Devices' \cup {0}]
    BY <1>3, <2>1 DEF Pair
  <2>. QED BY <1>3, <2>1, <2>2, <2>3, <2>4 DEF Pair
<1>4. ASSUME NEW c \in Computers, Disconnect(c) PROVE (LocalTypeOK /\ Hands)'
  <2>1. Devices' = Devices
    BY <1>4 DEF Disconnect, DisconnectDevice, cloudVars, deviceVars, Devices
  <2>. QED BY <1>4, <2>1 DEF Disconnect
<1>5. ASSUME NEW p \in Pollers, PollStep(p) \/ Interrupt(p) \/ LoseAnswer(p)
      PROVE (LocalTypeOK /\ Hands)'
  <2>1. Devices' = Devices /\ 0 \notin Devices
    BY <1>5 DEF PollStep, Poll, Claim, SaveClaim, Renew, Resume, LookUp, Import, ReadBack,
       Record, Report, Complete, Interrupt, LoseAnswer, ClaimAction, ClaimNothing,
       ClaimRefused, RenewLease, LeaseRefused, ReportResult, cloudVars, deviceVars, Devices
  <2>2. CASE Poll(p)
    <3>1. Home[p] \in Computers /\ claimed[Home[p]] \subseteq Actions
      OBVIOUS
    <3>2. using[p] \notin Devices /\ held[p] \notin Actions /\ result[p] \notin Reports
      BY <2>2 DEF Poll
    <3>3. config[Home[p]] \in Devices
      BY <2>2, <3>1 DEF Poll
    <3>4. CASE pc' = [pc EXCEPT ![p] = "claim"] /\ UNCHANGED held
      BY <2>1, <2>2, <3>2, <3>3, <3>4 DEF Poll
    <3>5. ASSUME NEW a \in claimed[Home[p]], held' = [held EXCEPT ![p] = a],
                 pc' = [pc EXCEPT ![p] = "renew"]
          PROVE (LocalTypeOK /\ Hands)'
      BY <2>1, <2>2, <3>1, <3>2, <3>3, <3>5 DEF Poll
    <3>. QED BY <2>2, <3>4, <3>5 DEF Poll
  <2>3. CASE Claim(p)
    <3>1. CASE Stop(p)
      BY <2>1, <2>3, <3>1, StopMoves DEF Claim, PollTypeOK
    <3>2. ASSUME NEW a \in Actions, held' = [held EXCEPT ![p] = a],
                 pc' = [pc EXCEPT ![p] = "save"], UNCHANGED <<using, result>>
          PROVE (LocalTypeOK /\ Hands)'
      BY <2>1, <2>3, <3>2 DEF Claim
    <3>. QED BY <2>3, <3>1, <3>2 DEF Claim
  <2>. DEFINE Stored == /\ config' \in [Computers -> Devices' \cup {NoDevice}]
                        /\ claimed' \in [Computers -> SUBSET Actions]
                        /\ unsent' \in [Computers -> [Actions -> Reports \cup {"NONE"}]]
                        /\ vouchers' \in [Actions -> Nat]
                        /\ failures' \in Nat
  <2>a. ASSUME Stored, (PollTypeOK /\ Hands)' PROVE (LocalTypeOK /\ Hands)'
    BY <2>a DEF PollTypeOK
  <2>b. PollTypeOK
    BY DEF PollTypeOK
  <2>c. \A s \in {"save", "renew", "complete", "work", "lookup", "import", "readback",
                  "record", "report"} : s \in Holding
    OBVIOUS
  <2>4. CASE SaveClaim(p)
    <3>1. Stored
      BY <2>1, <2>4 DEF SaveClaim
    <3>2. (PollTypeOK /\ Hands)'
      BY <2>1, <2>4, <2>b, <2>c, GoingMoves DEF SaveClaim
    <3>. QED BY <3>1, <3>2, <2>a
  <2>5. CASE Renew(p)
    <3>1. Stored
      BY <2>1, <2>5 DEF Renew
    <3>2. (PollTypeOK /\ Hands)'
      BY <2>1, <2>5, <2>b, <2>c, GoingMoves, StopMoves DEF Renew
    <3>. QED BY <3>1, <3>2, <2>a
  <2>6. CASE Resume(p)
    <3>1. Stored
      BY <2>1, <2>6 DEF Resume
    <3>2. unsent[Home[p]][held[p]] \in Reports \cup {"NONE"}
      BY <2>6 DEF Resume
    <3>3. pc[p] = "work" /\ pc[p] \in Holding
      BY <2>6 DEF Resume
    <3>4. CASE Goto(p, "lookup")
      BY <2>1, <2>a, <2>b, <2>c, <3>1, <3>3, <3>4, GoingMoves
    <3>5. CASE /\ unsent[Home[p]][held[p]] \in Reports
               /\ HaveResult(p, unsent[Home[p]][held[p]], "report")
      BY <2>1, <2>a, <2>b, <3>1, <3>3, <3>5, ResultMoves
    <3>6. \/ Goto(p, "lookup")
          \/ /\ unsent[Home[p]][held[p]] \in Reports
             /\ HaveResult(p, unsent[Home[p]][held[p]], "report")
      BY <2>6, <3>2 DEF Resume
    <3>. QED BY <3>4, <3>5, <3>6
  <2>d. ASSUME VoucherSeen(p) \/ RequestFails(p), pc[p] \in Holding
        PROVE  (PollTypeOK /\ Hands)'
    <3>1. PICK r \in Reports : HaveResult(p, r, "record")
      BY <2>d DEF VoucherSeen, RequestFails
    <3>. QED BY <2>1, <2>b, <2>d, <3>1, ResultMoves
  <2>7. CASE LookUp(p)
    <3>1. Stored
      BY <2>1, <2>7 DEF LookUp
    <3>2. pc[p] = "lookup"
      BY <2>7 DEF LookUp
    <3>3. CASE Goto(p, "import")
      BY <2>1, <2>a, <2>b, <2>c, <3>1, <3>2, <3>3, GoingMoves
    <3>4. CASE VoucherSeen(p) \/ RequestFails(p)
      BY <2>a, <2>c, <2>d, <3>1, <3>2, <3>4
    <3>. QED BY <2>7, <3>3, <3>4 DEF LookUp
  <2>8. CASE Import(p)
    <3>1. vouchers' \in [Actions -> Nat]
      BY <2>8 DEF Import, AddVoucher
    <3>2. Stored
      BY <2>1, <2>8, <3>1 DEF Import
    <3>3. pc[p] = "import"
      BY <2>8 DEF Import
    <3>4. CASE Goto(p, "readback")
      BY <2>1, <2>a, <2>b, <2>c, <3>2, <3>3, <3>4, GoingMoves
    <3>5. CASE HaveResult(p, "AMBIGUOUS", "record")
      BY <2>1, <2>a, <2>b, <2>c, <3>2, <3>3, <3>5, ResultMoves
    <3>6. CASE RequestFails(p)
      BY <2>a, <2>c, <2>d, <3>2, <3>3, <3>6
    <3>. QED BY <2>8, <3>4, <3>5, <3>6 DEF Import
  <2>9. CASE ReadBack(p)
    <3>1. Stored
      BY <2>1, <2>9 DEF ReadBack
    <3>2. pc[p] = "readback" /\ (VoucherSeen(p) \/ RequestFails(p))
      BY <2>9 DEF ReadBack
    <3>. QED BY <2>a, <2>c, <2>d, <3>1, <3>2
  <2>10. CASE Record(p)
    <3>1. result[p] \in Reports
      BY <2>10 DEF Record
    <3>2. Stored
      BY <2>1, <2>10, <3>1 DEF Record
    <3>3. (PollTypeOK /\ Hands)'
      BY <2>1, <2>10, <2>b, <2>c, GoingMoves DEF Record
    <3>. QED BY <3>2, <3>3, <2>a
  <2>11. CASE Report(p)
    <3>1. Stored
      BY <2>1, <2>11 DEF Report
    <3>2. (PollTypeOK /\ Hands)'
      BY <2>1, <2>11, <2>b, <2>c, GoingMoves, StopMoves DEF Report
    <3>. QED BY <3>1, <3>2, <2>a
  <2>12. CASE Complete(p)
    <3>1. using[p] \in Devices
      BY <2>12 DEF Complete
    <3>2. Stored
      BY <2>1, <2>12, <3>1 DEF Complete
    <3>3. (PollTypeOK /\ Hands)'
      BY <2>1, <2>12, <2>b, StopMoves DEF Complete
    <3>. QED BY <3>2, <3>3, <2>a
  <2>13. CASE Interrupt(p)
    <3>0. vouchers' \in [Actions -> Nat]
      BY <2>13 DEF Interrupt, AddVoucher
    <3>1. Stored
      BY <2>1, <2>13, <3>0 DEF Interrupt
    <3>2. (PollTypeOK /\ Hands)'
      BY <2>1, <2>13, <2>b, StopMoves DEF Interrupt
    <3>. QED BY <2>a, <3>1, <3>2
  <2>14. CASE LoseAnswer(p)
    <3>1. Stored
      BY <2>1, <2>14 DEF LoseAnswer
    <3>. QED BY <2>1, <2>14, <2>a, <2>b, <3>1, StopMoves DEF LoseAnswer
  <2>. QED
    BY <1>5, <2>2, <2>3, <2>4, <2>5, <2>6, <2>7, <2>8, <2>9, <2>10, <2>11, <2>12, <2>13,
       <2>14 DEF PollStep
<1>6. CASE UNCHANGED vars
  BY <1>6 DEF vars, cloudVars, deviceVars, Devices
<1>. QED BY <1>1, <1>2, <1>3, <1>4, <1>5, <1>6 DEF Next

(* So they always have them.                                               *)
LEMMA AgentTypeInvariant == Spec => []AgentTypeInv
<1>1. Init => AgentTypeInv
  BY TallyAgentAssumption, InitRows
  DEF Init, AgentTypeInv, LocalTypeOK, Hands, Busy, Holding, Working, Reporting, Reports,
      NoDevice, Devices
<1>2. AgentTypeInv /\ [Next]_vars => AgentTypeInv'
  BY AgentStepsAreCloudSteps, AgentTypes, StepKeepsRows DEF AgentTypeInv
<1>. QED BY <1>1, <1>2, PTL DEF Spec

(* Every variable keeps its type through polling, pairing and faults.      *)
THEOREM AgentTypesCorrect == Spec => []TypeOK
<1>1. AgentTypeInv => TypeOK
  BY DEF AgentTypeInv, LocalTypeOK, CloudInv, TypeOK
<1>. QED BY <1>1, AgentTypeInvariant, PTL

(* The agent is one way to use the routes: what holds of the routes with   *)
(* any device (leases, attempts, jobs, closed actions) holds with it.      *)
THEOREM AgentUsesRoutes == Spec => CloudSpec
<1>1. Init => CloudInit
  BY DEF Init
<1>. QED BY <1>1, AgentStepsAreCloudSteps, AgentTypeInvariant, PTL DEF Spec, CloudSpec

-----------------------------------------------------------------------------
(* Neither the sweep nor a claim nor a renewal announces a success.        *)
LEMMA NoSuccessByClaims ==
  ASSUME CloudInv, NEW d,
         \/ ClaimNothing(d) \/ ClaimRefused(d)
         \/ \E a \in Actions : ClaimAction(d, a)
         \/ \E a : RenewLease(d, a) \/ LeaseRefused(d, a)
  PROVE  \A a \in Actions : status'[a] = "SUCCEEDED" => status[a] = "SUCCEEDED"
<1>1. \A a \in Actions : Swept(a) = "SUCCEEDED" => status[a] = "SUCCEEDED"
  BY DEF Swept, Requeue, Expired
<1>. QED
  BY <1>1 DEF ClaimAction, ClaimNothing, ClaimRefused, RenewLease, LeaseRefused, cloudVars,
     actionVars

(* A success that is recorded, reported or announced is in Tally           *)
(* (tally_write.rs create_voucher, action_result; report_result).  For any *)
(* number of programs: vouchers do not disappear, and "ACCEPTED" is only   *)
(* ever concluded from one that was seen.                                  *)
THEOREM TallySuccessIsReal == Spec => []SuccessIsReal
<1>. USE TallyAgentAssumption
<1>1. Init => SuccessIsReal
  BY DEF Init, CloudInit, SuccessIsReal
<1>2. AgentTypeInv /\ SuccessIsReal /\ [Next]_vars => SuccessIsReal'
  <2>. SUFFICES ASSUME AgentTypeInv, SuccessIsReal, [Next]_vars PROVE SuccessIsReal'
    OBVIOUS
  <2>. USE DEF SuccessIsReal, AgentTypeInv, LocalTypeOK, Hands, Busy, Holding, Working,
         Reporting, Reports, localVars, pollVars, At, Goto, HaveResult, Stop
  <2>. DEFINE NoNewSuccess ==
         \A a \in Actions : status'[a] = "SUCCEEDED" => status[a] = "SUCCEEDED"
  <2>1. CASE CloudAlone
    BY <2>1 DEF CloudAlone, Decide, TogglePermission, ProposeAction, ApproveAction,
       CancelAction, actionVars, CloudInv, CloudTypeOK
  <2>2. ASSUME NEW a \in Actions, Lapse(a) PROVE SuccessIsReal'
    BY <2>2 DEF Lapse, LeaseLapses
  <2>3. ASSUME NEW c \in Computers, Pair(c) \/ Disconnect(c) PROVE SuccessIsReal'
    BY <2>3 DEF Pair, Disconnect, PairDevice, DisconnectDevice, actionVars, cloudVars
  <2>4. ASSUME NEW p \in Pollers, Poll(p) \/ SaveClaim(p) \/ Resume(p)
        PROVE SuccessIsReal'
    BY <2>4 DEF Poll, SaveClaim, Resume, cloudVars, actionVars
  <2>5. ASSUME NEW p \in Pollers, Claim(p) \/ Renew(p) PROVE SuccessIsReal'
    <3>1. NoNewSuccess
      BY <2>5, NoSuccessByClaims DEF Claim, Renew
    <3>. QED BY <2>5, <3>1 DEF Claim, Renew
  <2>6. ASSUME NEW p \in Pollers, LookUp(p) \/ Import(p) \/ ReadBack(p)
        PROVE SuccessIsReal'
    <3>1. CASE LookUp(p) \/ ReadBack(p)
      BY <3>1 DEF LookUp, ReadBack, VoucherSeen, RequestFails, cloudVars, actionVars
    <3>2. CASE Import(p)
      <4>1. \A a \in Actions : vouchers[a] > 0 => vouchers'[a] > 0
        BY <3>2 DEF Import, AddVoucher
      <4>. QED BY <3>2, <4>1 DEF Import, RequestFails, cloudVars, actionVars
    <3>. QED BY <2>6, <3>1, <3>2
  <2>7. ASSUME NEW p \in Pollers, Record(p) \/ Complete(p) PROVE SuccessIsReal'
    <3>1. CASE Record(p)
      <4>1. Home[p] \in Computers /\ held[p] \in Actions
        BY <3>1 DEF Record
      <4>2. \A c \in Computers, a \in Actions :
              unsent'[c][a] = IF c = Home[p] /\ a = held[p] THEN result[p] ELSE unsent[c][a]
        BY <3>1, <4>1 DEF Record
      <4>. QED BY <3>1, <4>1, <4>2 DEF Record, cloudVars, actionVars
    <3>2. CASE Complete(p)
      <4>1. Home[p] \in Computers /\ held[p] \in Actions
        BY <3>2 DEF Complete
      <4>2. \A c \in Computers, a \in Actions :
              unsent'[c][a] = IF c = Home[p] /\ a = held[p] THEN "NONE" ELSE unsent[c][a]
        BY <3>2, <4>1 DEF Complete
      <4>. QED BY <3>2, <4>1, <4>2 DEF Complete, cloudVars, actionVars
    <3>. QED BY <2>7, <3>1, <3>2
  <2>8. ASSUME NEW p \in Pollers, Report(p) PROVE SuccessIsReal'
    BY <2>8 DEF Report, ReportResult, Verdicts, LeaseRefused, cloudVars, actionVars,
       CloudInv, CloudTypeOK
  <2>9. ASSUME NEW p \in Pollers, Interrupt(p) PROVE SuccessIsReal'
    BY <2>9 DEF Interrupt, AddVoucher, cloudVars, actionVars
  <2>10. ASSUME NEW p \in Pollers, LoseAnswer(p) PROVE SuccessIsReal'
    <3>1. CASE At(p, "report")
      BY <2>10, <3>1 DEF LoseAnswer, ReportResult, Verdicts, CloudInv, CloudTypeOK
    <3>2. CASE ~At(p, "report")
      <4>1. NoNewSuccess
        BY <2>10, <3>2, NoSuccessByClaims DEF LoseAnswer
      <4>. QED BY <2>10, <3>2, <4>1 DEF LoseAnswer
    <3>. QED BY <3>1, <3>2
  <2>11. CASE UNCHANGED vars
    BY <2>11 DEF vars, cloudVars, actionVars
  <2>. QED
    BY <2>1, <2>2, <2>3, <2>4, <2>5, <2>6, <2>7, <2>8, <2>9, <2>10, <2>11
    DEF Next, PollStep
<1>. QED BY <1>1, <1>2, AgentTypeInvariant, PTL DEF Spec

-----------------------------------------------------------------------------
(***************************************************************************)
(* One running program.                                                    *)
(***************************************************************************)

(* A new claim is fetched and saved only into an empty table: with         *)
(* AgentInStep, and one voucher at most, what the single poller relies on. *)
ClaimsIntoEmpty ==
  \A p \in Pollers : pc[p] \in {"claim", "save"} => claimed[Home[p]] = {}
StepInv == AgentInStep /\ ClaimsIntoEmpty /\ AtMostOneVoucher

(* What the cloud does by itself does not take a claim away from its       *)
(* holder.                                                                 *)
LEMMA ClaimsSurvive ==
  ASSUME CloudInv, NEW a \in Actions, status[a] = "CLAIMED",
         \/ CloudAlone \/ \E b \in Actions : Lapse(b)
         \/ \E c \in Computers : Pair(c) \/ Disconnect(c)
  PROVE  status'[a] = "CLAIMED" /\ lease'[a] = lease[a]
BY DEF CloudAlone, Lapse, Pair, Disconnect, Decide, TogglePermission, LeaseLapses,
   PairDevice, DisconnectDevice, ProposeAction, ApproveAction, CancelAction, cloudVars,
   actionVars, CloudInv, CloudTypeOK

(* With one running program the steps of a poll agree with the agent's     *)
(* record.                                                                 *)
LEMMA StepInvHolds == ASSUME OnePoller PROVE Spec => []StepInv
<1>. USE TallyAgentAssumption, OnePoller DEF OnePoller
<1>1. Init => StepInv
  BY DEF Init, StepInv, AgentInStep, RecordsAgree, WorkInStep, ClaimsIntoEmpty,
     AtMostOneVoucher, Working
<1>2. AgentTypeInv /\ StepInv /\ [Next]_vars => StepInv'
  <2>. SUFFICES ASSUME AgentTypeInv, StepInv, [Next]_vars PROVE StepInv'
    OBVIOUS
  <2>. USE DEF StepInv, AgentInStep, RecordsAgree, WorkInStep, ClaimsIntoEmpty,
         AtMostOneVoucher, AgentTypeInv, LocalTypeOK, Hands, Busy, Holding, Working,
         Reporting, Reports, localVars, pollVars, At, Goto, HaveResult, Stop
  <2>1. CASE \/ CloudAlone \/ \E a \in Actions : Lapse(a)
             \/ \E c \in Computers : Pair(c) \/ Disconnect(c)
    <3>1. UNCHANGED <<claimed, unsent, pollVars, vouchers>>
      BY <2>1 DEF CloudAlone, Lapse, Pair, Disconnect
    <3>2. \A p \in Pollers : pc[p] \in Working => held[p] \in Actions
      OBVIOUS
    <3>. QED BY <2>1, <3>1, <3>2, ClaimsSurvive
  <2>2. ASSUME NEW p \in Pollers, PollStep(p) \/ Interrupt(p) \/ LoseAnswer(p)
        PROVE StepInv'
    <3>0. Home[p] \in Computers /\ \A q \in Pollers : q = p
      OBVIOUS
    <3>1. CASE Poll(p)
      BY <3>0, <3>1 DEF Poll
    <3>2. CASE Claim(p)
      BY <3>0, <3>2 DEF Claim
    <3>3. CASE SaveClaim(p)
      BY <3>0, <3>3 DEF SaveClaim
    <3>4. CASE Renew(p)
      BY <3>0, <3>4 DEF Renew, RenewLease, HoldsLease
    <3>5. CASE Resume(p)
      BY <3>0, <3>5 DEF Resume, cloudVars, actionVars
    <3>6. CASE LookUp(p) \/ ReadBack(p)
      BY <3>0, <3>6 DEF LookUp, ReadBack, VoucherSeen, RequestFails, cloudVars, actionVars
    <3>7. CASE Import(p)
      BY <3>0, <3>7 DEF Import, AddVoucher, RequestFails, cloudVars, actionVars
    <3>8. CASE Record(p)
      <4>1. held[p] \in Actions
        BY <3>8 DEF Record
      <4>2. \A c \in Computers, a \in Actions :
              unsent'[c][a] = IF c = Home[p] /\ a = held[p] THEN result[p] ELSE unsent[c][a]
        BY <3>0, <3>8, <4>1 DEF Record
      <4>. QED BY <3>0, <3>8, <4>1, <4>2 DEF Record, cloudVars, actionVars
    <3>9. CASE Report(p)
      BY <3>0, <3>9 DEF Report
    <3>10. CASE Complete(p)
      <4>1. held[p] \in Actions
        BY <3>10 DEF Complete
      <4>2. \A c \in Computers, a \in Actions :
              unsent'[c][a] = IF c = Home[p] /\ a = held[p] THEN "NONE" ELSE unsent[c][a]
        BY <3>0, <3>10, <4>1 DEF Complete
      <4>. QED BY <3>0, <3>10, <4>1, <4>2 DEF Complete
    <3>11. CASE Interrupt(p)
      BY <3>0, <3>11 DEF Interrupt, AddVoucher
    <3>12. CASE LoseAnswer(p)
      BY <3>0, <3>12 DEF LoseAnswer
    <3>. QED
      BY <2>2, <3>1, <3>2, <3>3, <3>4, <3>5, <3>6, <3>7, <3>8, <3>9, <3>10, <3>11, <3>12
      DEF PollStep
  <2>3. CASE UNCHANGED vars
    BY <2>3 DEF vars, cloudVars, actionVars
  <2>. QED BY <2>1, <2>2, <2>3 DEF Next
<1>. QED BY <1>1, <1>2, AgentTypeInvariant, PTL DEF Spec

(* With one running program the local records, the poller and the cloud    *)
(* agree at every await of poll_now (lib.rs process_pending, state.rs).    *)
THEOREM OneAgentInStep == ASSUME OnePoller PROVE Spec => []AgentInStep
<1>1. StepInv => AgentInStep
  BY DEF StepInv
<1>. QED BY <1>1, StepInvHolds, PTL

(* With one running program no action has two vouchers: the lookup by      *)
(* REMOTEID that precedes every import is enough (tally_write.rs           *)
(* create_voucher).                                                        *)
THEOREM OneVoucherPerAction == ASSUME OnePoller PROVE Spec => []AtMostOneVoucher
<1>1. StepInv => AtMostOneVoucher
  BY DEF StepInv
<1>. QED BY <1>1, StepInvHolds, PTL

-----------------------------------------------------------------------------
(* All that is known of a reachable state with one running program.        *)
OneInv == AgentTypeInv /\ SuccessIsReal /\ StepInv

(* It holds in every reachable state.                                      *)
LEMMA OneInvariant == ASSUME OnePoller PROVE Spec => []OneInv
<1>1. AgentTypeInv /\ SuccessIsReal /\ StepInv => OneInv
  BY DEF OneInv
<1>. QED BY <1>1, AgentTypeInvariant, TallySuccessIsReal, StepInvHolds, PTL

(* A poller puts a voucher for what it holds into Tally.                   *)
Imports(p) ==
  /\ pc[p] = "import"
  /\ AddVoucher(held[p])
  /\ UNCHANGED cloudVars

(* A voucher appears only when a poll imports it.                          *)
LEMMA OnlyImportsPost ==
  ASSUME [Next]_vars
  PROVE  vouchers' = vouchers \/ \E p \in Pollers : Imports(p)
<1>1. ASSUME NEW p \in Pollers, Import(p) \/ Interrupt(p)
      PROVE  vouchers' = vouchers \/ Imports(p)
  BY <1>1 DEF Import, Interrupt, Imports, At
<1>2. ASSUME NEW p \in Pollers, PollStep(p) \/ LoseAnswer(p), ~Import(p)
      PROVE  vouchers' = vouchers
  BY <1>2 DEF PollStep, Poll, Claim, SaveClaim, Renew, Resume, LookUp, ReadBack, Record,
     Report, Complete, LoseAnswer
<1>3. CASE \/ CloudAlone \/ \E a \in Actions : Lapse(a)
           \/ \E c \in Computers : Pair(c) \/ Disconnect(c)
           \/ UNCHANGED vars
  BY <1>3 DEF CloudAlone, Lapse, Pair, Disconnect, vars
<1>. QED BY <1>1, <1>2, <1>3 DEF Next

(* What is imported was approved, and is claimed and not yet in the books. *)
LEMMA ImportFacts ==
  ASSUME OneInv, NEW p \in Pollers, Imports(p)
  PROVE  /\ held[p] \in Actions
         /\ approved[held[p]]
         /\ status[held[p]] = "CLAIMED"
         /\ lease[held[p]] = using[p]
         /\ vouchers[held[p]] = 0
<1>1. held[p] \in Actions
  BY DEF OneInv, AgentTypeInv, Hands, Imports, Holding, Working
<1>2. status[held[p]] = "CLAIMED" /\ lease[held[p]] = using[p] /\ vouchers[held[p]] = 0
  BY DEF OneInv, StepInv, AgentInStep, WorkInStep, Imports, Working
<1>3. approved[held[p]]
  BY <1>1, <1>2 DEF OneInv, AgentTypeInv, CloudInv, Rows, ApprovedFirst, Waiting
<1>. QED BY <1>1, <1>2, <1>3

(* With one running program a voucher appears only for an approved action, *)
(* under the lease of the device that imports it (lib.rs process_pending   *)
(* renews before it works), whatever becomes of the device meanwhile.      *)
THEOREM VouchersOnlyUnderLease == ASSUME OnePoller PROVE Spec => VouchersUnderLease
<1>. DEFINE Covered(a) ==
       /\ approved[a]
       /\ status[a] = "CLAIMED"
       /\ \E p \in Pollers : held[p] = a /\ lease[a] = using[p]
<1>1. OneInv /\ [Next]_vars =>
        [\A a \in Actions : vouchers'[a] > vouchers[a] => Covered(a)]_vars
  <2>. SUFFICES ASSUME OneInv, [Next]_vars, NEW a \in Actions, vouchers'[a] > vouchers[a]
                PROVE  Covered(a)
    OBVIOUS
  <2>1. vouchers \in [Actions -> Nat]
    BY DEF OneInv, AgentTypeInv, LocalTypeOK
  <2>2. PICK p \in Pollers : Imports(p)
    BY <2>1, OnlyImportsPost
  <2>3. held[p] \in Actions /\ vouchers' = [vouchers EXCEPT ![held[p]] = @ + 1]
    BY <2>2, ImportFacts DEF Imports, AddVoucher
  <2>4. held[p] = a
    BY <2>1, <2>3
  <2>5. approved[a] /\ status[a] = "CLAIMED" /\ lease[a] = using[p]
    BY <2>2, <2>4, ImportFacts
  <2>. QED BY <2>2, <2>4, <2>5
<1>. QED BY <1>1, OneInvariant, PTL DEF Spec, VouchersUnderLease

-----------------------------------------------------------------------------
(***************************************************************************)
(* The contract.                                                           *)
(***************************************************************************)

(* A step that changes neither decisions nor outcomes is a stutter of the  *)
(* contract.                                                               *)
LEMMA Unseen ==
  ASSUME vouchers' = vouchers,
         \A a \in Actions : Decision(a)' = Decision(a) /\ Outcome(a)' = Outcome(a)
  PROVE  UNCHANGED Contract!vars
BY DEF Contract!vars

(* A row that moves between waiting and claimed is seen by no one.         *)
LEMMA WaitingIsUnseen ==
  ASSUME OneInv, approved' = approved, vouchers' = vouchers,
         \A a \in Actions :
           status'[a] = status[a] \/ {status[a], status'[a]} \subseteq Waiting
  PROVE  UNCHANGED Contract!vars
BY Unseen DEF Decision, Outcome, Waiting

(* A report of a result is a step of the contract.                         *)
LEMMA ReportsAreContract ==
  ASSUME OneInv, NEW p \in Pollers, pc[p] = "report",
         ReportResult(using[p], held[p], result[p]), vouchers' = vouchers
  PROVE  Contract!Next
<1>. DEFINE a == held[p]
<1>1. a \in Actions /\ result[p] \in Reports
  BY DEF OneInv, AgentTypeInv, Hands, Holding, Reporting, Working
<1>2. status[a] = "CLAIMED" /\ approved[a]
  BY <1>1 DEF ReportResult, HoldsLease, OneInv, AgentTypeInv, CloudInv, Rows, ApprovedFirst,
     Waiting
<1>3. PICK s \in Verdicts(result[p]) : status' = [status EXCEPT ![a] = s]
  BY DEF ReportResult
<1>4. s \in {"SUCCEEDED", "NEEDS_REVIEW", "FAILED"} /\ (s = "SUCCEEDED" => result[p] = "ACCEPTED")
  BY <1>3 DEF Verdicts
<1>5. status \in [Actions -> Status \cup {"NONE"}] /\ approved' = approved
  BY DEF ReportResult, OneInv, AgentTypeInv, CloudInv, CloudTypeOK
<1>6. Decision(a) = "approved" /\ Outcome(a) = "open"
  BY <1>2 DEF Decision, Outcome
<1>7. \A b \in Actions :
        /\ Decision(b)' = Decision(b)
        /\ Outcome(b)' = IF b = a THEN (IF s = "SUCCEEDED" THEN "verified" ELSE "handed_over")
                                  ELSE Outcome(b)
  BY <1>1, <1>2, <1>3, <1>4, <1>5 DEF Decision, Outcome
<1>8. CASE s = "SUCCEEDED"
  <2>1. vouchers[a] = 1
    BY <1>1, <1>4, <1>8 DEF OneInv, SuccessIsReal, StepInv, AtMostOneVoucher, AgentTypeInv,
       LocalTypeOK
  <2>2. Contract!Verify(a)
    BY <1>1, <1>6, <1>7, <1>8, <2>1 DEF Contract!Verify
  <2>. QED BY <1>1, <2>2 DEF Contract!Next
<1>9. CASE s # "SUCCEEDED"
  <2>1. Contract!HandOver(a)
    BY <1>1, <1>6, <1>7, <1>9 DEF Contract!HandOver
  <2>. QED BY <1>1, <2>1 DEF Contract!Next
<1>. QED BY <1>8, <1>9

(* With one running program the agent and the cloud implement              *)
(* PostingContract: one voucher per approved action, none for an action    *)
(* that was cancelled or handed back, and success only for a voucher that  *)
(* is in Tally.                                                            *)
THEOREM TallyKeepsContract == ASSUME OnePoller PROVE Spec => KeepsContract
<1>1. Init => Contract!Init
  BY DEF Init, CloudInit, Contract!Init, Decision, Outcome
<1>2. OneInv /\ [Next]_vars => [Contract!Next]_(Contract!vars)
  <2>. SUFFICES ASSUME OneInv, [Next]_vars
                PROVE  Contract!Next \/ UNCHANGED Contract!vars
    OBVIOUS
  <2>0. /\ status \in [Actions -> Status \cup {"NONE"}]
        /\ approved \in [Actions -> BOOLEAN]
        /\ CloudTypeOK /\ TriesExact
    BY DEF OneInv, AgentTypeInv, CloudInv, CloudTypeOK, Rows
  <2>1. ASSUME NEW a \in Actions, Decide(a), UNCHANGED vouchers
        PROVE  Contract!Next \/ UNCHANGED Contract!vars
    <3>1. CASE ProposeAction(a)
      <4>1. ~approved[a]
        BY <3>1 DEF ProposeAction, OneInv, AgentTypeInv, CloudInv, Rows, ApprovedFirst
      <4>2. \A b \in Actions : Decision(b)' = Decision(b) /\ Outcome(b)' = Outcome(b)
        BY <2>0, <3>1, <4>1 DEF ProposeAction, Decision, Outcome
      <4>. QED BY <2>1, <4>2, Unseen
    <3>2. CASE ApproveAction(a)
      <4>1. ~approved[a]
        BY <3>2 DEF ApproveAction, OneInv, AgentTypeInv, CloudInv, Rows, ApprovedFirst
      <4>2. Decision(a) = "undecided"
        BY <3>2, <4>1 DEF ApproveAction, Decision
      <4>3. \A b \in Actions : /\ Decision(b)' = IF b = a THEN "approved" ELSE Decision(b)
                               /\ Outcome(b)' = Outcome(b)
        BY <2>0, <3>2 DEF ApproveAction, Decision, Outcome
      <4>. QED BY <2>1, <4>2, <4>3 DEF Contract!Approve, Contract!Next
    <3>3. CASE CancelAction(a)
      <4>1. Decision(a) # "cancelled" /\ Outcome(a) = "open"
        BY <3>3 DEF CancelAction, Decision, Outcome
      <4>2. \A b \in Actions : /\ Decision(b)' = IF b = a THEN "cancelled" ELSE Decision(b)
                               /\ Outcome(b)' = Outcome(b)
        BY <2>0, <3>3 DEF CancelAction, Decision, Outcome
      <4>. QED BY <2>1, <4>1, <4>2 DEF Contract!Cancel, Contract!Next
    <3>. QED BY <2>1, <3>1, <3>2, <3>3 DEF Decide
  <2>2. ASSUME UNCHANGED <<status, approved, vouchers>> PROVE UNCHANGED Contract!vars
    BY <2>2, Unseen DEF Decision, Outcome
  <2>3. CASE \/ CloudAlone \/ \E a \in Actions : Lapse(a)
             \/ \E c \in Computers : Pair(c) \/ Disconnect(c)
             \/ UNCHANGED vars
    BY <2>1, <2>2, <2>3 DEF CloudAlone, Lapse, Pair, Disconnect, TogglePermission,
       LeaseLapses, PairDevice, DisconnectDevice, vars, cloudVars, actionVars
  <2>4. ASSUME NEW p \in Pollers, NEW d,
               \/ ClaimNothing(d) \/ ClaimRefused(d)
               \/ \E a \in Actions : ClaimAction(d, a)
               \/ RenewLease(d, held[p]) \/ LeaseRefused(d, held[p]),
               UNCHANGED vouchers
        PROVE  UNCHANGED Contract!vars
    <3>1. \A b \in Actions :
            Swept(b) = status[b] \/ {status[b], Swept(b)} \subseteq Waiting
      <4>. SUFFICES ASSUME NEW b \in Actions
                    PROVE  Swept(b) = status[b] \/ {status[b], Swept(b)} \subseteq Waiting
        OBVIOUS
      <4>1. /\ status[b] \notin {"CLAIMED", "RETRY_SCHEDULED"} => Swept(b) = status[b]
            /\ status[b] = "CLAIMED" /\ ~lapsed[b] => Swept(b) = "CLAIMED"
            /\ Expired(b) => Swept(b) \in {"QUEUED", "RETRY_SCHEDULED"}
            /\ status[b] = "RETRY_SCHEDULED" => Swept(b) = "RETRY_SCHEDULED"
        BY <2>0, SweepFacts
      <4>. QED BY <4>1 DEF Expired, Waiting
    <3>2. \A b \in Actions :
            status'[b] = status[b] \/ {status[b], status'[b]} \subseteq Waiting
      BY <2>4, <3>1 DEF ClaimNothing, ClaimRefused, ClaimAction, Oldest, Claimable, Waiting,
         RenewLease, LeaseRefused, cloudVars, actionVars
    <3>3. approved' = approved
      BY <2>4 DEF ClaimNothing, ClaimRefused, ClaimAction, RenewLease, LeaseRefused,
         cloudVars, actionVars
    <3>. QED BY <2>4, <3>2, <3>3, WaitingIsUnseen
  <2>5. ASSUME NEW p \in Pollers, Claim(p) \/ Renew(p) PROVE UNCHANGED Contract!vars
    BY <2>4, <2>5 DEF Claim, Renew
  <2>6. ASSUME NEW p \in Pollers, Report(p)
        PROVE  Contract!Next \/ UNCHANGED Contract!vars
    BY <2>4, <2>6, ReportsAreContract DEF Report, At
  <2>7. ASSUME NEW p \in Pollers, LoseAnswer(p)
        PROVE  Contract!Next \/ UNCHANGED Contract!vars
    BY <2>4, <2>7, ReportsAreContract DEF LoseAnswer, At
  <2>8. ASSUME NEW p \in Pollers, Imports(p) PROVE Contract!Next
    <3>1. held[p] \in Actions /\ Decision(held[p]) = "approved" /\ Outcome(held[p]) = "open"
      BY <2>8, ImportFacts DEF Decision, Outcome
    <3>2. vouchers[held[p]] = 0 /\ vouchers' = [vouchers EXCEPT ![held[p]] = @ + 1]
      BY <2>8, ImportFacts DEF Imports, AddVoucher
    <3>4. vouchers' = [vouchers EXCEPT ![held[p]] = 1]
      BY <3>2
    <3>3. \A b \in Actions : Decision(b)' = Decision(b) /\ Outcome(b)' = Outcome(b)
      BY <2>8 DEF Imports, cloudVars, actionVars, Decision, Outcome
    <3>. QED BY <3>1, <3>2, <3>3, <3>4 DEF Contract!Post, Contract!Next
  <2>9. ASSUME NEW p \in Pollers,
               \/ Poll(p) \/ SaveClaim(p) \/ Resume(p) \/ LookUp(p) \/ Import(p)
               \/ ReadBack(p) \/ Record(p) \/ Complete(p) \/ Interrupt(p)
        PROVE  Contract!Next \/ UNCHANGED Contract!vars
    <3>1. UNCHANGED cloudVars
      BY <2>9 DEF Poll, SaveClaim, Resume, LookUp, Import, ReadBack, Record, Complete,
         Interrupt
    <3>2. CASE vouchers' = vouchers
      BY <2>2, <3>1, <3>2 DEF cloudVars, actionVars
    <3>. QED BY <2>8, <3>2, OnlyImportsPost
  <2>. QED
    BY <2>3, <2>5, <2>6, <2>7, <2>9 DEF Next, PollStep
<1>. QED BY <1>1, <1>2, OneInvariant, PTL DEF Spec, KeepsContract, Contract!Spec
=============================================================================
