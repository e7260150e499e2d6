----------------------------- MODULE TallyAgent -----------------------------
(***************************************************************************)
(* The FirmOS Tally Agent, a desktop program beside TallyPrime, together   *)
(* with the cloud that it calls: it claims an approved action, records it  *)
(* in its local database, looks the voucher up in Tally, imports it if it  *)
(* is not there, reads it back, records the result and reports it.         *)
(*                                                                         *)
(* A poller is one running poll_now.  The program starts one loop, but     *)
(* nothing keeps it from being started twice on a computer.  Every await   *)
(* is a point where the poller may stop: an error returns from poll_now,   *)
(* a restart begins again, and in both cases only the local database is    *)
(* left.  A request is carried out by the cloud while the poller waits for *)
(* its answer, or not at all, and the answer may be lost.                  *)
(*                                                                         *)
(* Tally serves one request at a time, so a lookup that is answered sees   *)
(* every import that was sent before it.                                   *)
(***************************************************************************)
EXTENDS TallyCloud, FiniteSets

CONSTANTS
  Computers,   \* installations of the program, each with its agent.db
  Pollers,     \* running loops of poll_now
  Home,        \* the computer each poller runs on
  NoAction,    \* what a poller holds between two actions
  Faults,      \* the points at which a poller may be cut short
  MaxFailures  \* bound on how often that happens

ASSUME TallyAgentAssumption ==
  /\ Home \in [Pollers -> Computers]
  /\ NoAction \notin Actions
  /\ MaxFailures \in Nat

VARIABLES
  config,    \* the device in the configuration table, NoDevice without one
  claimed,   \* the rows of claimed_actions
  unsent,    \* the status in unsent_results, "NONE" without a row
  pc,        \* where each poller is in poll_now and process_pending
  using,     \* the device of the configuration that poll_now loaded
  held,      \* the action it processes
  result,    \* the result it is about to record or report
  vouchers,  \* Tally's vouchers with each action's REMOTEID
  failures   \* faults so far

localVars == <<config, claimed, unsent>>
pollVars == <<pc, using, held, result>>
vars == <<cloudVars, localVars, pollVars, vouchers, failures>>

-----------------------------------------------------------------------------
Working == {"work", "lookup", "import", "readback", "record", "report"}
Busy == {"claim", "save", "renew", "complete"} \cup Working
Answers == {"claim_answer", "renew_answer", "report_answer"}

ASSUME FaultsAssumption == Faults \subseteq Busy \cup Answers

TypeOK ==
  /\ CloudTypeOK
  /\ config \in [Computers -> Devices \cup {NoDevice}]
  /\ claimed \in [Computers -> SUBSET Actions]
  /\ unsent \in [Computers -> [Actions -> Reports \cup {"NONE"}]]
  /\ pc \in [Pollers -> Busy \cup {"idle"}]
  /\ using \in [Pollers -> Devices \cup {NoDevice}]
  /\ held \in [Pollers -> Actions \cup {NoAction}]
  /\ result \in [Pollers -> Reports \cup {"NONE"}]
  /\ vouchers \in [Actions -> Nat]
  /\ failures \in Nat

Init ==
  /\ CloudInit
  /\ config = [c \in Computers |-> NoDevice]
  /\ claimed = [c \in Computers |-> {}]
  /\ unsent = [c \in Computers |-> [a \in Actions |-> "NONE"]]
  /\ pc = [p \in Pollers |-> "idle"]
  /\ using = [p \in Pollers |-> NoDevice]
  /\ held = [p \in Pollers |-> NoAction]
  /\ result = [p \in Pollers |-> "NONE"]
  /\ vouchers = [a \in Actions |-> 0]
  /\ failures = 0

-----------------------------------------------------------------------------
(***************************************************************************)
(* Pairing and disconnecting a computer, from the agent's window.          *)
(***************************************************************************)

(* The window offers pairing where there is no configuration.              *)
Pair(c) ==
  /\ config[c] = NoDevice
  /\ PairDevice
  /\ \/ config' = [config EXCEPT ![c] = paired + 1]
     \/ UNCHANGED config
  /\ UNCHANGED <<claimed, unsent, pollVars, vouchers, failures>>

(* The configuration is deleted after a success or a 401, the recorded     *)
(* claims and results are not.                                             *)
Disconnect(c) ==
  /\ config[c] # NoDevice
  /\ \/ DisconnectDevice(config[c])
     \/ config[c] # device /\ UNCHANGED cloudVars
  /\ \/ config' = [config EXCEPT ![c] = NoDevice]
     \/ UNCHANGED config
  /\ UNCHANGED <<claimed, unsent, pollVars, vouchers, failures>>

-----------------------------------------------------------------------------
(***************************************************************************)
(* Polling.                                                                *)
(***************************************************************************)

At(p, s) == pc[p] = s
Goto(p, s) == pc' = [pc EXCEPT ![p] = s] /\ UNCHANGED <<using, held, result>>

(* poll_now returns, with or without an error, or the program ends.        *)
Stop(p) ==
  /\ pc' = [pc EXCEPT ![p] = "idle"]
  /\ using' = [using EXCEPT ![p] = NoDevice]
  /\ held' = [held EXCEPT ![p] = NoAction]
  /\ result' = [result EXCEPT ![p] = "NONE"]

(* The configuration is loaded once.  A recorded claim comes before a new  *)
(* one; created_at counts seconds, so which of two is older may be open.   *)
Poll(p) ==
  LET c == Home[p] IN
  /\ At(p, "idle")
  /\ config[c] # NoDevice
  /\ using' = [using EXCEPT ![p] = config[c]]
  /\ \/ /\ claimed[c] = {}
        /\ pc' = [pc EXCEPT ![p] = "claim"]
        /\ UNCHANGED held
     \/ \E a \in claimed[c] :
          /\ held' = [held EXCEPT ![p] = a]
          /\ pc' = [pc EXCEPT ![p] = "renew"]
  /\ UNCHANGED <<cloudVars, localVars, result, vouchers, failures>>

Claim(p) ==
  /\ At(p, "claim")
  /\ \/ \E a \in Actions :
          /\ ClaimAction(using[p], a)
          /\ held' = [held EXCEPT ![p] = a]
          /\ pc' = [pc EXCEPT ![p] = "save"]
          /\ UNCHANGED <<using, result>>
     \/ (ClaimNothing(using[p]) \/ ClaimRefused(using[p])) /\ Stop(p)
  /\ UNCHANGED <<localVars, vouchers, failures>>

SaveClaim(p) ==
  /\ At(p, "save")
  /\ claimed' = [claimed EXCEPT ![Home[p]] = @ \cup {held[p]}]
  /\ Goto(p, "renew")
  /\ UNCHANGED <<cloudVars, config, unsent, vouchers, failures>>

(* Faulty variant: a refused renewal does not stop the work.               *)
RenewLoosely(p) ==
  /\ At(p, "renew")
  /\ \/ RenewLease(using[p], held[p])
     \/ LeaseRefused(using[p], held[p])
  /\ Goto(p, "work")
  /\ UNCHANGED <<localVars, vouchers, failures>>

Renew(p) ==
  /\ At(p, "renew")
  /\ \/ RenewLease(using[p], held[p]) /\ Goto(p, "work")
     \/ LeaseRefused(using[p], held[p]) /\ Stop(p)
  /\ UNCHANGED <<localVars, vouchers, failures>>

-----------------------------------------------------------------------------
(***************************************************************************)
(* Processing an action.                                                   *)
(***************************************************************************)

HaveResult(p, r, next) ==
  /\ result' = [result EXCEPT ![p] = r]
  /\ pc' = [pc EXCEPT ![p] = next]
  /\ UNCHANGED <<using, held>>

(* A result that was recorded before is reported as it is.                 *)
Resume(p) ==
  LET r == unsent[Home[p]][held[p]] IN
  /\ At(p, "work")
  /\ IF r = "NONE" THEN Goto(p, "lookup") ELSE HaveResult(p, r, "report")
  /\ UNCHANGED <<cloudVars, localVars, vouchers, failures>>

(* Faulty variant: any voucher of that day is taken for this one.          *)
AnyVoucherSeen(p) ==
  /\ \E a \in Actions : vouchers[a] > 0
  /\ \E r \in {"ACCEPTED", "INCOMPLETE"} : HaveResult(p, r, "record")

(* action_result: a voucher that was seen is accepted, with its GUID or    *)
(* without; TALLY_PERMISSION_DENIED is FAILED, at whichever request it     *)
(* comes, and any other error is AMBIGUOUS.                                *)
VoucherSeen(p) ==
  /\ vouchers[held[p]] > 0
  /\ \E r \in {"ACCEPTED", "INCOMPLETE"} : HaveResult(p, r, "record")
RequestFails(p) ==
  \E r \in {"AMBIGUOUS", "FAILED"} : HaveResult(p, r, "record")

(* Faulty variant: a lookup that fails is taken for one without a result.  *)
LookUpLoosely(p) ==
  /\ At(p, "lookup")
  /\ VoucherSeen(p) \/ Goto(p, "import")
  /\ UNCHANGED <<cloudVars, localVars, vouchers, failures>>

LookUp(p) ==
  /\ At(p, "lookup")
  /\ \/ VoucherSeen(p)
     \/ RequestFails(p)
     \/ vouchers[held[p]] = 0 /\ Goto(p, "import")
  /\ UNCHANGED <<cloudVars, localVars, vouchers, failures>>

AddVoucher(a) == vouchers' = [vouchers EXCEPT ![a] = @ + 1]

(* Only the answer that one voucher was created leads on.  An error in the *)
(* answer is FAILED, anything else or no answer is AMBIGUOUS.              *)
Import(p) ==
  /\ At(p, "import")
  /\ \/ AddVoucher(held[p]) /\ Goto(p, "readback")
     \/ AddVoucher(held[p]) /\ HaveResult(p, "AMBIGUOUS", "record")
     \/ UNCHANGED vouchers /\ RequestFails(p)
  /\ UNCHANGED <<cloudVars, localVars, failures>>

ReadBack(p) ==
  /\ At(p, "readback")
  /\ VoucherSeen(p) \/ RequestFails(p)
  /\ UNCHANGED <<cloudVars, localVars, vouchers, failures>>

Record(p) ==
  /\ At(p, "record")
  /\ unsent' = [unsent EXCEPT ![Home[p]][held[p]] = result[p]]
  /\ Goto(p, "report")
  /\ UNCHANGED <<cloudVars, config, claimed, vouchers, failures>>

Report(p) ==
  /\ At(p, "report")
  /\ \/ ReportResult(using[p], held[p], result[p]) /\ Goto(p, "complete")
     \/ LeaseRefused(using[p], held[p]) /\ Stop(p)
  /\ UNCHANGED <<localVars, vouchers, failures>>

(* complete_action deletes the rows; after an acceptance the configuration *)
(* that poll_now loaded is saved again for its last_write_at.              *)
Complete(p) ==
  LET c == Home[p] IN
  /\ At(p, "complete")
  /\ claimed' = [claimed EXCEPT ![c] = @ \ {held[p]}]
  /\ unsent' = [unsent EXCEPT ![c][held[p]] = "NONE"]
  /\ config' = IF result[p] \in {"ACCEPTED", "INCOMPLETE"}
                 THEN [config EXCEPT ![c] = using[p]] ELSE config
  /\ Stop(p)
  /\ UNCHANGED <<cloudVars, vouchers, failures>>

-----------------------------------------------------------------------------
(***************************************************************************)
(* Faults: a request that does not arrive, a local error, a restart; or an *)
(* answer that does not arrive.                                            *)
(***************************************************************************)

Interrupt(p) ==
  /\ pc[p] \in Faults
  /\ failures < MaxFailures
  /\ failures' = failures + 1
  /\ \/ At(p, "import") /\ AddVoucher(held[p])
     \/ UNCHANGED vouchers
  /\ Stop(p)
  /\ UNCHANGED <<cloudVars, localVars>>

LoseAnswer(p) ==
  /\ failures < MaxFailures
  /\ failures' = failures + 1
  /\ \/ /\ At(p, "claim") /\ "claim_answer" \in Faults
        /\ \E a \in Actions : ClaimAction(using[p], a)
     \/ /\ At(p, "renew") /\ "renew_answer" \in Faults
        /\ RenewLease(using[p], held[p])
     \/ /\ At(p, "report") /\ "report_answer" \in Faults
        /\ ReportResult(using[p], held[p], result[p])
  /\ Stop(p)
  /\ UNCHANGED <<localVars, vouchers>>

(* What happens at the cloud without an agent.                             *)
CloudAlone ==
  /\ \/ \E a \in Actions : Decide(a)
     \/ TogglePermission
  /\ UNCHANGED <<localVars, pollVars, vouchers, failures>>

Lapse(a) ==
  LeaseLapses(a) /\ UNCHANGED <<localVars, pollVars, vouchers, failures>>

-----------------------------------------------------------------------------
PollStep(p) ==
  \/ Poll(p) \/ Claim(p) \/ SaveClaim(p) \/ Renew(p)
  \/ Resume(p) \/ LookUp(p) \/ Import(p) \/ ReadBack(p)
  \/ Record(p) \/ Report(p) \/ Complete(p)

Next ==
  \/ CloudAlone
  \/ \E a \in Actions : Lapse(a)
  \/ \E c \in Computers : Pair(c) \/ Disconnect(c)
  \/ \E p \in Pollers : PollStep(p) \/ Interrupt(p) \/ LoseAnswer(p)

Spec == Init /\ [][Next]_vars

(* background polls every minute for as long as the program runs, its      *)
(* requests end by their timeouts, and ninety seconds pass.                *)
Fairness ==
  /\ \A p \in Pollers : WF_vars(PollStep(p))
  /\ \A a \in Actions : WF_vars(Lapse(a))

FairSpec == Spec /\ Fairness

-----------------------------------------------------------------------------
(***************************************************************************)
(* Safety.                                                                 *)
(***************************************************************************)

(* One running program: the premise of what follows where it is named.     *)
OnePoller == \A p, q \in Pollers : p = q

(* No action ever has two vouchers in Tally, whatever restarts, lost       *)
(* answers, lapsed leases and new pairings fall between the lookup and the *)
(* import of create_voucher.  Needs OnePoller.                             *)
AtMostOneVoucher == \A a \in Actions : vouchers[a] <= 1

(* A voucher appears only for an approved action that the cloud still      *)
(* shows as CLAIMED, under the device that the poller uses.                *)
(* Needs OnePoller.                                                        *)
VouchersUnderLease ==
  [][\A a \in Actions : vouchers'[a] > vouchers[a] =>
       /\ approved[a]
       /\ status[a] = "CLAIMED"
       /\ \E p \in Pollers : held[p] = a /\ lease[a] = using[p]]_vars

(* The local database, the poller and the cloud agree: there is one        *)
(* recorded claim at most, a recorded result belongs to it, whoever works  *)
(* has recorded what it works on and has the lease, an import follows only *)
(* a lookup that found nothing, and what is reported is what was recorded. *)
(* Needs OnePoller.                                                        *)
RecordsAgree(c) ==
  /\ \A a, b \in claimed[c] : a = b
  /\ \A a \in Actions : unsent[c][a] # "NONE" => a \in claimed[c]
WorkInStep(p) ==
  /\ pc[p] \in Working \cup {"complete", "renew"} => held[p] \in claimed[Home[p]]
  /\ pc[p] \in Working => status[held[p]] = "CLAIMED" /\ lease[held[p]] = using[p]
  /\ pc[p] \in {"lookup", "import", "readback", "record"} =>
       unsent[Home[p]][held[p]] = "NONE"
  /\ pc[p] = "import" => vouchers[held[p]] = 0
  /\ pc[p] \in {"report", "complete"} => unsent[Home[p]][held[p]] = result[p]
AgentInStep ==
  (\A c \in Computers : RecordsAgree(c)) /\ (\A p \in Pollers : WorkInStep(p))

(* SUCCEEDED, and a result that says so, recorded or on its way, mean that *)
(* Tally has the voucher: for any number of computers and programs.        *)
SuccessIsReal ==
  \A a \in Actions :
    (\/ status[a] = "SUCCEEDED"
     \/ \E c \in Computers : unsent[c][a] = "ACCEPTED"
     \/ \E p \in Pollers : held[p] = a /\ result[p] = "ACCEPTED")
      => vouchers[a] > 0

(***************************************************************************)
(* The agent and the cloud keep the promise of PostingContract.            *)
(***************************************************************************)
Decision(a) ==
  CASE status[a] = "CANCELLED" -> "cancelled"
    [] status[a] # "CANCELLED" /\ approved[a] -> "approved"
    [] OTHER -> "undecided"
Outcome(a) ==
  CASE status[a] = "SUCCEEDED" -> "verified"
    [] status[a] \in {"NEEDS_REVIEW", "FAILED"} -> "handed_over"
    [] OTHER -> "open"

Contract == INSTANCE PostingContract WITH
  References <- Actions,
  Ref <- [a \in Actions |-> a],
  decision <- [a \in Actions |-> Decision(a)],
  outcome <- [a \in Actions |-> Outcome(a)],
  posted <- vouchers

(* Every step of the agent and of the cloud is a step of the contract or   *)
(* invisible to it.  Needs OnePoller.                                      *)
KeepsContract == Contract!Spec

(***************************************************************************)
(* Liveness.                                                               *)
(***************************************************************************)

(* A claim recorded under a device that was replaced since.  Every poll    *)
(* takes a recorded claim first, its renewal is refused, and nothing       *)
(* deletes it: with one left over the agent never claims again.            *)
LeftOver(c) == \E a \in claimed[c] : lease[a] # device

(* The installation stays connected to one computer, with no claim left    *)
(* over from an earlier pairing, and writes allowed.                       *)
Operating ==
  \E c \in Computers :
    /\ device # NoDevice /\ config[c] = device /\ permitted
    /\ ~ LeftOver(c)
    /\ \E p \in Pollers : Home[p] = c

Fits(a) == \A b \in Actions : Order[b] <= Order[a] => b \notin Misfits

(* Then every queued action is settled, unless it or one before it does    *)
(* not fit the company: a claim whose answer was lost, or that a device    *)
(* since replaced made and did not record, is made again after its lease,  *)
(* and recorded work is resumed.                                           *)
QueuedActionsSettle ==
  <>[]Operating =>
    \A a \in Actions :
      (status[a] = "QUEUED" /\ Fits(a)) ~> status[a] \in Closed
=============================================================================
