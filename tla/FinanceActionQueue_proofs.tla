---------------------- MODULE FinanceActionQueue_proofs ----------------------
(***************************************************************************)
(* Theorems about FinanceActionQueue for every set of actions, workers and *)
(* references and every bound.                                             *)
(***************************************************************************)
EXTENDS FinanceActionQueue, TLAPS

(* What a worker can be told to finish an action as, and what _finish then *)
(* stores.                                                                 *)
LEMMA StatusFacts ==
  /\ \A s : FailureStatus(s) \in {"AUTH_EXPIRED", "RETRY_SCHEDULED", "NEEDS_REVIEW"}
  /\ {"AUTH_EXPIRED", "RETRY_SCHEDULED", "NEEDS_REVIEW"} \subseteq Results
  /\ \A w \in Workers : Stored(w) \in {"DEAD_LETTER", result[w]}
BY DEF FailureStatus, Results, Stored

(* A worker holds an action exactly while it is busy with one.             *)
HoldsClaim == \A w \in Workers : pc[w] \in Busy <=> claim[w] \in Actions
TypeInv == TypeOK /\ HoldsClaim

(* Types, and that a worker's claim goes with its position, are inductive. *)
LEMMA TypeInvariant == Spec => []TypeInv
<1>. USE ConstantsAssumption
<1>1. Init => TypeInv
  BY DEF Init, TypeInv, TypeOK, HoldsClaim, Busy, Connector, Recording, Results,
     JobStatus
<1>2. TypeInv /\ [Next]_vars => TypeInv'
  <2>. SUFFICES ASSUME TypeInv, [Next]_vars PROVE TypeInv'
    OBVIOUS
  <2>. USE DEF TypeInv, HoldsClaim, TypeOK, Status, JobStatus, Results, Busy, Connector,
               Recording, At, Goto, FinishAs, Die, AddBill, CreateEffect, dbVars,
               workerVars, providerVars, switchVars
  <2>1. ASSUME NEW a \in Actions, Propose(a) PROVE TypeInv'
    BY <2>1 DEF Propose, ProposeAction
  <2>2. ASSUME NEW a \in Actions, Approve(a) PROVE TypeInv'
    BY <2>2 DEF Approve, ApproveAction
  <2>3. ASSUME NEW a \in Actions, Cancel(a) PROVE TypeInv'
    BY <2>3 DEF Cancel, CancelAction
  <2>4. ASSUME NEW S \in SUBSET Actions, Tick(S) PROVE TypeInv'
    BY <2>4 DEF Tick
  <2>5. ASSUME NEW w \in Workers, NEW a \in Actions, Claim(w, a) PROVE TypeInv'
    BY <2>5 DEF Claim
  <2>6. ASSUME NEW w \in Workers, CheckPrecondition(w) PROVE TypeInv'
    BY <2>6 DEF CheckPrecondition
  <2>7. ASSUME NEW w \in Workers, CheckWriteBlock(w) PROVE TypeInv'
    BY <2>7 DEF CheckWriteBlock
  <2>8. ASSUME NEW w \in Workers, BeginExecuting(w) PROVE TypeInv'
    BY <2>8 DEF BeginExecuting
  <2>9. ASSUME NEW w \in Workers, Preflight(w) PROVE TypeInv'
    BY <2>9, StatusFacts DEF Preflight, OneCandidate, SeveralCandidates, LookupFails
  <2>10. ASSUME NEW w \in Workers, Recover(w) PROVE TypeInv'
    BY <2>10, StatusFacts DEF Recover, OneCandidate, SeveralCandidates, LookupFails,
       NothingRecovered
  <2>11. ASSUME NEW w \in Workers, CreateAnswered(w) PROVE TypeInv'
    BY <2>11, StatusFacts DEF CreateAnswered
  <2>12. ASSUME NEW w \in Workers, CreateLost(w) PROVE TypeInv'
    BY <2>12 DEF CreateLost
  <2>13. ASSUME NEW w \in Workers, ConnectorRaises(w) \/ ConnectorMissing(w) PROVE TypeInv'
    BY <2>13 DEF ConnectorRaises, ConnectorMissing
  <2>14. ASSUME NEW w \in Workers, NEW s \in Refusals, CreateRefused(w, s) PROVE TypeInv'
    BY <2>14, StatusFacts DEF CreateRefused
  <2>15. ASSUME NEW w \in Workers, RecordAcceptance(w) PROVE TypeInv'
    BY <2>15 DEF RecordAcceptance
  <2>16. ASSUME NEW w \in Workers, BeginVerifying(w) PROVE TypeInv'
    BY <2>16 DEF BeginVerifying
  <2>17. ASSUME NEW w \in Workers, ReadBack(w) PROVE TypeInv'
    BY <2>17 DEF ReadBack
  <2>18. ASSUME NEW w \in Workers, RecordMismatch(w) PROVE TypeInv'
    BY <2>18 DEF RecordMismatch
  <2>19. ASSUME NEW w \in Workers, Complete(w) PROVE TypeInv'
    BY <2>19 DEF Complete
  <2>20. ASSUME NEW w \in Workers, Finish(w) PROVE TypeInv'
    BY <2>20, StatusFacts DEF Finish
  <2>21. ASSUME NEW w \in Workers, Restart(w) PROVE TypeInv'
    BY <2>21 DEF Restart
  <2>22. ASSUME NEW w \in Workers, Crash(w) PROVE TypeInv'
    BY <2>22 DEF Crash
  <2>23. ASSUME NEW w \in Workers, StatementFails(w) PROVE TypeInv'
    BY <2>23 DEF StatementFails
  <2>24. ASSUME NEW r \in References, LateEffect(r) PROVE TypeInv'
    BY <2>24 DEF LateEffect
  <2>25. CASE ToggleReady \/ ToggleWrites
    BY <2>25 DEF ToggleReady, ToggleWrites
  <2>26. CASE UNCHANGED vars
    BY <2>26 DEF vars
  <2>. QED
    BY <2>1, <2>2, <2>3, <2>4, <2>5, <2>6, <2>7, <2>8, <2>9, <2>10, <2>11, <2>12, <2>13,
       <2>14, <2>15, <2>16, <2>17, <2>18, <2>19, <2>20, <2>21, <2>22, <2>23, <2>24,
       <2>25, <2>26 DEF Next, WorkerStep, SchedulerStep
<1>. QED BY <1>1, <1>2, PTL DEF Spec

(* Every variable keeps its type through every operation of the engine,    *)
(* the scheduler, the worker and the connector.                            *)
THEOREM TypeCorrect == Spec => []TypeOK
<1>1. TypeInv => TypeOK
  BY DEF TypeInv
<1>. QED BY <1>1, TypeInvariant, PTL

-----------------------------------------------------------------------------
(* Two workers never run the same action, and what a worker holds is       *)
(* claimed in the database (worker.py claim, FOR UPDATE SKIP LOCKED).      *)
THEOREM ClaimsExclusive == Spec => []ExclusiveClaims
<1>. USE ConstantsAssumption
<1>1. Init => ExclusiveClaims
  BY DEF Init, ExclusiveClaims
<1>2. TypeInv /\ ExclusiveClaims /\ [Next]_vars => ExclusiveClaims'
  <2>. SUFFICES ASSUME TypeInv, ExclusiveClaims, [Next]_vars PROVE ExclusiveClaims'
    OBVIOUS
  <2>. USE DEF ExclusiveClaims, TypeInv, HoldsClaim, TypeOK, Busy, Connector, Recording,
               At, Goto, FinishAs, Die, dbVars, workerVars, providerVars, switchVars
  <2>1. ASSUME NEW a \in Actions, Propose(a) PROVE ExclusiveClaims'
    BY <2>1 DEF Propose, ProposeAction
  <2>2. ASSUME NEW a \in Actions, Approve(a) PROVE ExclusiveClaims'
    BY <2>2 DEF Approve, ApproveAction
  <2>3. ASSUME NEW a \in Actions, Cancel(a) PROVE ExclusiveClaims'
    BY <2>3 DEF Cancel, CancelAction
  <2>4. ASSUME NEW S \in SUBSET Actions, Tick(S) PROVE ExclusiveClaims'
    BY <2>4 DEF Tick
  <2>5. ASSUME NEW w \in Workers, NEW a \in Actions, Claim(w, a) PROVE ExclusiveClaims'
    BY <2>5 DEF Claim
  <2>6. ASSUME NEW w \in Workers, CheckPrecondition(w) PROVE ExclusiveClaims'
    BY <2>6 DEF CheckPrecondition
  <2>7. ASSUME NEW w \in Workers, CheckWriteBlock(w) PROVE ExclusiveClaims'
    BY <2>7 DEF CheckWriteBlock
  <2>8. ASSUME NEW w \in Workers, BeginExecuting(w) PROVE ExclusiveClaims'
    BY <2>8 DEF BeginExecuting
  <2>9. ASSUME NEW w \in Workers, Preflight(w) PROVE ExclusiveClaims'
    BY <2>9 DEF Preflight, OneCandidate, SeveralCandidates, LookupFails
  <2>10. ASSUME NEW w \in Workers, Recover(w) PROVE ExclusiveClaims'
    BY <2>10 DEF Recover, OneCandidate, SeveralCandidates, LookupFails, NothingRecovered
  <2>11. ASSUME NEW w \in Workers, CreateAnswered(w) PROVE ExclusiveClaims'
    BY <2>11 DEF CreateAnswered
  <2>12. ASSUME NEW w \in Workers, CreateLost(w) PROVE ExclusiveClaims'
    BY <2>12 DEF CreateLost
  <2>13. ASSUME NEW w \in Workers, ConnectorRaises(w) \/ ConnectorMissing(w)
     PROVE ExclusiveClaims'
    BY <2>13 DEF ConnectorRaises, ConnectorMissing
  <2>14. ASSUME NEW w \in Workers, NEW s \in Refusals, CreateRefused(w, s)
     PROVE ExclusiveClaims'
    BY <2>14 DEF CreateRefused
  <2>15. ASSUME NEW w \in Workers, RecordAcceptance(w) PROVE ExclusiveClaims'
    BY <2>15 DEF RecordAcceptance
  <2>16. ASSUME NEW w \in Workers, BeginVerifying(w) PROVE ExclusiveClaims'
    BY <2>16 DEF BeginVerifying
  <2>17. ASSUME NEW w \in Workers, ReadBack(w) PROVE ExclusiveClaims'
    BY <2>17 DEF ReadBack
  <2>18. ASSUME NEW w \in Workers, RecordMismatch(w) PROVE ExclusiveClaims'
    BY <2>18 DEF RecordMismatch
  <2>19. ASSUME NEW w \in Workers, Complete(w) PROVE ExclusiveClaims'
    BY <2>19 DEF Complete
  <2>20. ASSUME NEW w \in Workers, Finish(w) PROVE ExclusiveClaims'
    BY <2>20 DEF Finish
  <2>21. ASSUME NEW w \in Workers, Restart(w) PROVE ExclusiveClaims'
    BY <2>21 DEF Restart
  <2>22. ASSUME NEW w \in Workers, Crash(w) PROVE ExclusiveClaims'
    BY <2>22 DEF Crash
  <2>23. ASSUME NEW w \in Workers, StatementFails(w) PROVE ExclusiveClaims'
    BY <2>23 DEF StatementFails
  <2>24. ASSUME NEW r \in References, LateEffect(r) PROVE ExclusiveClaims'
    BY <2>24 DEF LateEffect
  <2>25. CASE ToggleReady \/ ToggleWrites
    BY <2>25 DEF ToggleReady, ToggleWrites
  <2>26. CASE UNCHANGED vars
    BY <2>26 DEF vars
  <2>. QED
    BY <2>1, <2>2, <2>3, <2>4, <2>5, <2>6, <2>7, <2>8, <2>9, <2>10, <2>11, <2>12, <2>13,
       <2>14, <2>15, <2>16, <2>17, <2>18, <2>19, <2>20, <2>21, <2>22, <2>23, <2>24,
       <2>25, <2>26 DEF Next, WorkerStep, SchedulerStep
<1>. QED BY <1>1, <1>2, TypeInvariant, PTL DEF Spec

-----------------------------------------------------------------------------
(* What makes one document per reference inductive: nothing is in flight,  *)
(* and a worker that is about to create still sees no document.            *)
OneBillInv ==
  /\ AtMostOneBill
  /\ \A r \in References : inflight[r] = 0
  /\ \A w \in Workers : pc[w] = "create" => bills[Ref[claim[w]]] = 0

(* It is inductive under the two premises.                                 *)
LEMMA OneBillKept ==
  ASSUME PromptProvider, ReferencesSeparate
  PROVE  Spec => []OneBillInv
<1>. USE ConstantsAssumption, PromptProvider, ReferencesSeparate
<1>1. Init => OneBillInv
  BY DEF Init, OneBillInv, AtMostOneBill
<1>2. TypeInv /\ TypeInv' /\ ExclusiveClaims /\ OneBillInv /\ [Next]_vars => OneBillInv'
  <2>. SUFFICES ASSUME TypeInv, TypeInv', ExclusiveClaims, OneBillInv, [Next]_vars
     PROVE OneBillInv'
    OBVIOUS
  <2>. USE DEF OneBillInv, AtMostOneBill, ExclusiveClaims, AddBill, CreateEffect,
               PromptProvider, ReferencesSeparate, TypeInv, HoldsClaim, TypeOK, Busy,
               Connector, Recording, At, Goto, FinishAs, Die, dbVars, workerVars,
               providerVars, switchVars
  <2>1. ASSUME NEW a \in Actions, Propose(a) PROVE OneBillInv'
    BY <2>1 DEF Propose, ProposeAction
  <2>2. ASSUME NEW a \in Actions, Approve(a) PROVE OneBillInv'
    BY <2>2 DEF Approve, ApproveAction
  <2>3. ASSUME NEW a \in Actions, Cancel(a) PROVE OneBillInv'
    BY <2>3 DEF Cancel, CancelAction
  <2>4. ASSUME NEW S \in SUBSET Actions, Tick(S) PROVE OneBillInv'
    BY <2>4 DEF Tick
  <2>5. ASSUME NEW w \in Workers, NEW a \in Actions, Claim(w, a) PROVE OneBillInv'
    BY <2>5 DEF Claim
  <2>6. ASSUME NEW w \in Workers, CheckPrecondition(w) PROVE OneBillInv'
    BY <2>6 DEF CheckPrecondition
  <2>7. ASSUME NEW w \in Workers, CheckWriteBlock(w) PROVE OneBillInv'
    BY <2>7 DEF CheckWriteBlock
  <2>8. ASSUME NEW w \in Workers, BeginExecuting(w) PROVE OneBillInv'
    BY <2>8 DEF BeginExecuting
  <2>9. ASSUME NEW w \in Workers, Preflight(w) PROVE OneBillInv'
    BY <2>9 DEF Preflight, OneCandidate, SeveralCandidates, LookupFails
  <2>10. ASSUME NEW w \in Workers, Recover(w) PROVE OneBillInv'
    BY <2>10 DEF Recover, OneCandidate, SeveralCandidates, LookupFails, NothingRecovered
  <2>11. ASSUME NEW w \in Workers, CreateAnswered(w) PROVE OneBillInv'
    BY <2>11 DEF CreateAnswered
  <2>12. ASSUME NEW w \in Workers, CreateLost(w) PROVE OneBillInv'
    BY <2>12 DEF CreateLost
  <2>13. ASSUME NEW w \in Workers, ConnectorRaises(w) \/ ConnectorMissing(w)
     PROVE OneBillInv'
    BY <2>13 DEF ConnectorRaises, ConnectorMissing
  <2>14. ASSUME NEW w \in Workers, NEW s \in Refusals, CreateRefused(w, s) PROVE OneBillInv'
    BY <2>14 DEF CreateRefused
  <2>15. ASSUME NEW w \in Workers, RecordAcceptance(w) PROVE OneBillInv'
    BY <2>15 DEF RecordAcceptance
  <2>16. ASSUME NEW w \in Workers, BeginVerifying(w) PROVE OneBillInv'
    BY <2>16 DEF BeginVerifying
  <2>17. ASSUME NEW w \in Workers, ReadBack(w) PROVE OneBillInv'
    BY <2>17 DEF ReadBack
  <2>18. ASSUME NEW w \in Workers, RecordMismatch(w) PROVE OneBillInv'
    BY <2>18 DEF RecordMismatch
  <2>19. ASSUME NEW w \in Workers, Complete(w) PROVE OneBillInv'
    BY <2>19 DEF Complete
  <2>20. ASSUME NEW w \in Workers, Finish(w) PROVE OneBillInv'
    <3>1. bills' = bills /\ inflight' = inflight
      BY <2>20 DEF Finish
    <3>2. pc' = [pc EXCEPT ![w] = pc'[w]] /\ pc'[w] # "create"
      BY <2>20 DEF Finish
    <3>3. claim' = [claim EXCEPT ![w] = claim'[w]]
      BY <2>20 DEF Finish
    <3>4. \A v \in Workers : pc'[v] = "create" => pc[v] = "create" /\ claim'[v] = claim[v]
      BY <3>2, <3>3
    <3>. QED BY <3>1, <3>4
  <2>21. ASSUME NEW w \in Workers, Restart(w) PROVE OneBillInv'
    BY <2>21 DEF Restart
  <2>22. ASSUME NEW w \in Workers, Crash(w) PROVE OneBillInv'
    BY <2>22 DEF Crash
  <2>23. ASSUME NEW w \in Workers, StatementFails(w) PROVE OneBillInv'
    BY <2>23 DEF StatementFails
  <2>24. ASSUME NEW r \in References, LateEffect(r) PROVE OneBillInv'
    BY <2>24 DEF LateEffect
  <2>25. CASE ToggleReady \/ ToggleWrites
    BY <2>25 DEF ToggleReady, ToggleWrites
  <2>26. CASE UNCHANGED vars
    BY <2>26 DEF vars
  <2>. QED
    BY <2>1, <2>2, <2>3, <2>4, <2>5, <2>6, <2>7, <2>8, <2>9, <2>10, <2>11, <2>12, <2>13,
       <2>14, <2>15, <2>16, <2>17, <2>18, <2>19, <2>20, <2>21, <2>22, <2>23, <2>24,
       <2>25, <2>26 DEF Next, WorkerStep, SchedulerStep
<1>. QED BY <1>1, <1>2, TypeInvariant, ClaimsExclusive, PTL DEF Spec

(* execute_write never leaves two documents under one reference, for any   *)
(* number of crashes and retries, provided that the provider settles a     *)
(* create before the lookup that follows it, and that two workers never    *)
(* serve two actions with one reference.                                   *)
THEOREM AtMostOneBillPerReference ==
  ASSUME PromptProvider, ReferencesSeparate
  PROVE  Spec => []AtMostOneBill
<1>1. OneBillInv => AtMostOneBill
  BY DEF OneBillInv
<1>. QED BY <1>1, OneBillKept, PTL

-----------------------------------------------------------------------------
(* An action that is past its proposal, or has a job, was approved.        *)
ApprovalState(a) ==
  /\ status[a] \in {"NONE", "AWAITING_APPROVAL"} => ~approved[a]
  /\ status[a] \notin {"NONE", "AWAITING_APPROVAL", "CANCELLED"} => approved[a]
  /\ job[a] # "NONE" => approved[a]
RowInv ==
  /\ JobsAgree
  /\ \A w \in Workers : RowInStep(w)
  /\ \A a \in Actions : ApprovalState(a)

(* The row of the action agrees with the row of its job and with the       *)
(* position of the worker that runs it.                                    *)
LEMMA RowsAgree == Spec => []RowInv
<1>. USE ConstantsAssumption
<1>1. Init => RowInv
  BY DEF Init, RowInv, JobsAgree, JobAgrees, RowInStep, ApprovalState, Running, Busy,
     Connector, Recording
<1>2. TypeInv /\ TypeInv' /\ ExclusiveClaims /\ RowInv /\ [Next]_vars => RowInv'
  <2>. SUFFICES ASSUME TypeInv, TypeInv', ExclusiveClaims, RowInv, [Next]_vars PROVE RowInv'
    OBVIOUS
  <2>. USE DEF RowInv, JobsAgree, JobAgrees, Running, RowInStep, ApprovalState,
               ExclusiveClaims, Results, JobStatus, TypeInv, HoldsClaim, TypeOK, Busy,
               Connector, Recording, At, Goto, FinishAs, Die, dbVars, workerVars,
               providerVars, switchVars
  <2>1. ASSUME NEW a \in Actions, Propose(a) PROVE RowInv'
    BY <2>1 DEF Propose, ProposeAction
  <2>2. ASSUME NEW a \in Actions, Approve(a) PROVE RowInv'
    BY <2>2 DEF Approve, ApproveAction
  <2>3. ASSUME NEW a \in Actions, Cancel(a) PROVE RowInv'
    BY <2>3 DEF Cancel, CancelAction
  <2>4. ASSUME NEW S \in SUBSET Actions, Tick(S) PROVE RowInv'
    BY <2>4 DEF Tick
  <2>5. ASSUME NEW w \in Workers, NEW a \in Actions, Claim(w, a) PROVE RowInv'
    BY <2>5 DEF Claim
  <2>6. ASSUME NEW w \in Workers, CheckPrecondition(w) PROVE RowInv'
    BY <2>6 DEF CheckPrecondition
  <2>7. ASSUME NEW w \in Workers, CheckWriteBlock(w) PROVE RowInv'
    BY <2>7 DEF CheckWriteBlock
  <2>8. ASSUME NEW w \in Workers, BeginExecuting(w) PROVE RowInv'
    BY <2>8 DEF BeginExecuting, Allowed, Successors
  <2>9. ASSUME NEW w \in Workers, Preflight(w) PROVE RowInv'
    BY <2>9, StatusFacts DEF Preflight, OneCandidate, SeveralCandidates, LookupFails
  <2>10. ASSUME NEW w \in Workers, Recover(w) PROVE RowInv'
    BY <2>10, StatusFacts DEF Recover, OneCandidate, SeveralCandidates, LookupFails,
       NothingRecovered
  <2>11. ASSUME NEW w \in Workers, CreateAnswered(w) PROVE RowInv'
    BY <2>11, StatusFacts DEF CreateAnswered
  <2>12. ASSUME NEW w \in Workers, CreateLost(w) PROVE RowInv'
    BY <2>12 DEF CreateLost
  <2>13. ASSUME NEW w \in Workers, ConnectorRaises(w) \/ ConnectorMissing(w) PROVE RowInv'
    BY <2>13 DEF ConnectorRaises, ConnectorMissing
  <2>14. ASSUME NEW w \in Workers, NEW s \in Refusals, CreateRefused(w, s) PROVE RowInv'
    BY <2>14, StatusFacts DEF CreateRefused
  <2>15. ASSUME NEW w \in Workers, RecordAcceptance(w) PROVE RowInv'
    BY <2>15 DEF RecordAcceptance
  <2>16. ASSUME NEW w \in Workers, BeginVerifying(w) PROVE RowInv'
    BY <2>16 DEF BeginVerifying
  <2>17. ASSUME NEW w \in Workers, ReadBack(w) PROVE RowInv'
    BY <2>17 DEF ReadBack
  <2>18. ASSUME NEW w \in Workers, RecordMismatch(w) PROVE RowInv'
    BY <2>18 DEF RecordMismatch
  <2>19. ASSUME NEW w \in Workers, Complete(w) PROVE RowInv'
    BY <2>19 DEF Complete
  <2>20. ASSUME NEW w \in Workers, Finish(w) PROVE RowInv'
    <3>. DEFINE a == claim[w]
    <3>1. /\ a \in Actions /\ pc[w] = "finish" /\ result[w] \in Results
          /\ approved' = approved /\ result' = result
      BY <2>20 DEF Finish
    <3>2. CASE Storable(w)
      <4>1. \A b \in Actions : status'[b] = IF b = a THEN Stored(w) ELSE status[b]
        BY <2>20, <3>1, <3>2 DEF Finish
      <4>2. \A b \in Actions : job'[b] = IF b = a THEN Stored(w) ELSE job[b]
        BY <2>20, <3>1, <3>2 DEF Finish
      <4>3. \A v \in Workers : pc'[v] = IF v = w THEN "idle" ELSE pc[v]
        BY <2>20, <3>2 DEF Finish
      <4>4. \A v \in Workers : v # w => claim'[v] = claim[v]
        BY <2>20, <3>2 DEF Finish
      <4>5. Stored(w) \in Results \cup {"DEAD_LETTER"}
        BY <3>1 DEF Stored
      <4>6. \A b \in Actions : JobAgrees(b)'
        BY <4>1, <4>2, <4>5
      <4>7. approved[a]
        <5>1. job[a] = "CLAIMED" /\ ApprovalState(a)
          BY <3>1
        <5>. QED BY <5>1
      <4>8. \A b \in Actions : ApprovalState(b)'
        BY <3>1, <4>1, <4>2, <4>5, <4>7
      <4>9. ASSUME NEW v \in Workers PROVE RowInStep(v)'
        <5>1. CASE v = w
          BY <4>3, <5>1
        <5>2. CASE v # w /\ pc[v] \in Busy
          <6>1. claim[v] \in Actions \ {a}
            BY <3>1, <5>2
          <6>2. status'[claim[v]] = status[claim[v]] /\ claim'[v] = claim[v] /\ pc'[v] = pc[v]
            BY <4>1, <4>3, <4>4, <5>2, <6>1
          <6>. QED BY <3>1, <6>2
        <5>3. CASE v # w /\ pc[v] \notin Busy
          BY <4>3, <5>3
        <5>. QED BY <5>1, <5>2, <5>3
      <4>. QED BY <4>6, <4>8, <4>9
    <3>3. CASE ~Storable(w)
      BY <2>20, <3>3 DEF Finish
    <3>. QED BY <3>2, <3>3
  <2>21. ASSUME NEW w \in Workers, Restart(w) PROVE RowInv'
    BY <2>21 DEF Restart
  <2>22. ASSUME NEW w \in Workers, Crash(w) PROVE RowInv'
    BY <2>22 DEF Crash
  <2>23. ASSUME NEW w \in Workers, StatementFails(w) PROVE RowInv'
    BY <2>23 DEF StatementFails
  <2>24. ASSUME NEW r \in References, LateEffect(r) PROVE RowInv'
    BY <2>24 DEF LateEffect
  <2>25. CASE ToggleReady \/ ToggleWrites
    BY <2>25 DEF ToggleReady, ToggleWrites
  <2>26. CASE UNCHANGED vars
    BY <2>26 DEF vars
  <2>. QED
    BY <2>1, <2>2, <2>3, <2>4, <2>5, <2>6, <2>7, <2>8, <2>9, <2>10, <2>11, <2>12, <2>13,
       <2>14, <2>15, <2>16, <2>17, <2>18, <2>19, <2>20, <2>21, <2>22, <2>23, <2>24,
       <2>25, <2>26 DEF Next, WorkerStep, SchedulerStep
<1>. QED BY <1>1, <1>2, TypeInvariant, ClaimsExclusive, PTL DEF Spec

-----------------------------------------------------------------------------
(* Claiming opens exactly one attempt and finishing closes it, so the      *)
(* finished attempts of an action are always an initial run of numbers;    *)
(* a job that can still be claimed or released has an attempt left.        *)
AttemptState(a) ==
  /\ attempts[a] <= MaxAttempts
  /\ finished[a] = IF job[a] = "CLAIMED" THEN 1..(attempts[a] - 1) ELSE 1..attempts[a]
  /\ job[a] = "NONE" => attempts[a] = 0
  /\ job[a] \in {"QUEUED", "RETRY_SCHEDULED"} => attempts[a] < MaxAttempts
  /\ job[a] \notin {"NONE", "QUEUED", "CANCELLED"} => attempts[a] > 0
  /\ a \in dead <=> job[a] = "DEAD_LETTER"
  /\ a \in dead => attempts[a] = MaxAttempts
AttemptInv == \A a \in Actions : AttemptState(a)

(* Closing the open attempt completes the run of finished ones.            *)
LEMMA CloseAttempt == \A n \in Nat : n > 0 => (1..(n - 1)) \cup {n} = 1..n
OBVIOUS

(* The attempt that a busy worker holds is the one that is still open.     *)
LEMMA LastAttempt ==
  ASSUME TypeInv, ExclusiveClaims, AttemptInv, NEW w \in Workers, pc[w] \in Busy
  PROVE  /\ claim[w] \in Actions
         /\ attempts[claim[w]] \in Nat \ {0}
         /\ finished[claim[w]] \cup {attempts[claim[w]]} = 1..attempts[claim[w]]
<1>. DEFINE a == claim[w]
<1>1. a \in Actions
  BY DEF TypeInv, HoldsClaim
<1>2. job[a] = "CLAIMED"
  BY <1>1, ConstantsAssumption DEF ExclusiveClaims
<1>3. AttemptState(a)
  BY <1>1 DEF AttemptInv
<1>4. attempts[a] \in Nat \ {0}
  BY <1>1, <1>2, <1>3 DEF AttemptState, TypeInv, TypeOK
<1>5. finished[a] = 1..(attempts[a] - 1)
  BY <1>2, <1>3 DEF AttemptState
<1>. QED BY <1>1, <1>4, <1>5, CloseAttempt

(* The attempt counter of a job, its automation_attempts rows and its dead *)
(* letter agree in every reachable state.                                  *)
LEMMA AttemptsKept == Spec => []AttemptInv
<1>. USE ConstantsAssumption
<1>1. Init => AttemptInv
  BY DEF Init, AttemptInv, AttemptState
<1>2. TypeInv /\ TypeInv' /\ ExclusiveClaims /\ RowInv /\ AttemptInv /\ [Next]_vars => AttemptInv'
  <2>. SUFFICES ASSUME TypeInv, TypeInv', ExclusiveClaims, RowInv, AttemptInv,
     [Next]_vars PROVE AttemptInv'
    OBVIOUS
  <2>. USE DEF AttemptInv, AttemptState, ExclusiveClaims, JobStatus, Results, TypeInv,
               HoldsClaim, TypeOK, Busy, Connector, Recording, At, Goto, FinishAs, Die,
               dbVars, workerVars, providerVars, switchVars
  <2>1. ASSUME NEW a \in Actions, Propose(a) PROVE AttemptInv'
    BY <2>1 DEF Propose, ProposeAction
  <2>2. ASSUME NEW a \in Actions, Approve(a) PROVE AttemptInv'
    BY <2>2 DEF Approve, ApproveAction, RowInv, JobsAgree, JobAgrees, ApprovalState
  <2>3. ASSUME NEW a \in Actions, Cancel(a) PROVE AttemptInv'
    BY <2>3 DEF Cancel, CancelAction
  <2>4. ASSUME NEW S \in SUBSET Actions, Tick(S) PROVE AttemptInv'
    BY <2>4 DEF Tick
  <2>5. ASSUME NEW w \in Workers, NEW a \in Actions, Claim(w, a) PROVE AttemptInv'
    <3>1. job[a] = "QUEUED" /\ attempts[a] \in Nat
      BY <2>5 DEF Claim
    <3>2. AttemptState(a)
      OBVIOUS
    <3>3. /\ attempts[a] + 1 <= MaxAttempts /\ attempts[a] + 1 > 0
          /\ finished[a] = 1..((attempts[a] + 1) - 1)
          /\ a \notin dead
      BY <3>1, <3>2
    <3>4. \A b \in Actions : job'[b] = IF b = a THEN "CLAIMED" ELSE job[b]
      BY <2>5 DEF Claim
    <3>5. \A b \in Actions : attempts'[b] = IF b = a THEN attempts[a] + 1 ELSE attempts[b]
      BY <2>5 DEF Claim
    <3>6. finished' = finished /\ dead' = dead
      BY <2>5 DEF Claim
    <3>7. AttemptState(a)'
      BY <3>3, <3>4, <3>5, <3>6
    <3>8. ASSUME NEW b \in Actions, b # a PROVE AttemptState(b)'
      BY <3>4, <3>5, <3>6, <3>8
    <3>. QED BY <3>7, <3>8
  <2>6. ASSUME NEW w \in Workers, CheckPrecondition(w) PROVE AttemptInv'
    BY <2>6 DEF CheckPrecondition
  <2>7. ASSUME NEW w \in Workers, CheckWriteBlock(w) PROVE AttemptInv'
    BY <2>7 DEF CheckWriteBlock
  <2>8. ASSUME NEW w \in Workers, BeginExecuting(w) PROVE AttemptInv'
    BY <2>8 DEF BeginExecuting
  <2>9. ASSUME NEW w \in Workers, Preflight(w) PROVE AttemptInv'
    BY <2>9, StatusFacts DEF Preflight, OneCandidate, SeveralCandidates, LookupFails
  <2>10. ASSUME NEW w \in Workers, Recover(w) PROVE AttemptInv'
    BY <2>10, StatusFacts DEF Recover, OneCandidate, SeveralCandidates, LookupFails,
       NothingRecovered
  <2>11. ASSUME NEW w \in Workers, CreateAnswered(w) PROVE AttemptInv'
    BY <2>11, StatusFacts DEF CreateAnswered
  <2>12. ASSUME NEW w \in Workers, CreateLost(w) PROVE AttemptInv'
    BY <2>12 DEF CreateLost
  <2>13. ASSUME NEW w \in Workers, ConnectorRaises(w) \/ ConnectorMissing(w)
     PROVE AttemptInv'
    BY <2>13 DEF ConnectorRaises, ConnectorMissing
  <2>14. ASSUME NEW w \in Workers, NEW s \in Refusals, CreateRefused(w, s) PROVE AttemptInv'
    BY <2>14, StatusFacts DEF CreateRefused
  <2>15. ASSUME NEW w \in Workers, RecordAcceptance(w) PROVE AttemptInv'
    BY <2>15 DEF RecordAcceptance
  <2>16. ASSUME NEW w \in Workers, BeginVerifying(w) PROVE AttemptInv'
    BY <2>16 DEF BeginVerifying
  <2>17. ASSUME NEW w \in Workers, ReadBack(w) PROVE AttemptInv'
    BY <2>17 DEF ReadBack
  <2>18. ASSUME NEW w \in Workers, RecordMismatch(w) PROVE AttemptInv'
    BY <2>18 DEF RecordMismatch
  <2>19. ASSUME NEW w \in Workers, Complete(w) PROVE AttemptInv'
    <3>. DEFINE a == claim[w]
    <3>1. /\ a \in Actions
          /\ attempts[a] \in Nat \ {0}
          /\ finished[a] \cup {attempts[a]} = 1..attempts[a]
      BY <2>19, LastAttempt DEF Complete
    <3>3. \A b \in Actions : finished'[b] = IF b = a THEN 1..attempts[a] ELSE finished[b]
      <4>1. finished' = [finished EXCEPT ![a] = 1..attempts[a]]
        BY <2>19, <3>1 DEF Complete
      <4>2. finished \in [Actions -> SUBSET Nat]
        BY DEF TypeInv, TypeOK
      <4>. QED BY <3>1, <4>1, <4>2
    <3>4. \A b \in Actions : job'[b] = IF b = a THEN "SUCCEEDED" ELSE job[b]
      BY <2>19, <3>1 DEF Complete
    <3>5. attempts' = attempts /\ dead' = dead
      BY <2>19 DEF Complete
    <3>. QED BY <3>1, <3>3, <3>4, <3>5
  <2>20. ASSUME NEW w \in Workers, Finish(w) PROVE AttemptInv'
    <3>. DEFINE a == claim[w]
    <3>1. /\ a \in Actions
          /\ attempts[a] \in Nat \ {0}
          /\ finished[a] \cup {attempts[a]} = 1..attempts[a]
      BY <2>20, LastAttempt DEF Finish
    <3>3. CASE Storable(w)
      <4>1. \A b \in Actions : finished'[b] = IF b = a THEN 1..attempts[a] ELSE finished[b]
        <5>1. finished' = [finished EXCEPT ![a] = 1..attempts[a]]
          BY <2>20, <3>3, <3>1 DEF Finish
        <5>2. finished \in [Actions -> SUBSET Nat]
          BY DEF TypeInv, TypeOK
        <5>. QED BY <3>1, <5>1, <5>2
      <4>2. \A b \in Actions : job'[b] = IF b = a THEN Stored(w) ELSE job[b]
        BY <2>20, <3>1, <3>3 DEF Finish
      <4>3. dead' = IF Exhausted(w) THEN dead \cup {a} ELSE dead
        BY <2>20, <3>3 DEF Finish
      <4>4. attempts' = attempts /\ result[w] \in Results
        BY <2>20 DEF Finish
      <4>. QED BY <3>1, <4>1, <4>2, <4>3, <4>4 DEF Stored, Exhausted
    <3>4. CASE ~Storable(w)
      BY <2>20, <3>4 DEF Finish
    <3>. QED BY <3>3, <3>4
  <2>21. ASSUME NEW w \in Workers, Restart(w) PROVE AttemptInv'
    BY <2>21 DEF Restart
  <2>22. ASSUME NEW w \in Workers, Crash(w) PROVE AttemptInv'
    BY <2>22 DEF Crash
  <2>23. ASSUME NEW w \in Workers, StatementFails(w) PROVE AttemptInv'
    BY <2>23 DEF StatementFails
  <2>24. ASSUME NEW r \in References, LateEffect(r) PROVE AttemptInv'
    BY <2>24 DEF LateEffect
  <2>25. CASE ToggleReady \/ ToggleWrites
    BY <2>25 DEF ToggleReady, ToggleWrites
  <2>26. CASE UNCHANGED vars
    BY <2>26 DEF vars
  <2>. QED
    BY <2>1, <2>2, <2>3, <2>4, <2>5, <2>6, <2>7, <2>8, <2>9, <2>10, <2>11, <2>12, <2>13,
       <2>14, <2>15, <2>16, <2>17, <2>18, <2>19, <2>20, <2>21, <2>22, <2>23, <2>24,
       <2>25, <2>26 DEF Next, WorkerStep, SchedulerStep
<1>. QED BY <1>1, <1>2, TypeInvariant, ClaimsExclusive, RowsAgree, PTL DEF Spec

-----------------------------------------------------------------------------
(* A document that a worker records, verifies or announces exists, and a   *)
(* matching verification precedes every success.                           *)
DocumentInv ==
  /\ \A w \in Workers : DocumentInStep(w)
  /\ \A a \in Actions : status[a] = "SUCCEEDED" =>
                          bills[Ref[a]] > 0 /\ "MATCHED" \in verdicts[a]

(* No worker gets past the create without a document in the books.         *)
LEMMA DocumentsExist == Spec => []DocumentInv
<1>. USE ConstantsAssumption
<1>1. Init => DocumentInv
  BY DEF Init, DocumentInv, DocumentInStep, Recording
<1>2. TypeInv /\ TypeInv' /\ ExclusiveClaims /\ DocumentInv /\ [Next]_vars => DocumentInv'
  <2>. SUFFICES ASSUME TypeInv, TypeInv', ExclusiveClaims, DocumentInv, [Next]_vars
     PROVE DocumentInv'
    OBVIOUS
  <2>. USE DEF DocumentInv, DocumentInStep, Results, AddBill, CreateEffect, TypeInv,
               HoldsClaim, TypeOK, Busy, Connector, Recording, At, Goto, FinishAs, Die,
               dbVars, workerVars, providerVars, switchVars
  <2>1. ASSUME NEW a \in Actions, Propose(a) PROVE DocumentInv'
    BY <2>1 DEF Propose, ProposeAction
  <2>2. ASSUME NEW a \in Actions, Approve(a) PROVE DocumentInv'
    BY <2>2 DEF Approve, ApproveAction
  <2>3. ASSUME NEW a \in Actions, Cancel(a) PROVE DocumentInv'
    BY <2>3 DEF Cancel, CancelAction
  <2>4. ASSUME NEW S \in SUBSET Actions, Tick(S) PROVE DocumentInv'
    BY <2>4 DEF Tick
  <2>5. ASSUME NEW w \in Workers, NEW a \in Actions, Claim(w, a) PROVE DocumentInv'
    BY <2>5 DEF Claim
  <2>6. ASSUME NEW w \in Workers, CheckPrecondition(w) PROVE DocumentInv'
    BY <2>6 DEF CheckPrecondition
  <2>7. ASSUME NEW w \in Workers, CheckWriteBlock(w) PROVE DocumentInv'
    BY <2>7 DEF CheckWriteBlock
  <2>8. ASSUME NEW w \in Workers, BeginExecuting(w) PROVE DocumentInv'
    BY <2>8 DEF BeginExecuting
  <2>9. ASSUME NEW w \in Workers, Preflight(w) PROVE DocumentInv'
    BY <2>9, StatusFacts DEF Preflight, OneCandidate, SeveralCandidates, LookupFails
  <2>10. ASSUME NEW w \in Workers, Recover(w) PROVE DocumentInv'
    BY <2>10, StatusFacts DEF Recover, OneCandidate, SeveralCandidates, LookupFails,
       NothingRecovered
  <2>11. ASSUME NEW w \in Workers, CreateAnswered(w) PROVE DocumentInv'
    BY <2>11, StatusFacts DEF CreateAnswered
  <2>12. ASSUME NEW w \in Workers, CreateLost(w) PROVE DocumentInv'
    BY <2>12 DEF CreateLost
  <2>13. ASSUME NEW w \in Workers, ConnectorRaises(w) \/ ConnectorMissing(w)
     PROVE DocumentInv'
    BY <2>13 DEF ConnectorRaises, ConnectorMissing
  <2>14. ASSUME NEW w \in Workers, NEW s \in Refusals, CreateRefused(w, s)
     PROVE DocumentInv'
    BY <2>14, StatusFacts DEF CreateRefused
  <2>15. ASSUME NEW w \in Workers, RecordAcceptance(w) PROVE DocumentInv'
    BY <2>15 DEF RecordAcceptance
  <2>16. ASSUME NEW w \in Workers, BeginVerifying(w) PROVE DocumentInv'
    BY <2>16 DEF BeginVerifying
  <2>17. ASSUME NEW w \in Workers, ReadBack(w) PROVE DocumentInv'
    BY <2>17 DEF ReadBack
  <2>18. ASSUME NEW w \in Workers, RecordMismatch(w) PROVE DocumentInv'
    BY <2>18 DEF RecordMismatch
  <2>19. ASSUME NEW w \in Workers, Complete(w) PROVE DocumentInv'
    BY <2>19 DEF Complete
  <2>20. ASSUME NEW w \in Workers, Finish(w) PROVE DocumentInv'
    BY <2>20, StatusFacts DEF Finish, Stored
  <2>21. ASSUME NEW w \in Workers, Restart(w) PROVE DocumentInv'
    BY <2>21 DEF Restart
  <2>22. ASSUME NEW w \in Workers, Crash(w) PROVE DocumentInv'
    BY <2>22 DEF Crash
  <2>23. ASSUME NEW w \in Workers, StatementFails(w) PROVE DocumentInv'
    BY <2>23 DEF StatementFails
  <2>24. ASSUME NEW r \in References, LateEffect(r) PROVE DocumentInv'
    BY <2>24 DEF LateEffect
  <2>25. CASE ToggleReady \/ ToggleWrites
    BY <2>25 DEF ToggleReady, ToggleWrites
  <2>26. CASE UNCHANGED vars
    BY <2>26 DEF vars
  <2>. QED
    BY <2>1, <2>2, <2>3, <2>4, <2>5, <2>6, <2>7, <2>8, <2>9, <2>10, <2>11, <2>12, <2>13,
       <2>14, <2>15, <2>16, <2>17, <2>18, <2>19, <2>20, <2>21, <2>22, <2>23, <2>24,
       <2>25, <2>26 DEF Next, WorkerStep, SchedulerStep
<1>. QED BY <1>1, <1>2, TypeInvariant, ClaimsExclusive, PTL DEF Spec

-----------------------------------------------------------------------------
(* The invariants that the model-checking runs check, for every instance.  *)

(* The row of an action and the row of its job stay in step (engine.py,    *)
(* scheduler.py and worker.py each write both).                            *)
THEOREM JobsStayInStep == Spec => []JobsAgree
<1>1. RowInv => JobsAgree
  BY DEF RowInv
<1>. QED BY <1>1, RowsAgree, PTL

(* At every commit of run_finance_action the database has the status, the  *)
(* open attempt and the document that the worker goes on to assume.        *)
THEOREM WorkersStayInStep == Spec => []WorkersInStep
<1>1. TypeInv /\ ExclusiveClaims /\ RowInv /\ AttemptInv /\ DocumentInv => WorkersInStep
  <2>. SUFFICES ASSUME TypeInv, ExclusiveClaims, RowInv, AttemptInv, DocumentInv,
                       NEW w \in Workers
                PROVE  RowInStep(w) /\ AttemptInStep(w) /\ DocumentInStep(w)
    BY DEF WorkersInStep
  <2>1. AttemptInStep(w)
    <3>. SUFFICES ASSUME pc[w] \in Busy
                  PROVE  attempts[claim[w]] > 0 /\ attempts[claim[w]] \notin finished[claim[w]]
      BY DEF AttemptInStep
    <3>. DEFINE a == claim[w]
    <3>1. a \in Actions /\ attempts[a] \in Nat \ {0}
      BY LastAttempt
    <3>2. job[a] = "CLAIMED"
      BY <3>1, ConstantsAssumption DEF ExclusiveClaims
    <3>3. finished[a] = 1..(attempts[a] - 1)
      BY <3>1, <3>2 DEF AttemptInv, AttemptState
    <3>. QED BY <3>1, <3>3
  <2>. QED BY <2>1 DEF RowInv, DocumentInv
<1>. QED BY <1>1, TypeInvariant, ClaimsExclusive, RowsAgree, AttemptsKept, DocumentsExist,
   PTL

(* Attempts are numbered without gaps up to MAX_ATTEMPTS and at most the   *)
(* last one is open (automation_attempts, _complete_attempt).              *)
THEOREM AttemptsAreAccounted == Spec => []AttemptsAccounted
<1>1. TypeInv /\ AttemptInv => AttemptsAccounted
  <2>. SUFFICES ASSUME TypeInv, AttemptInv, NEW a \in Actions
                PROVE  /\ attempts[a] <= MaxAttempts
                       /\ finished[a] \subseteq 1..attempts[a]
                       /\ \A n \in 1..attempts[a] : n < attempts[a] => n \in finished[a]
    BY DEF AttemptsAccounted
  <2>1. AttemptState(a) /\ attempts[a] \in Nat
    BY DEF AttemptInv, TypeInv, TypeOK
  <2>2. finished[a] \in {1..(attempts[a] - 1), 1..attempts[a]}
    BY <2>1 DEF AttemptState
  <2>. QED BY <2>1, <2>2 DEF AttemptState
<1>. QED BY <1>1, TypeInvariant, AttemptsKept, PTL

(* _finish writes a dead letter exactly when it stores DEAD_LETTER, which  *)
(* it does only for the last permitted attempt.                            *)
THEOREM DeadLettersAreExact == Spec => []DeadLettersExact
<1>1. RowInv /\ AttemptInv => DeadLettersExact
  BY DEF RowInv, JobsAgree, JobAgrees, Running, AttemptInv, AttemptState,
     DeadLettersExact
<1>. QED BY <1>1, RowsAgree, AttemptsKept, PTL

(* run_finance_action announces SUCCEEDED only for a document that is in   *)
(* the provider's books and was read back and matched.                     *)
THEOREM SuccessIsAlwaysReal == Spec => []SuccessIsReal
<1>1. TypeInv /\ RowInv /\ AttemptInv /\ DocumentInv => SuccessIsReal
  <2>. SUFFICES ASSUME TypeInv, RowInv, AttemptInv, DocumentInv,
                       NEW a \in Actions, status[a] = "SUCCEEDED"
                PROVE  job[a] = "SUCCEEDED" /\ attempts[a] \in finished[a]
    BY DEF SuccessIsReal, DocumentInv
  <2>1. job[a] = "SUCCEEDED"
    BY DEF RowInv, JobsAgree, JobAgrees, Running
  <2>2. attempts[a] \in Nat /\ attempts[a] > 0 /\ finished[a] = 1..attempts[a]
    BY <2>1 DEF AttemptInv, AttemptState, TypeInv, TypeOK
  <2>. QED BY <2>1, <2>2
<1>. QED BY <1>1, TypeInvariant, RowsAgree, AttemptsKept, DocumentsExist, PTL

-----------------------------------------------------------------------------
(* With a prompt provider nothing is ever in flight, so a document appears *)
(* only in the step of a worker that waits for its create.                 *)
NothingInFlight == \A r \in References : inflight[r] = 0

(* No create stays undecided when the provider is prompt.                  *)
LEMMA CreatesAreDecided == ASSUME PromptProvider PROVE Spec => []NothingInFlight
<1>. USE ConstantsAssumption, PromptProvider DEF PromptProvider
<1>1. Init => NothingInFlight
  BY DEF Init, NothingInFlight
<1>2. NothingInFlight /\ [Next]_vars => NothingInFlight'
  <2>. SUFFICES ASSUME NothingInFlight, [Next]_vars PROVE NothingInFlight'
    OBVIOUS
  <2>. USE DEF NothingInFlight, AddBill, CreateEffect, providerVars
  <2>1. ASSUME NEW a \in Actions, Propose(a) \/ Approve(a) \/ Cancel(a)
     PROVE NothingInFlight'
    BY <2>1 DEF Propose, ProposeAction, Approve, ApproveAction, Cancel, CancelAction
  <2>2. ASSUME NEW S \in SUBSET Actions, Tick(S) PROVE NothingInFlight'
    BY <2>2 DEF Tick
  <2>3. ASSUME NEW w \in Workers,
              \/ \E a \in Actions : Claim(w, a)
              \/ CheckPrecondition(w) \/ CheckWriteBlock(w) \/ BeginExecuting(w)
       PROVE  NothingInFlight'
    BY <2>3 DEF Claim, CheckPrecondition, CheckWriteBlock, BeginExecuting
  <2>4. ASSUME NEW w \in Workers, Preflight(w) \/ Recover(w) PROVE NothingInFlight'
    BY <2>4 DEF Preflight, Recover
  <2>5. ASSUME NEW w \in Workers, CreateAnswered(w) PROVE NothingInFlight'
    BY <2>5 DEF CreateAnswered
  <2>6. ASSUME NEW w \in Workers, CreateLost(w) PROVE NothingInFlight'
    BY <2>6 DEF CreateLost
  <2>7. ASSUME NEW w \in Workers, Crash(w) PROVE NothingInFlight'
    BY <2>7 DEF Crash
  <2>8. ASSUME NEW w \in Workers,
              ConnectorRaises(w) \/ ConnectorMissing(w) \/ \E s \in Refusals : CreateRefused(w, s)
       PROVE  NothingInFlight'
    BY <2>8 DEF ConnectorRaises, ConnectorMissing, CreateRefused
  <2>9. ASSUME NEW w \in Workers,
              \/ RecordAcceptance(w) \/ BeginVerifying(w) \/ ReadBack(w)
              \/ RecordMismatch(w) \/ Complete(w) \/ Finish(w)
              \/ Restart(w) \/ StatementFails(w)
       PROVE  NothingInFlight'
    BY <2>9 DEF RecordAcceptance, BeginVerifying, ReadBack, RecordMismatch, Complete,
       Finish, Restart, StatementFails
  <2>10. ASSUME NEW r \in References, LateEffect(r) PROVE NothingInFlight'
    BY <2>10 DEF LateEffect, NothingInFlight
  <2>11. CASE ToggleReady \/ ToggleWrites \/ UNCHANGED vars
    BY <2>11 DEF ToggleReady, ToggleWrites, vars
  <2>. QED
    BY <2>1, <2>2, <2>3, <2>4, <2>5, <2>6, <2>7, <2>8, <2>9, <2>10, <2>11 DEF Next,
       WorkerStep, SchedulerStep
<1>. QED BY <1>1, <1>2, PTL DEF Spec

(* Any step that adds a document is a worker's whose action stands at the  *)
(* create.                                                                 *)
Creates(w) ==
  /\ pc[w] = "create"
  /\ bills' = [bills EXCEPT ![Ref[claim[w]]] = @ + 1]
  /\ UNCHANGED dbVars

(* Nothing else changes the books.                                        *)
LEMMA OnlyCreatesPost ==
  ASSUME PromptProvider, NothingInFlight, [Next]_vars
  PROVE  bills' = bills \/ \E w \in Workers : Creates(w)
<1>. USE ConstantsAssumption, PromptProvider
     DEF PromptProvider, Creates, AddBill, CreateEffect, At, providerVars
<1>1. ASSUME NEW a \in Actions, Propose(a) \/ Approve(a) \/ Cancel(a) PROVE bills' = bills
  BY <1>1 DEF Propose, ProposeAction, Approve, ApproveAction, Cancel, CancelAction
<1>2. ASSUME NEW S \in SUBSET Actions, Tick(S) PROVE bills' = bills
  BY <1>2 DEF Tick
<1>3. ASSUME NEW w \in Workers,
            \/ \E a \in Actions : Claim(w, a)
            \/ CheckPrecondition(w) \/ CheckWriteBlock(w) \/ BeginExecuting(w)
     PROVE  bills' = bills
  BY <1>3 DEF Claim, CheckPrecondition, CheckWriteBlock, BeginExecuting
<1>4. ASSUME NEW w \in Workers, Preflight(w) \/ Recover(w) PROVE bills' = bills
  BY <1>4 DEF Preflight, Recover
<1>5. ASSUME NEW w \in Workers, CreateAnswered(w)
   PROVE bills' = bills \/ \E v \in Workers : Creates(v)
  BY <1>5 DEF CreateAnswered
<1>6. ASSUME NEW w \in Workers, CreateLost(w)
   PROVE bills' = bills \/ \E v \in Workers : Creates(v)
  BY <1>6 DEF CreateLost
<1>7. ASSUME NEW w \in Workers, Crash(w)
   PROVE bills' = bills \/ \E v \in Workers : Creates(v)
  BY <1>7 DEF Crash
<1>8. ASSUME NEW w \in Workers,
            ConnectorRaises(w) \/ ConnectorMissing(w) \/ \E s \in Refusals : CreateRefused(w, s)
     PROVE  bills' = bills
  BY <1>8 DEF ConnectorRaises, ConnectorMissing, CreateRefused
<1>9. ASSUME NEW w \in Workers,
            \/ RecordAcceptance(w) \/ BeginVerifying(w) \/ ReadBack(w)
            \/ RecordMismatch(w) \/ Complete(w) \/ Finish(w)
            \/ Restart(w) \/ StatementFails(w)
     PROVE  bills' = bills
  BY <1>9 DEF RecordAcceptance, BeginVerifying, ReadBack, RecordMismatch, Complete,
     Finish, Restart, StatementFails
<1>10. ASSUME NEW r \in References, LateEffect(r) PROVE bills' = bills
  BY <1>10 DEF LateEffect, NothingInFlight
<1>11. CASE ToggleReady \/ ToggleWrites \/ UNCHANGED vars
  BY <1>11 DEF ToggleReady, ToggleWrites, vars
<1>. QED
  BY <1>1, <1>2, <1>3, <1>4, <1>5, <1>6, <1>7, <1>8, <1>9, <1>10, <1>11 DEF Next,
     WorkerStep, SchedulerStep

(* No document is created for an action that is cancelled, finished, not   *)
(* approved or no longer claimed (engine.py cancel_action against          *)
(* worker.py run_finance_action).                                          *)
THEOREM BillsOnlyWhileExecuting ==
  ASSUME PromptProvider
  PROVE  Spec => BillOnlyWhileExecuting
<1>. DEFINE Posting(r) ==
       \E a \in Actions : /\ Ref[a] = r
                          /\ status[a] = "EXECUTING"
                          /\ approved[a]
                          /\ job[a] = "CLAIMED"
                          /\ attempts[a] \notin finished[a]
<1>1. TypeInv /\ ExclusiveClaims /\ RowInv /\ WorkersInStep /\ NothingInFlight /\ [Next]_vars
        => [\A r \in References : bills'[r] > bills[r] => Posting(r)]_vars
  <2>. SUFFICES ASSUME TypeInv, ExclusiveClaims, RowInv, WorkersInStep, NothingInFlight,
                       [Next]_vars, NEW r \in References, bills'[r] > bills[r]
                PROVE  Posting(r)
    OBVIOUS
  <2>1. bills[r] \in Nat
    BY DEF TypeInv, TypeOK
  <2>2. PICK w \in Workers : Creates(w)
    BY <2>1, OnlyCreatesPost
  <2>. DEFINE a == claim[w]
  <2>3. pc[w] \in Busy /\ pc[w] \in Connector
    BY <2>2 DEF Creates, Busy, Connector
  <2>4. a \in Actions /\ job[a] = "CLAIMED"
    BY <2>3, ConstantsAssumption DEF TypeInv, HoldsClaim, ExclusiveClaims
  <2>5. status[a] = "EXECUTING" /\ attempts[a] \notin finished[a]
    BY <2>3 DEF WorkersInStep, RowInStep, AttemptInStep
  <2>6. approved[a]
    BY <2>4, <2>5 DEF RowInv, ApprovalState
  <2>7. Ref[a] = r
    BY <2>1, <2>2, <2>4, ConstantsAssumption DEF Creates, TypeInv, TypeOK
  <2>. QED BY <2>4, <2>5, <2>6, <2>7
<1>. QED BY <1>1, TypeInvariant, ClaimsExclusive, RowsAgree, WorkersStayInStep,
   CreatesAreDecided,
            PTL DEF Spec, BillOnlyWhileExecuting

-----------------------------------------------------------------------------
(* What an attempt may still send: until its create was answered or lost,  *)
(* the attempt of a worker is not yet matched by a document under its      *)
(* reference, and afterwards at most one document goes with it.            *)
OwnReference(a) == \A b \in Actions : Ref[b] = Ref[a] => b = a
Posted(a) == bills[Ref[a]] + inflight[Ref[a]]
Unsent == {"claimed", "checked", "cleared", "preflight", "create"}
AttemptsCover ==
  \A a \in Actions : OwnReference(a) =>
    /\ Posted(a) <= attempts[a]
    /\ \A w \in Workers : claim[w] = a /\ pc[w] \in Unsent => Posted(a) < attempts[a]

(* A step that adds no document and brings no worker before its create     *)
(* keeps it.                                                               *)
LEMMA QuietStepsCover ==
  ASSUME TypeInv, AttemptsCover, attempts' = attempts, UNCHANGED providerVars,
         \A w \in Workers : pc'[w] \in Unsent => pc[w] \in Unsent /\ claim'[w] = claim[w]
  PROVE  AttemptsCover'
BY DEF AttemptsCover, Posted, OwnReference, providerVars

(* A create that takes effect, at once or late, uses the attempt up.       *)
LEMMA CreatesCover ==
  ASSUME TypeInv, TypeInv', ExclusiveClaims, AttemptsCover, NEW w \in Workers,
         pc[w] = "create", CreateEffect(Ref[claim[w]]), attempts' = attempts,
         \E p \in {"accept", "finish", "recover", "down"} : pc' = [pc EXCEPT ![w] = p],
         \A v \in Workers \ {w} : claim'[v] = claim[v]
  PROVE  AttemptsCover'
<1>. USE ConstantsAssumption
<1>. DEFINE c == claim[w]
<1>1. c \in Actions /\ Ref[c] \in References
  BY DEF TypeInv, HoldsClaim, Busy, Connector
<1>2. \A v \in Workers : pc'[v] \in Unsent => v # w /\ pc[v] \in Unsent /\ claim'[v] = claim[v]
  BY DEF TypeInv, TypeOK, Unsent
<1>3. \A v \in Workers \ {w} : claim[v] # c
  BY <1>1 DEF ExclusiveClaims
<1>4. \A r \in References : bills[r] \in Nat /\ inflight[r] \in Nat
  BY DEF TypeInv, TypeOK
<1>5. \A a \in Actions : attempts[a] \in Nat /\ Ref[a] \in References
  BY DEF TypeInv, TypeOK
<1>6. \A r \in References : r # Ref[c] => bills'[r] = bills[r] /\ inflight'[r] = inflight[r]
  BY <1>1 DEF CreateEffect, AddBill, TypeInv, TypeOK
<1>7. /\ bills'[Ref[c]] \in Nat /\ inflight'[Ref[c]] \in Nat
      /\ bills'[Ref[c]] + inflight'[Ref[c]] <= bills[Ref[c]] + inflight[Ref[c]] + 1
  BY <1>1, <1>4 DEF CreateEffect, AddBill, TypeInv, TypeOK
<1>8. ASSUME NEW a \in Actions, OwnReference(a)
      PROVE  /\ Posted(a)' <= attempts[a]
             /\ \A v \in Workers : claim'[v] = a /\ pc'[v] \in Unsent => Posted(a)' < attempts[a]
  <2>1. CASE a = c
    <3>1. Posted(a) < attempts[a]
      BY <1>1, <1>8, <2>1 DEF AttemptsCover, Unsent
    <3>2. Posted(a)' <= attempts[a]
      BY <1>4, <1>5, <1>7, <2>1, <3>1 DEF Posted
    <3>. QED BY <1>2, <1>3, <2>1, <3>2
  <2>2. CASE a # c
    <3>1. Ref[a] # Ref[c]
      BY <1>1, <1>8, <2>2 DEF OwnReference
    <3>2. Posted(a)' = Posted(a)
      BY <1>5, <1>6, <3>1 DEF Posted
    <3>. QED BY <1>2, <1>8, <3>2 DEF AttemptsCover
  <2>. QED BY <2>1, <2>2
<1>. QED BY <1>8 DEF AttemptsCover, OwnReference

(* One attempt sends at most one create, whatever the provider does with   *)
(* those it reported lost: for every provider, prompt or not.              *)
THEOREM BillsWithinAttempts == Spec => []BillsBoundedByAttempts
<1>. USE ConstantsAssumption
<1>1. Init => AttemptsCover
  BY DEF Init, AttemptsCover, Posted, Unsent
<1>2. TypeInv /\ TypeInv' /\ ExclusiveClaims /\ AttemptsCover /\ [Next]_vars => AttemptsCover'
  <2>. SUFFICES ASSUME TypeInv, TypeInv', ExclusiveClaims, AttemptsCover, [Next]_vars
                PROVE  AttemptsCover'
    OBVIOUS
  <2>0. pc \in [Workers -> Busy \cup {"idle", "down"}] /\ claim \in [Workers -> Actions \cup {NoAction}]
    BY DEF TypeInv, TypeOK
  <2>. USE DEF At, Goto, FinishAs, Die, dbVars, workerVars, providerVars, switchVars
  <2>1. ASSUME NEW a \in Actions, Propose(a) \/ Approve(a) \/ Cancel(a) PROVE AttemptsCover'
    BY <2>1, QuietStepsCover DEF Propose, ProposeAction, Approve, ApproveAction, Cancel, CancelAction
  <2>2. ASSUME NEW S \in SUBSET Actions, Tick(S) PROVE AttemptsCover'
    BY <2>2, QuietStepsCover DEF Tick
  <2>3. ASSUME NEW w \in Workers, NEW a \in Actions, Claim(w, a) PROVE AttemptsCover'
    <3>1. \A v \in Workers : claim[v] # a
      BY <2>3 DEF Claim, ExclusiveClaims
    <3>2. attempts[a] \in Nat /\ attempts'[a] = attempts[a] + 1
      BY <2>3 DEF Claim, TypeInv, TypeOK
    <3>3. \A b \in Actions : b # a => attempts'[b] = attempts[b]
      BY <2>3 DEF Claim, TypeInv, TypeOK
    <3>4. \A v \in Workers : v # w => pc'[v] = pc[v] /\ claim'[v] = claim[v]
      BY <2>0, <2>3 DEF Claim
    <3>5. claim'[w] = a
      BY <2>0, <2>3 DEF Claim
    <3>6. \A b \in Actions : Posted(b)' = Posted(b) /\ Posted(b) \in Nat
      BY <2>3 DEF Claim, Posted, TypeInv, TypeOK
    <3>7. ASSUME NEW b \in Actions, OwnReference(b)
          PROVE  /\ Posted(b)' <= attempts'[b]
                 /\ \A v \in Workers : claim'[v] = b /\ pc'[v] \in Unsent => Posted(b)' < attempts'[b]
      <4>1. Posted(b) <= attempts[b]
        BY <3>7 DEF AttemptsCover
      <4>2. CASE b = a
        BY <3>2, <3>6, <4>1, <4>2
      <4>3. CASE b # a
        BY <3>3, <3>4, <3>5, <3>6, <3>7, <4>1, <4>3 DEF AttemptsCover
      <4>. QED BY <4>2, <4>3
    <3>. QED BY <3>7 DEF AttemptsCover, OwnReference
  <2>4. ASSUME NEW w \in Workers,
               \/ CheckPrecondition(w) \/ CheckWriteBlock(w) \/ BeginExecuting(w)
        PROVE  AttemptsCover'
    BY <2>0, <2>4, QuietStepsCover DEF CheckPrecondition, CheckWriteBlock, BeginExecuting, Unsent
  <2>5. ASSUME NEW w \in Workers, Preflight(w) \/ Recover(w) PROVE AttemptsCover'
    BY <2>0, <2>5, QuietStepsCover DEF Preflight, Recover, OneCandidate, SeveralCandidates,
       LookupFails, NothingRecovered, Unsent
  <2>6. ASSUME NEW w \in Workers, CreateAnswered(w) PROVE AttemptsCover'
    BY <2>0, <2>6, CreatesCover DEF CreateAnswered, CreateEffect
  <2>7. ASSUME NEW w \in Workers, CreateLost(w) PROVE AttemptsCover'
    BY <2>0, <2>7, CreatesCover DEF CreateLost
  <2>8. ASSUME NEW w \in Workers, Crash(w) PROVE AttemptsCover'
    <3>1. CASE At(w, "create")
      BY <2>0, <2>8, <3>1, CreatesCover DEF Crash
    <3>2. CASE ~At(w, "create")
      BY <2>0, <2>8, <3>2, QuietStepsCover DEF Crash, Unsent
    <3>. QED BY <3>1, <3>2
  <2>9. ASSUME NEW w \in Workers,
               ConnectorRaises(w) \/ ConnectorMissing(w) \/ \E s \in Refusals : CreateRefused(w, s)
        PROVE  AttemptsCover'
    BY <2>0, <2>9, QuietStepsCover DEF ConnectorRaises, ConnectorMissing, CreateRefused, Unsent
  <2>10. ASSUME NEW w \in Workers,
                \/ RecordAcceptance(w) \/ BeginVerifying(w) \/ ReadBack(w) \/ RecordMismatch(w)
                \/ Restart(w) \/ StatementFails(w)
         PROVE  AttemptsCover'
    BY <2>0, <2>10, QuietStepsCover DEF RecordAcceptance, BeginVerifying, ReadBack,
       RecordMismatch, Restart, StatementFails, Unsent
  <2>11. ASSUME NEW w \in Workers, Complete(w) \/ Finish(w) PROVE AttemptsCover'
    <3>1. attempts' = attempts /\ UNCHANGED providerVars
      BY <2>11 DEF Complete, Finish
    <3>2. \E p \in {"idle", "down"} : pc' = [pc EXCEPT ![w] = p]
      BY <2>11 DEF Complete, Finish
    <3>3. claim' = [claim EXCEPT ![w] = NoAction]
      BY <2>11 DEF Complete, Finish
    <3>. QED BY <2>0, <3>1, <3>2, <3>3, QuietStepsCover DEF Unsent
  <2>12. ASSUME NEW r \in References, LateEffect(r) PROVE AttemptsCover'
    <3>1. \A s \in References : /\ bills[s] \in Nat /\ inflight[s] \in Nat
                                /\ bills'[s] \in Nat /\ inflight'[s] \in Nat
                                /\ bills'[s] + inflight'[s] <= bills[s] + inflight[s]
      BY <2>12 DEF LateEffect, TypeInv, TypeOK
    <3>2. \A a \in Actions : attempts[a] \in Nat /\ Ref[a] \in References
      BY DEF TypeInv, TypeOK
    <3>3. attempts' = attempts /\ pc' = pc /\ claim' = claim
      BY <2>12 DEF LateEffect
    <3>. QED BY <3>1, <3>2, <3>3 DEF AttemptsCover, Posted, OwnReference
  <2>13. CASE ToggleReady \/ ToggleWrites \/ UNCHANGED vars
    BY <2>13, QuietStepsCover DEF ToggleReady, ToggleWrites, vars
  <2>. QED
    BY <2>1, <2>2, <2>3, <2>4, <2>5, <2>6, <2>7, <2>8, <2>9, <2>10, <2>11, <2>12, <2>13
       DEF Next, WorkerStep, SchedulerStep
<1>3. AttemptsCover => BillsBoundedByAttempts
  BY DEF AttemptsCover, BillsBoundedByAttempts, OwnReference, Posted
<1>. QED BY <1>1, <1>2, <1>3, TypeInvariant, ClaimsExclusive, PTL DEF Spec

-----------------------------------------------------------------------------
(* The refinement: what each step of the queue is for the contract.        *)
AllInv ==
  /\ TypeInv /\ ExclusiveClaims /\ RowInv /\ DocumentInv
  /\ NothingInFlight /\ OneBillInv

(* What the refinement rests on.                                           *)
LEMMA AllInvariants ==
  ASSUME PromptProvider, ReferencesSeparate
  PROVE  Spec => []AllInv
BY TypeInvariant, ClaimsExclusive, RowsAgree, DocumentsExist, CreatesAreDecided,
   OneBillKept, PTL DEF AllInv

(* A step that changes no decision, no outcome and no book is invisible.   *)
LEMMA Invisible ==
  ASSUME \A a \in Actions : Decision(a)' = Decision(a) /\ Outcome(a)' = Outcome(a),
         bills' = bills
  PROVE  UNCHANGED Contract!vars
BY DEF Contract!vars

(* So is one that moves an action between two statuses that are both open. *)
Moving == {"QUEUED", "RETRY_SCHEDULED"} \cup Running
(* Nobody outside sees such a move.                                        *)
LEMMA MovingIsInvisible ==
  ASSUME NEW c \in Actions, status[c] \in Moving, status'[c] \in Moving,
         \A a \in Actions \ {c} : status'[a] = status[a],
         approved' = approved, bills' = bills
  PROVE  UNCHANGED Contract!vars
<1>1. ASSUME NEW a \in Actions
      PROVE  Decision(a)' = Decision(a) /\ Outcome(a)' = Outcome(a)
  BY DEF Decision, Outcome, Settled, Moving, Running
<1>. QED BY <1>1, Invisible

(* The create is the contract's posting.                                   *)
LEMMA CreateIsPost ==
  ASSUME AllInv, NEW w \in Workers, Creates(w)
  PROVE  Contract!Post(claim[w])
<1>. DEFINE c == claim[w]
<1>1. c \in Actions /\ status[c] = "EXECUTING"
  BY DEF AllInv, TypeInv, HoldsClaim, Creates, RowInv, RowInStep, Busy, Connector
<1>2. approved[c]
  BY <1>1 DEF AllInv, RowInv, ApprovalState
<1>3. bills[Ref[c]] = 0 /\ Ref[c] \in References /\ bills \in [References -> Nat]
  BY <1>1, ConstantsAssumption DEF AllInv, OneBillInv, Creates, TypeInv, TypeOK
<1>4. Decision(c) = "approved" /\ Outcome(c) = "open"
  BY <1>1, <1>2 DEF Decision, Outcome, Settled
<1>5. bills' = [bills EXCEPT ![Ref[c]] = 1]
  BY <1>3 DEF Creates
<1>6. \A a \in Actions : Decision(a)' = Decision(a) /\ Outcome(a)' = Outcome(a)
  BY DEF Creates, dbVars, Decision, Outcome
<1>. QED BY <1>1, <1>3, <1>4, <1>5, <1>6 DEF Contract!Post

(* The queue refines the contract: every step that changes a decision, an  *)
(* announcement or the books is one that PostingContract allows.           *)
THEOREM QueueKeepsContract ==
  ASSUME PromptProvider, ReferencesSeparate
  PROVE  Spec => KeepsContract
<1>. USE ConstantsAssumption
<1>1. Init => Contract!Init
  BY DEF Init, Contract!Init, Decision, Outcome, Settled
<1>2. AllInv /\ [Next]_vars => [Contract!Next]_(Contract!vars)
  <2>. SUFFICES ASSUME AllInv, [Next]_vars
                PROVE  Contract!Next \/ UNCHANGED Contract!vars
    OBVIOUS
  <2>0. /\ status \in [Actions -> Status \cup {"NONE"}]
        /\ approved \in [Actions -> BOOLEAN]
        /\ \A w \in Workers : pc[w] \in Busy => claim[w] \in Actions
    BY DEF AllInv, TypeInv, TypeOK, HoldsClaim
  <2>1. ASSUME NEW a \in Actions, Propose(a) PROVE UNCHANGED Contract!vars
    <3>1. ASSUME NEW b \in Actions
          PROVE  Decision(b)' = Decision(b) /\ Outcome(b)' = Outcome(b)
      <4>1. ~approved[a]
        BY <2>1 DEF Propose, ProposeAction, AllInv, RowInv, ApprovalState
      <4>. QED BY <2>0, <2>1, <4>1 DEF Propose, ProposeAction, Decision, Outcome, Settled
    <3>. QED BY <2>1, <3>1, Invisible DEF Propose, ProposeAction, providerVars
  <2>2. ASSUME NEW a \in Actions, Approve(a) PROVE Contract!Next
    <3>1. ~approved[a]
      BY <2>2 DEF Approve, ApproveAction, AllInv, RowInv, ApprovalState
    <3>2. Decision(a) = "undecided" /\ bills' = bills
      BY <2>2, <3>1 DEF Approve, ApproveAction, Decision, providerVars
    <3>3. \A b \in Actions : /\ Decision(b)' = IF b = a THEN "approved" ELSE Decision(b)
                             /\ Outcome(b)' = Outcome(b)
      BY <2>0, <2>2 DEF Approve, ApproveAction, Decision, Outcome, Settled
    <3>. QED BY <3>2, <3>3 DEF Contract!Approve, Contract!Next
  <2>3. ASSUME NEW a \in Actions, Cancel(a) PROVE Contract!Next
    <3>1. Decision(a) # "cancelled" /\ Outcome(a) = "open" /\ bills' = bills
      BY <2>3 DEF Cancel, CancelAction, Decision, Outcome, Settled, providerVars
    <3>2. \A b \in Actions : /\ Decision(b)' = IF b = a THEN "cancelled" ELSE Decision(b)
                             /\ Outcome(b)' = Outcome(b)
      BY <2>0, <2>3 DEF Cancel, CancelAction, Decision, Outcome, Settled
    <3>. QED BY <3>1, <3>2 DEF Contract!Cancel, Contract!Next
  <2>4. ASSUME NEW S \in SUBSET Actions, Tick(S) PROVE UNCHANGED Contract!vars
    <3>1. ASSUME NEW b \in Actions
          PROVE  Decision(b)' = Decision(b) /\ Outcome(b)' = Outcome(b)
      BY <2>0, <2>4 DEF Tick, Decision, Outcome, Settled
    <3>. QED BY <2>4, <3>1, Invisible DEF Tick, providerVars
  <2>5. ASSUME NEW w \in Workers, NEW a \in Actions, Claim(w, a)
        PROVE  UNCHANGED Contract!vars
    <3>1. ASSUME NEW b \in Actions
          PROVE  Decision(b)' = Decision(b) /\ Outcome(b)' = Outcome(b)
      BY <2>0, <2>5 DEF Claim, Decision, Outcome, Settled
    <3>. QED BY <2>5, <3>1, Invisible DEF Claim, providerVars
  <2>6. ASSUME UNCHANGED dbVars
        PROVE  Contract!Next \/ UNCHANGED Contract!vars
    <3>1. CASE bills' = bills
      BY <2>6, <3>1, Invisible DEF dbVars, Decision, Outcome
    <3>2. ASSUME NEW w \in Workers, Creates(w) PROVE Contract!Next
      <4>1. claim[w] \in Actions
        BY <2>0, <3>2 DEF Creates, Busy, Connector
      <4>2. Contract!Post(claim[w])
        BY <3>2, CreateIsPost
      <4>. QED BY <4>1, <4>2 DEF Contract!Next
    <3>. QED BY <3>1, <3>2, OnlyCreatesPost DEF AllInv
  <2>7. ASSUME NEW w \in Workers,
               \/ CheckPrecondition(w) \/ CheckWriteBlock(w) \/ Preflight(w) \/ Recover(w)
               \/ CreateAnswered(w) \/ CreateLost(w) \/ ConnectorRaises(w) \/ ConnectorMissing(w)
               \/ \E s \in Refusals : CreateRefused(w, s)
               \/ ReadBack(w) \/ Restart(w) \/ Crash(w) \/ StatementFails(w)
        PROVE  UNCHANGED dbVars
    BY <2>7 DEF CheckPrecondition, CheckWriteBlock, Preflight, Recover, CreateAnswered,
       CreateLost, ConnectorRaises, ConnectorMissing, CreateRefused, ReadBack, Restart,
       Crash, StatementFails
  <2>8. ASSUME NEW w \in Workers, BeginExecuting(w) PROVE UNCHANGED Contract!vars
    <3>1. CASE Allowed(status[claim[w]], "EXECUTING")
      <4>1. claim[w] \in Actions /\ status[claim[w]] = "CLAIMED"
        BY <2>0, <2>8, <3>1 DEF BeginExecuting, At, Busy, AllInv, RowInv, RowInStep,
           Allowed, Successors
      <4>. QED BY <2>0, <2>8, <3>1, <4>1, MovingIsInvisible
               DEF BeginExecuting, Moving, Running, providerVars
    <3>2. CASE ~Allowed(status[claim[w]], "EXECUTING")
      BY <2>8, <3>2, Invisible DEF BeginExecuting, providerVars, Decision, Outcome
    <3>. QED BY <3>1, <3>2
  <2>9. ASSUME NEW w \in Workers, RecordAcceptance(w) \/ BeginVerifying(w)
        PROVE  UNCHANGED Contract!vars
    <3>1. claim[w] \in Actions /\ status[claim[w]] \in Running
      BY <2>0, <2>9 DEF RecordAcceptance, BeginVerifying, At, Busy, Recording, AllInv,
         RowInv, RowInStep, Running
    <3>. QED BY <2>0, <2>9, <3>1, MovingIsInvisible
             DEF RecordAcceptance, BeginVerifying, Moving, Running, providerVars
  <2>10. ASSUME NEW w \in Workers, RecordMismatch(w) PROVE UNCHANGED Contract!vars
    BY <2>10, Invisible DEF RecordMismatch, providerVars, Decision, Outcome
  <2>11. ASSUME NEW w \in Workers, Complete(w) PROVE Contract!Next
    <3>. DEFINE c == claim[w]
    <3>1. c \in Actions /\ status[c] = "VERIFYING" /\ approved[c]
      BY <2>0, <2>11 DEF Complete, At, Busy, Recording, AllInv, RowInv, RowInStep,
         ApprovalState
    <3>2. bills[Ref[c]] = 1
      BY <2>11, <3>1 DEF Complete, At, Recording, AllInv, DocumentInv, DocumentInStep,
         OneBillInv, AtMostOneBill, TypeInv, TypeOK
    <3>3. Decision(c) = "approved" /\ Outcome(c) = "open" /\ bills' = bills
      BY <2>11, <3>1 DEF Complete, Decision, Outcome, Settled, providerVars
    <3>4. \A b \in Actions : /\ Decision(b)' = Decision(b)
                             /\ Outcome(b)' = IF b = c THEN "verified" ELSE Outcome(b)
      BY <2>0, <2>11, <3>1 DEF Complete, Decision, Outcome
    <3>5. Contract!Verify(c)
      BY <3>1, <3>2, <3>3, <3>4 DEF Contract!Verify
    <3>. QED BY <3>1, <3>5 DEF Contract!Next
  <2>12. ASSUME NEW w \in Workers, Finish(w)
         PROVE  Contract!Next \/ UNCHANGED Contract!vars
    <3>. DEFINE c == claim[w]
    <3>1. CASE ~Storable(w)
      BY <2>12, <3>1, Invisible DEF Finish, providerVars, Decision, Outcome
    <3>2. CASE Storable(w)
      <4>1. c \in Actions /\ status[c] \in Running
        BY <2>0, <2>12, <3>2 DEF Finish, At, Busy, AllInv, RowInv, RowInStep, Running,
           Storable, Exhausted, Allowed, Successors
      <4>2. approved[c]
        BY <4>1 DEF AllInv, RowInv, ApprovalState, Running
      <4>3. Stored(w) \in Results \cup {"DEAD_LETTER"}
        BY <2>0 DEF Stored, AllInv, TypeInv, TypeOK
      <4>4. /\ status' = [status EXCEPT ![c] = Stored(w)]
            /\ approved' = approved /\ bills' = bills
        BY <2>12, <3>2 DEF Finish, providerVars
      <4>5. CASE Stored(w) = "RETRY_SCHEDULED"
        BY <2>0, <4>1, <4>4, <4>5, MovingIsInvisible DEF Moving
      <4>6. CASE Stored(w) # "RETRY_SCHEDULED"
        <5>1. Decision(c) = "approved" /\ Outcome(c) = "open"
          BY <4>1, <4>2 DEF Decision, Outcome, Settled, Running
        <5>2. \A b \in Actions : /\ Decision(b)' = Decision(b)
                                 /\ Outcome(b)' = IF b = c THEN "handed_over" ELSE Outcome(b)
          BY <2>0, <4>1, <4>2, <4>3, <4>4, <4>6 DEF Decision, Outcome, Settled, Results,
             Running
        <5>3. Contract!HandOver(c)
          BY <4>1, <4>4, <5>1, <5>2 DEF Contract!HandOver
        <5>. QED BY <4>1, <5>3 DEF Contract!Next
      <4>. QED BY <4>5, <4>6
    <3>. QED BY <3>1, <3>2
  <2>13. ASSUME NEW r \in References, LateEffect(r) PROVE FALSE
    BY <2>13 DEF LateEffect, AllInv, NothingInFlight
  <2>14. CASE ToggleReady \/ ToggleWrites \/ UNCHANGED vars
    BY <2>14, Invisible DEF ToggleReady, ToggleWrites, vars, dbVars, providerVars,
       Decision, Outcome
  <2>. QED
    BY <2>1, <2>2, <2>3, <2>4, <2>5, <2>6, <2>7, <2>8, <2>9, <2>10, <2>11, <2>12, <2>13,
       <2>14 DEF Next, WorkerStep, SchedulerStep
<1>. QED BY <1>1, <1>2, AllInvariants, PTL DEF Spec, KeepsContract, Contract!Spec
=============================================================================
