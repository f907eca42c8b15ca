-------------------------- MODULE SettlementProofs --------------------------
(***************************************************************************)
(* The detailed settlement implements the life cycle, pays a market once   *)
(* and makes no money.                                                     *)
(***************************************************************************)
EXTENDS Settlement, Sums, TLAPS

\* The life cycle with its invariant and the lemmas about it.
Handlers == INSTANCE MarketLifecycleProofs

\* Both instances have the same steps.
LEMMA SameCallStep ==
    ASSUME NEW c \in Calls
    PROVE  Lifecycle!CallStep(c) <=> Handlers!CallStep(c)
BY DEF Lifecycle!CallStep, Lifecycle!TransitionRead, Lifecycle!TransitionWrite,
   Lifecycle!ResolveRead, Lifecycle!ResolveValue, Lifecycle!IngestRead, Lifecycle!IngestObserve,
   Lifecycle!RecordResult, Lifecycle!UpdateResolved, Lifecycle!CallFails, Lifecycle!Goto,
   Lifecycle!canTransition, Lifecycle!canResolve, Lifecycle!Target, Lifecycle!Sources,
   Lifecycle!TriggersResolve, Lifecycle!MayUpdate,
   Handlers!CallStep, Handlers!TransitionRead, Handlers!TransitionWrite,
   Handlers!ResolveRead, Handlers!ResolveValue, Handlers!IngestRead, Handlers!IngestObserve,
   Handlers!RecordResult, Handlers!UpdateResolved, Handlers!CallFails, Handlers!Goto,
   Handlers!canTransition, Handlers!canResolve, Handlers!Target, Handlers!Sources,
   Handlers!TriggersResolve, Handlers!MayUpdate

LEMMA InitHolds ==
    ASSUME Lifecycle!Init
    PROVE  Handlers!LifecycleInv
<1>1. Handlers!Init
  BY DEF Lifecycle!Init, Handlers!Init
<1> QED
  BY <1>1, Handlers!LifecycleInit, CallsAssumption

LEMMA StutterHolds ==
    ASSUME Handlers!LifecycleInv, UNCHANGED lifecycleVars
    PROVE  Handlers!LifecycleInv'
<1>1. UNCHANGED Handlers!lifecycleVars
  BY DEF lifecycleVars, Handlers!lifecycleVars
<1> QED
  BY <1>1, Handlers!LifecycleStutterKeeps, CallsAssumption

-----------------------------------------------------------------------------
\* A run that is past its checks leaves a recorded result behind it: results are
\* overwritten but never deleted.
RunsHaveResult ==
    /\ runPc \in [Runs -> {"idle", "ready", "ended"} \cup InTransaction]
    /\ \A r \in Runs : runPc[r] \in {"ready"} \cup InTransaction => result # NoValue

IInv == Handlers!LifecycleInv /\ RunsHaveResult

LEMMA OperateKeeps ==
    ASSUME IInv, NEW c \in Calls, Operate(c)
    PROVE  IInv'
<1>1. Handlers!LifecycleInv /\ Handlers!CallStep(c)
  BY SameCallStep DEF IInv, Operate
<1>2. Handlers!LifecycleInv'
  BY <1>1, Handlers!CallStepKeeps, CallsAssumption
<1>3. result # NoValue => result' # NoValue
  BY <1>1, Handlers!CallStepKeepsResult, CallsAssumption
<1>4. RunsHaveResult'
  BY <1>3 DEF IInv, Operate, RunsHaveResult, runVars
<1> QED
  BY <1>2, <1>4 DEF IInv

\* Steps that touch neither the life cycle nor the runs.
LEMMA OthersKeep ==
    ASSUME IInv, UNCHANGED <<lifecycleVars, runPc>>
    PROVE  IInv'
<1>1. Handlers!LifecycleInv'
  BY StutterHolds DEF IInv
<1> QED
  BY <1>1 DEF IInv, RunsHaveResult, lifecycleVars

LEMMA PlacementStepFrame ==
    ASSUME NEW p \in Placements, PlacementStep(p)
    PROVE  UNCHANGED <<lifecycleVars, runPc>>
BY DEF PlacementStep, PlacementAdmit, PlacementRead, PlacementPost, PlacementCommit,
       PlacementAbort, runVars

LEMMA QueueStepFrame ==
    ASSUME Scan \/ (\E j \in ManualJobs : EnqueueSettlement(j)) \/ (\E j \in Jobs : TakeJob(j))
    PROVE  UNCHANGED <<lifecycleVars, runPc>>
BY DEF Scan, EnqueueSettlement, TakeJob, runVars

\* Steps of a run other than its commit leave the life cycle alone.
LEMMA RunStepKeeps ==
    ASSUME IInv, NEW r \in Runs,
           \/ SettleRead(r) \/ SettleBegin(r) \/ SettleCompute(r) \/ SettleReadBalances(r)
           \/ SettlePost(r) \/ SettleUnbalanced(r) \/ SettleFails(r)
    PROVE  IInv' /\ UNCHANGED lifecycleVars
<1>1. UNCHANGED lifecycleVars
  BY DEF SettleRead, SettleBegin, SettleCompute, SettleReadBalances, SettlePost,
         SettleUnbalanced, SettleFails, RunFails
<1>2. Handlers!LifecycleInv'
  BY <1>1, StutterHolds DEF IInv
<1>3. result' = result
  BY <1>1 DEF lifecycleVars
<1> USE DEF IInv, RunsHaveResult, InTransaction, RunEnds
<1>4. CASE SettleRead(r)
  BY <1>3, <1>4, <1>2 DEF SettleRead, MaySettle
<1>5. CASE SettleBegin(r)
  BY <1>3, <1>5, <1>2 DEF SettleBegin
<1>6. CASE SettleCompute(r)
  BY <1>3, <1>6, <1>2 DEF SettleCompute
<1>7. CASE SettleReadBalances(r)
  BY <1>3, <1>7, <1>2 DEF SettleReadBalances
<1>8. CASE SettlePost(r)
  BY <1>3, <1>8, <1>2 DEF SettlePost
<1>9. CASE SettleUnbalanced(r) \/ SettleFails(r)
  BY <1>3, <1>9, <1>2 DEF SettleUnbalanced, SettleFails, RunFails
<1> QED
  BY <1>1, <1>4, <1>5, <1>6, <1>7, <1>8, <1>9

\* The commit of a run is the life cycle's Settle.
LEMMA CommitIsSettle ==
    ASSUME IInv, NEW r \in Runs, SettleCommit(r)
    PROVE  IInv' /\ Lifecycle!Settle
<1>1. Lifecycle!Settle
  BY DEF SettleCommit, Lifecycle!Settle, IInv, RunsHaveResult, InTransaction
<1>2. Handlers!LifecycleInv'
  <2>1. Handlers!Settle
    BY <1>1 DEF Lifecycle!Settle, Handlers!Settle
  <2> QED
    BY <2>1, Handlers!SettleKeeps, CallsAssumption DEF IInv
<1>3. RunsHaveResult'
  BY DEF SettleCommit, IInv, RunsHaveResult, InTransaction, RunEnds
<1> QED
  BY <1>1, <1>2, <1>3 DEF IInv

LEMMA InitIInv ==
    ASSUME Init
    PROVE  IInv
<1>1. Handlers!LifecycleInv
  BY InitHolds DEF Init
<1> QED
  BY <1>1 DEF Init, IInv, RunsHaveResult, InTransaction

LEMMA StepRefines ==
    ASSUME IInv, [Next]_vars
    PROVE  IInv' /\ [Lifecycle!Next]_lifecycleVars
<1>1. CASE \E c \in Calls : Operate(c)
  BY <1>1, OperateKeeps DEF Operate, Lifecycle!Next
<1>2. CASE \E p \in Placements : PlacementStep(p)
  BY <1>2, PlacementStepFrame, OthersKeep
<1>3. CASE Scan \/ (\E j \in ManualJobs : EnqueueSettlement(j)) \/ (\E j \in Jobs : TakeJob(j))
  BY <1>3, QueueStepFrame, OthersKeep
<1>4. ASSUME NEW r \in Runs, SettleStep(r) \/ SettleFails(r)
      PROVE  IInv' /\ [Lifecycle!Next]_lifecycleVars
  <2>1. CASE SettleCommit(r)
    BY <2>1, CommitIsSettle DEF Lifecycle!Next
  <2>2. CASE ~SettleCommit(r)
    BY <1>4, <2>2, RunStepKeeps DEF SettleStep
  <2> QED
    BY <2>1, <2>2
<1>5. CASE UNCHANGED vars
  BY <1>5, OthersKeep DEF vars, runVars
<1> QED
  BY <1>1, <1>2, <1>3, <1>4, <1>5 DEF Next

\* However runs of settleMarket start, retry, overlap and fail, the other handlers
\* see at each moment either nothing of them or one Settle of a market with a result.
THEOREM SettlementImplementsLifecycle ==
    Spec => ImplementsLifecycle
<1>1. Init => IInv /\ Lifecycle!Init
  BY InitIInv DEF Init
<1>2. IInv /\ [Next]_vars => IInv' /\ [Lifecycle!Next]_lifecycleVars
  BY StepRefines
<1> QED
  BY <1>1, <1>2, PTL DEF Spec, ImplementsLifecycle, Lifecycle!Spec, Lifecycle!lifecycleVars,
     lifecycleVars

-----------------------------------------------------------------------------
(* Types *)

LEMMA CashIsInteger ==
    ASSUME NEW p \in Placements, NEW a \in Accounts
    PROVE  CashOf(p, a) \in Int /\ MoveOf(p, a) \in Int
<1>1. Deal[p].price \in Nat /\ Deal[p].quantity \in Nat
  BY SettlementAssumption
<1>2. Deal[p].price * Deal[p].quantity \in Int
  BY <1>1
<1> QED
  BY <1>1, <1>2 DEF CashOf, MoveOf

LEMMA PayoutIsInteger ==
    ASSUME TypeOK, NEW r \in Runs
    PROVE  Payout(r) \in [Accounts -> Int]
<1>1. runValue[r] \in Int /\ ContractMultiplier \in Int /\ position \in [Accounts -> Int]
  BY SettlementAssumption, CallsAssumption
     DEF TypeOK, RunTypes, MoneyTypes, Lifecycle!LifecycleAssumption
<1>2. ContractMultiplier * runValue[r] \in Int
  BY <1>1
<1> QED
  BY <1>1, <1>2 DEF Payout

LEMMA MoneyTypesStep ==
    ASSUME TypeOK, [Next]_vars
    PROVE  MoneyTypes'
<1> USE DEF TypeOK, MoneyTypes, RunTypes
<1>1. ASSUME NEW p \in Placements, PlacementStep(p)
      PROVE  MoneyTypes'
  <2>1. CASE PlacementCommit(p)
    BY <2>1, CashIsInteger DEF PlacementCommit
  <2>2. CASE ~PlacementCommit(p)
    BY <1>1, <2>2 DEF PlacementStep, PlacementAdmit, PlacementRead, PlacementPost, PlacementAbort,
       moneyVars
  <2> QED
    BY <2>1, <2>2
<1>2. ASSUME NEW r \in Runs, SettleStep(r) \/ SettleFails(r)
      PROVE  MoneyTypes'
  <2>1. CASE SettleCommit(r)
    BY <2>1 DEF SettleCommit, placementVars
  <2>2. CASE ~SettleCommit(r)
    BY <1>2, <2>2 DEF SettleStep, SettleRead, SettleBegin, SettleCompute, SettleReadBalances,
       SettlePost, SettleUnbalanced, SettleFails, RunFails, StatusAfterFailure, moneyVars,
       placementVars
  <2> QED
    BY <2>1, <2>2
<1>3. CASE \/ \E c \in Calls : Operate(c)
           \/ Scan \/ (\E j \in ManualJobs : EnqueueSettlement(j)) \/ (\E j \in Jobs : TakeJob(j))
           \/ UNCHANGED vars
  BY <1>3 DEF Operate, Scan, EnqueueSettlement, TakeJob, vars, moneyVars, placementVars
<1> QED
  BY <1>1, <1>2, <1>3 DEF Next

LEMMA QueueTypesStep ==
    ASSUME TypeOK, [Next]_vars
    PROVE  QueueTypes'
<1> USE SettlementAssumption DEF TypeOK, QueueTypes, Jobs
<1>1. CASE \/ \E c \in Calls : Operate(c)
           \/ \E p \in Placements : PlacementStep(p)
           \/ UNCHANGED vars
  BY <1>1 DEF Operate, PlacementStep, PlacementAdmit, PlacementRead, PlacementPost,
     PlacementCommit, PlacementAbort, vars, queueVars
<1>2. CASE Scan \/ (\E j \in ManualJobs : EnqueueSettlement(j)) \/ (\E j \in Jobs : TakeJob(j))
  BY <1>2 DEF Scan, EnqueueSettlement, TakeJob
<1>3. ASSUME NEW r \in Runs, SettleStep(r) \/ SettleFails(r)
      PROVE  QueueTypes'
  <2>1. (JobSucceeds(r) \/ JobFails(r) \/ UNCHANGED <<job, attempt>>)
            => job' \in [Jobs -> {"absent", "waiting", "active", "completed", "failed"}]
               /\ attempt' \in [Jobs -> Nat]
    BY DEF JobSucceeds, JobFails
  <2>2. JobSucceeds(r) \/ JobFails(r) \/ UNCHANGED <<job, attempt>>
    BY <1>3 DEF SettleStep, SettleRead, SettleBegin, SettleCompute, SettleReadBalances,
       SettlePost, SettleCommit, SettleUnbalanced, SettleFails, RunFails, queueVars
  <2>3. failures' = failures \/ (failures < MaxFailures /\ failures' = failures + 1)
    BY <1>3 DEF SettleStep, SettleRead, SettleBegin, SettleCompute, SettleReadBalances,
       SettlePost, SettleCommit, SettleUnbalanced, SettleFails, RunFails, queueVars
  <2> QED
    BY <2>1, <2>2, <2>3
<1> QED
  BY <1>1, <1>2, <1>3 DEF Next

LEMMA RunTypesStep ==
    ASSUME TypeOK, [Next]_vars
    PROVE  RunTypes'
<1> USE DEF TypeOK, RunTypes
<1>1. CASE \/ \E c \in Calls : Operate(c)
           \/ \E p \in Placements : PlacementStep(p)
           \/ Scan \/ (\E j \in ManualJobs : EnqueueSettlement(j)) \/ (\E j \in Jobs : TakeJob(j))
           \/ UNCHANGED vars
  BY <1>1 DEF Operate, PlacementStep, PlacementAdmit, PlacementRead, PlacementPost,
     PlacementCommit, PlacementAbort, Scan, EnqueueSettlement, TakeJob, vars, runVars
<1>2. ASSUME NEW r \in Runs, SettleStep(r) \/ SettleFails(r)
      PROVE  RunTypes'
  <2> USE DEF InTransaction, RunEnds
  <2>1. CASE SettleRead(r)
    BY <2>1 DEF SettleRead, Lifecycle!TypeOK
  <2>2. CASE SettleBegin(r)
    BY <2>2 DEF SettleBegin
  <2>3. CASE SettleCompute(r)
    BY <2>3, PayoutIsInteger DEF SettleCompute
  <2>4. CASE SettleReadBalances(r)
    BY <2>4 DEF SettleReadBalances, MoneyTypes
  <2>5. CASE SettlePost(r) \/ SettleCommit(r) \/ SettleUnbalanced(r) \/ SettleFails(r)
    BY <2>5 DEF SettlePost, SettleCommit, SettleUnbalanced, SettleFails, RunFails
  <2> QED
    BY <1>2, <2>1, <2>2, <2>3, <2>4, <2>5 DEF SettleStep
<1> QED
  BY <1>1, <1>2 DEF Next

LEMMA TypeInit ==
    ASSUME Init
    PROVE  TypeOK
<1>1. Lifecycle!TypeOK
  BY InitHolds DEF Init, Handlers!LifecycleInv, Handlers!CallsHoldValues, Handlers!TypeOK,
     Lifecycle!TypeOK, Handlers!MarketState, Lifecycle!MarketState
<1> QED
  BY <1>1, SettlementAssumption
     DEF Init, TypeOK, MoneyTypes, QueueTypes, RunTypes, NoDeltas, InTransaction

LEMMA TypeStep ==
    ASSUME TypeOK, IInv, [Next]_vars
    PROVE  TypeOK'
<1>1. Handlers!LifecycleInv'
  BY StepRefines DEF IInv
<1>2. Lifecycle!TypeOK'
  BY <1>1 DEF Handlers!LifecycleInv, Handlers!CallsHoldValues, Handlers!TypeOK,
     Lifecycle!TypeOK, Handlers!MarketState, Lifecycle!MarketState
<1> QED
  BY <1>2, MoneyTypesStep, QueueTypesStep, RunTypesStep DEF TypeOK

\* Rows, queue and runs keep their types, for every set of calls, placements and jobs.
THEOREM SettlementTypeCorrect == Spec => []TypeOK
<1>1. Init => TypeOK /\ IInv
  BY TypeInit, InitIInv
<1>2. TypeOK /\ IInv /\ [Next]_vars => (TypeOK /\ IInv)'
  BY TypeStep, StepRefines
<1> QED
  BY <1>1, <1>2, PTL DEF Spec

-----------------------------------------------------------------------------
(* What the queue pays *)

Busy == {"ready"} \cup InTransaction
DirectIdle == \A r \in Direct : runPc[r] = "idle"

\* The worker takes one job at a time, a run belongs to the job it was started for,
\* works with a value that was recorded, and audit rows come with the status row.
WorkerInv ==
    /\ \A j \in Jobs : runPc[j] \in Busy => job[j] = "active"
    /\ \A i, j \in Jobs : job[i] = "active" /\ job[j] = "active" => i = j
    /\ \A r \in Runs : runPc[r] \in Busy => runValue[r] \in Values
    /\ statusRow # "COMPLETE" => \A a \in Accounts : audited[a] = 0

\* While nothing runs beside the queue, the run that is on its way finds nothing paid
\* yet, and what it has computed still fits the positions.
QueuePays ==
    /\ \A j \in Jobs : runPc[j] \in Busy => statusRow # "COMPLETE"
    /\ \A j \in Jobs : runPc[j] \in {"computed", "read", "posted"} /\ missed = {}
            => runPayout[j] = Payout(j)
    /\ statusRow = "COMPLETE" /\ missed = {} => PaidFor(audited)

PaidInv == WorkerInv /\ (DirectIdle => QueuePays)

LEMMA PaidInit ==
    ASSUME Init
    PROVE  PaidInv
BY DEF Init, PaidInv, WorkerInv, QueuePays, Busy, InTransaction, Jobs, Runs, NoDeltas

\* Steps that neither move money nor touch the queue or a run.
LEMMA PaidFrame ==
    ASSUME PaidInv,
           UNCHANGED <<position, audited, statusRow, missed, job, runPc, runValue, runPayout>>
    PROVE  PaidInv'
BY DEF PaidInv, WorkerInv, QueuePays, DirectIdle, PaidFor, Payout

\* A placement that commits while it could still be forgotten is counted as missed.
LEMMA PaidPlacement ==
    ASSUME PaidInv, NEW p \in Placements, PlacementStep(p)
    PROVE  PaidInv'
<1>1. CASE PlacementCommit(p)
  <2>1. UNCHANGED <<audited, statusRow, job, runPc, runValue, runPayout>>
    BY <1>1 DEF PlacementCommit, queueVars, runVars
  <2>2. missed' = {} =>
            statusRow # "COMPLETE" /\ \A r \in Runs : runPc[r] \notin {"computed", "read", "posted"}
    BY <1>1 DEF PlacementCommit, TooLate
  <2>3. WorkerInv'
    BY <2>1 DEF PaidInv, WorkerInv
  <2>4. DirectIdle => QueuePays'
    BY <2>1, <2>2 DEF PaidInv, QueuePays, Runs
  <2> QED
    BY <2>1, <2>3, <2>4 DEF PaidInv, DirectIdle
<1>2. CASE ~PlacementCommit(p)
  BY <1>2, PaidFrame DEF PlacementStep, PlacementAdmit, PlacementRead, PlacementPost,
     PlacementAbort, moneyVars, queueVars, runVars
<1> QED
  BY <1>1, <1>2

LEMMA PaidQueue ==
    ASSUME TypeOK, PaidInv,
           Scan \/ (\E j \in ManualJobs : EnqueueSettlement(j)) \/ (\E j \in Jobs : TakeJob(j))
    PROVE  PaidInv'
<1>1. UNCHANGED <<position, audited, statusRow, missed, runPc, runValue, runPayout>>
  BY DEF Scan, EnqueueSettlement, TakeJob, moneyVars, runVars
<1>2. \/ \E i \in Jobs : job[i] = "absent" /\ job' = [job EXCEPT ![i] = "waiting"]
      \/ \E i \in Jobs : WorkerIdle /\ job[i] = "waiting" /\ job' = [job EXCEPT ![i] = "active"]
  BY DEF Scan, EnqueueSettlement, TakeJob, Jobs
<1>3. job \in [Jobs -> {"absent", "waiting", "active", "completed", "failed"}]
  BY DEF TypeOK, QueueTypes
<1>4. WorkerInv'
  BY <1>1, <1>2, <1>3 DEF PaidInv, WorkerInv, WorkerIdle
<1> QED
  BY <1>1, <1>4 DEF PaidInv, QueuePays, DirectIdle, PaidFor, Payout

\* A run outside the queue: it only ever stops being idle.
LEMMA PaidDirect ==
    ASSUME TypeOK, IInv, PaidInv, NEW r \in Direct, SettleStep(r) \/ SettleFails(r)
    PROVE  PaidInv'
<1>1. r \in Runs /\ r \notin Jobs
  BY SettlementAssumption DEF Runs
<1> USE <1>1 DEF TypeOK, RunTypes
<1>2. runPc'[r] # "idle"
  BY DEF SettleStep, SettleRead, SettleBegin, SettleCompute, SettleReadBalances, SettlePost,
     SettleCommit, SettleUnbalanced, SettleFails, RunFails, RunEnds
<1>3. job' = job
  BY DEF SettleStep, SettleRead, SettleBegin, SettleCompute, SettleReadBalances, SettlePost,
     SettleCommit, SettleUnbalanced, SettleFails, RunFails, JobSucceeds, JobFails, queueVars
<1>4. \A s \in Runs \ {r} : runPc'[s] = runPc[s] /\ runValue'[s] = runValue[s]
  BY DEF SettleStep, SettleRead, SettleBegin, SettleCompute, SettleReadBalances, SettlePost,
     SettleCommit, SettleUnbalanced, SettleFails, RunFails
<1>5. statusRow' = "COMPLETE" \/ (statusRow' = statusRow /\ audited' = audited)
  BY DEF SettleStep, SettleRead, SettleBegin, SettleCompute, SettleReadBalances, SettlePost,
     SettleCommit, SettleUnbalanced, SettleFails, RunFails, StatusAfterFailure
<1>6. runPc'[r] \in Busy => runValue'[r] \in Values
  <2>1. CASE SettleRead(r)
    BY <2>1 DEF SettleRead, MaySettle, Busy, InTransaction, RunEnds, Lifecycle!TypeOK
  <2>2. CASE ~SettleRead(r)
    BY <2>2 DEF SettleStep, SettleBegin, SettleCompute, SettleReadBalances, SettlePost,
       SettleCommit, SettleUnbalanced, SettleFails, RunFails, RunEnds, PaidInv, WorkerInv, Busy,
       InTransaction
  <2> QED
    BY <2>1, <2>2
<1>7. WorkerInv'
  BY <1>3, <1>4, <1>5, <1>6 DEF PaidInv, WorkerInv, Runs
<1> QED
  BY <1>2, <1>7 DEF PaidInv, DirectIdle

\* The run of the job that is active.
LEMMA PaidJob ==
    ASSUME TypeOK, IInv, PaidInv, NEW r \in Jobs, SettleStep(r) \/ SettleFails(r)
    PROVE  PaidInv'
<1>1. r \in Runs /\ r \notin Direct
  BY SettlementAssumption DEF Runs
<1> USE <1>1 DEF TypeOK, RunTypes, QueueTypes
<1>2. DirectIdle' => DirectIdle
  BY DEF DirectIdle, Runs, SettleStep, SettleRead, SettleBegin, SettleCompute, SettleReadBalances,
     SettlePost, SettleCommit, SettleUnbalanced, SettleFails, RunFails
<1>3. job[r] = "active"
  BY DEF SettleStep, SettleRead, Started, SettleBegin, SettleCompute, SettleReadBalances,
     SettlePost, SettleCommit, SettleUnbalanced, SettleFails, PaidInv, WorkerInv, Busy,
     InTransaction
<1>4. \A j \in Jobs \ {r} : job[j] # "active" /\ runPc[j] \notin Busy
  BY <1>3 DEF PaidInv, WorkerInv
<1>5. UNCHANGED <<position, missed>>
  BY DEF SettleStep, SettleRead, SettleBegin, SettleCompute, SettleReadBalances, SettlePost,
     SettleCommit, SettleUnbalanced, SettleFails, RunFails, moneyVars
\* The run is over: its job is no longer active, and nothing is under way.
<1>6. ASSUME runPc' = [runPc EXCEPT ![r] = "idle"], JobSucceeds(r) \/ JobFails(r),
             runValue' = runValue,
             statusRow' # "COMPLETE" => \A a \in Accounts : audited'[a] = 0,
             DirectIdle /\ statusRow' = "COMPLETE" /\ missed = {} => PaidFor(audited)'
      PROVE  PaidInv'
  <2>1. \A j \in Jobs : job'[j] # "active" /\ runPc'[j] \notin Busy
    BY <1>4, <1>6 DEF JobSucceeds, JobFails, Busy, InTransaction, Runs
  <2>2. \A s \in Runs : runPc'[s] \in Busy => runValue'[s] \in Values
    BY <1>6 DEF PaidInv, WorkerInv, Busy, InTransaction
  <2>3. WorkerInv'
    BY <1>6, <2>1, <2>2 DEF WorkerInv
  <2>4. DirectIdle => QueuePays'
    BY <1>5, <1>6, <2>1 DEF QueuePays, Busy, InTransaction
  <2> QED
    BY <1>2, <2>3, <2>4 DEF PaidInv
\* The run goes on.
<1>7. ASSUME NEW label \in Busy, runPc' = [runPc EXCEPT ![r] = label],
             UNCHANGED <<job, audited, statusRow>>, runValue'[r] \in Values,
             \A s \in Runs \ {r} : runValue'[s] = runValue[s],
             statusRow # "COMPLETE" \/ ~DirectIdle,
             DirectIdle /\ label \in {"computed", "read", "posted"} /\ missed = {}
                => (runPayout[r] = Payout(r))'
      PROVE  PaidInv'
  <2>1. WorkerInv'
    BY <1>3, <1>7 DEF PaidInv, WorkerInv, Runs
  <2>2. DirectIdle => QueuePays'
    BY <1>4, <1>5, <1>7 DEF QueuePays, Busy, InTransaction, Runs
  <2> QED
    BY <1>2, <2>1, <2>2 DEF PaidInv
<1>8. CASE SettleRead(r)
  <2>1. CASE runPc' = [runPc EXCEPT ![r] = "ready"]
    BY <1>7, <1>8, <2>1 DEF SettleRead, MaySettle, AlreadySettled, Busy, InTransaction, RunEnds,
       Lifecycle!TypeOK, moneyVars
  <2>2. CASE runPc' = [runPc EXCEPT ![r] = "idle"] /\ (JobSucceeds(r) \/ JobFails(r))
    BY <1>5, <1>6, <1>8, <2>2 DEF SettleRead, PaidInv, WorkerInv, QueuePays, PaidFor
  <2> QED
    BY <1>8, <2>1, <2>2 DEF SettleRead, RunEnds
<1>9. CASE SettleBegin(r) \/ SettleCompute(r) \/ SettleReadBalances(r) \/ SettlePost(r)
  <2>1. PICK label \in Busy : runPc' = [runPc EXCEPT ![r] = label]
    BY <1>9 DEF SettleBegin, SettleCompute, SettleReadBalances, SettlePost, Busy, InTransaction
  <2>2. UNCHANGED <<job, audited, statusRow, runValue>> /\ runPc[r] \in Busy
    BY <1>9 DEF SettleBegin, SettleCompute, SettleReadBalances, SettlePost, Busy, InTransaction,
       moneyVars, queueVars
  <2>3. DirectIdle /\ label \in {"computed", "read", "posted"} /\ missed = {}
            => runPayout'[r] = Payout(r)
    <3>1. CASE SettleCompute(r)
      BY <3>1 DEF SettleCompute
    <3>2. CASE SettleBegin(r)
      BY <2>1, <3>2 DEF SettleBegin
    <3>3. CASE SettleReadBalances(r) \/ SettlePost(r)
      BY <3>3 DEF SettleReadBalances, SettlePost, PaidInv, QueuePays
    <3> QED
      BY <1>9, <3>1, <3>2, <3>3
  <2>4. Payout(r)' = Payout(r)
    BY <1>5, <2>2 DEF Payout
  <2>5. statusRow # "COMPLETE" \/ ~DirectIdle
    BY <2>2 DEF PaidInv, QueuePays
  <2>6. runValue[r] \in Values
    BY <2>2 DEF PaidInv, WorkerInv
  <2> QED
    BY <1>7, <2>1, <2>2, <2>3, <2>4, <2>5, <2>6
<1>10. CASE SettleCommit(r)
  <2>1. DirectIdle /\ missed = {} => PaidFor(audited)'
    <3> SUFFICES ASSUME DirectIdle, missed = {}
                 PROVE  PaidFor(audited)'
      OBVIOUS
    <3>1. runPayout[r] = Payout(r) /\ statusRow # "COMPLETE" /\ runValue[r] \in Values
      BY <1>10 DEF SettleCommit, PaidInv, WorkerInv, QueuePays, Busy, InTransaction
    <3>2. \A a \in Accounts : audited'[a] = 0 + Payout(r)[a]
      BY <1>10, <3>1 DEF SettleCommit, PaidInv, WorkerInv
    <3>3. \A a \in Accounts : Payout(r)[a] \in Int
      BY PayoutIsInteger
    <3>4. \A a \in Accounts : audited'[a] = ContractMultiplier * runValue[r] * position[a]
      BY <3>2, <3>3 DEF Payout
    <3> QED
      BY <1>5, <3>1, <3>4 DEF PaidFor
  <2> QED
    BY <1>6, <1>10, <2>1 DEF SettleCommit, RunEnds
<1>11. CASE SettleUnbalanced(r) \/ SettleFails(r)
  <2>1. /\ runPc' = [runPc EXCEPT ![r] = "idle"]
        /\ JobFails(r)
        /\ UNCHANGED <<runValue, statusRow, audited>>
    BY <1>11 DEF SettleUnbalanced, SettleFails, RunFails, RunEnds, StatusAfterFailure
  <2> QED
    BY <1>5, <1>6, <2>1 DEF PaidInv, WorkerInv, QueuePays, PaidFor
<1> QED
  BY <1>8, <1>9, <1>10, <1>11 DEF SettleStep

LEMMA PaidStep ==
    ASSUME TypeOK, IInv, PaidInv, [Next]_vars
    PROVE  PaidInv'
<1>1. CASE \E c \in Calls : Operate(c)
  BY <1>1, PaidFrame DEF Operate, moneyVars, queueVars, runVars
<1>2. CASE UNCHANGED vars
  BY <1>2, PaidFrame DEF vars, moneyVars, queueVars, runVars
<1> QED
  BY <1>1, <1>2, PaidPlacement, PaidQueue, PaidDirect, PaidJob DEF Next, Runs

\* As long as nothing settles outside the queue, a market is paid once, at one value
\* and for the positions it ends with, however the one worker's jobs are added, fail
\* and are retried, unless a placement committed after the positions were read.
THEOREM QueuePaysOnce == Spec => []PaidOncePerPosition
<1>1. Init => TypeOK /\ IInv /\ PaidInv
  BY TypeInit, InitIInv, PaidInit
<1>2. TypeOK /\ IInv /\ PaidInv /\ [Next]_vars => (TypeOK /\ IInv /\ PaidInv)'
  BY TypeStep, StepRefines, PaidStep
<1>3. PaidInv => PaidOncePerPosition
  BY DEF PaidInv, QueuePays, DirectIdle, PaidOncePerPosition
<1> QED
  BY <1>1, <1>2, <1>3, PTL DEF Spec

\* No failure of a later run, inside or outside the queue, takes COMPLETE back: the
\* FAILED that the handler writes is rolled back with the rest.
THEOREM CompleteStays == Spec => CompleteIsFinal
<1>1. [Next]_vars => (statusRow = "COMPLETE" => statusRow' = "COMPLETE")
  <2>1. ASSUME NEW r \in Runs, SettleStep(r) \/ SettleFails(r)
        PROVE  statusRow' \in {statusRow, "COMPLETE"}
    BY <2>1 DEF SettleStep, SettleRead, SettleBegin, SettleCompute, SettleReadBalances, SettlePost,
       SettleCommit, SettleUnbalanced, SettleFails, RunFails, StatusAfterFailure
  <2>2. ASSUME NEW p \in Placements, PlacementStep(p)
        PROVE  statusRow' = statusRow
    BY <2>2 DEF PlacementStep, PlacementAdmit, PlacementRead, PlacementPost, PlacementCommit,
       PlacementAbort
  <2> QED
    BY <2>1, <2>2 DEF Next, Operate, Scan, EnqueueSettlement, TakeJob, vars
<1> QED
  BY <1>1, PTL DEF Spec, CompleteIsFinal

-----------------------------------------------------------------------------
(* Journals balance *)

\* The journal of a trade: the buyer pays what the seller gets.
LEMMA TradeBalances ==
    ASSUME NEW p \in Placements
    PROVE  Total([a \in Accounts |-> CashOf(p, a)]) = 0
<1> DEFINE cost == Deal[p].price * Deal[p].quantity
           buyer == Deal[p].buyer
           seller == Deal[p].seller
           paid == [a \in Accounts |-> IF a = buyer THEN -cost ELSE 0]
           received == [a \in Accounts |-> IF a = seller THEN cost ELSE 0]
           moved == [a \in Accounts |-> CashOf(p, a)]
<1>1. buyer \in Accounts /\ seller \in Accounts /\ cost \in Int
  BY SettlementAssumption
<1>2. \A a \in Accounts :
        moved[a] = (IF a = seller THEN cost ELSE 0) - (IF a = buyer THEN cost ELSE 0)
  BY DEF CashOf
<1> HIDE DEF cost, buyer, seller, moved
<1>3. \A a \in Accounts : /\ received[a] \in Int /\ paid[a] \in Int
                          /\ moved[a] = received[a] + paid[a]
  BY <1>1, <1>2
<1>4. /\ received[seller] = cost /\ \A a \in Accounts \ {seller} : received[a] = 0
      /\ paid[buyer] = -cost /\ \A a \in Accounts \ {buyer} : paid[a] = 0
  BY <1>1
<1>5. IsFiniteSet(Accounts)
  BY SettlementAssumption
<1> HIDE DEF received, paid
<1>6. SumFunctionOnSet(received, Accounts) = cost
  BY <1>1, <1>3, <1>4, <1>5, SumAt
<1>7. SumFunctionOnSet(paid, Accounts) = -cost
  BY <1>1, <1>3, <1>4, <1>5, SumAt
<1>8. SumFunctionOnSet(moved, Accounts)
        = SumFunctionOnSet(received, Accounts) + SumFunctionOnSet(paid, Accounts)
  BY <1>3, <1>5, SumPlus
<1>9. SumFunctionOnSet(moved, Accounts) = 0
  BY <1>1, <1>6, <1>7, <1>8
<1> QED
  BY <1>9 DEF Total, moved

\* Posting a balanced journal leaves the ledger balanced.
LEMMA PostingBalances ==
    ASSUME NEW f \in [Accounts -> Int], NEW g \in [Accounts -> Int], Total(f) = 0, Total(g) = 0,
           NEW h, h = [a \in Accounts |-> f[a] + g[a]]
    PROVE  Total(h) = 0
<1>1. \A a \in Accounts : f[a] \in Int /\ g[a] \in Int /\ h[a] = f[a] + g[a]
  OBVIOUS
<1>2. IsFiniteSet(Accounts)
  BY SettlementAssumption
<1>3. SumFunctionOnSet(h, Accounts) = SumFunctionOnSet(f, Accounts) + SumFunctionOnSet(g, Accounts)
  BY <1>1, <1>2, SumPlus
<1> QED
  BY <1>3 DEF Total

\* What a run is about to post has been found to balance.
BalanceInv ==
    /\ LedgerBalanced
    /\ \A r \in Runs : runPc[r] \in {"read", "posted"} => Total(runPayout[r]) = 0

LEMMA BalanceInit == Init => BalanceInv
<1> SUFFICES ASSUME Init PROVE BalanceInv
  OBVIOUS
<1>1. ledger = NoDeltas /\ \A r \in Runs : runPc[r] = "idle"
  BY DEF Init
<1>2. \A a \in Accounts : NoDeltas[a] = 0
  BY DEF NoDeltas
<1>3. Total(NoDeltas) = 0
  BY <1>2, SettlementAssumption, SumZero DEF Total
<1> QED
  BY <1>1, <1>3 DEF BalanceInv, LedgerBalanced

LEMMA BalanceStep == TypeOK /\ BalanceInv /\ [Next]_vars => BalanceInv'
<1> SUFFICES ASSUME TypeOK, BalanceInv, [Next]_vars PROVE BalanceInv'
  OBVIOUS
<1>1. /\ ledger \in [Accounts -> Int]
      /\ runPc \in [Runs -> {"idle", "ready", "ended"} \cup InTransaction]
      /\ runPayout \in [Runs -> [Accounts -> Int]]
  BY DEF TypeOK, MoneyTypes, RunTypes
<1>2. ASSUME UNCHANGED <<ledger, runPc, runPayout>>
      PROVE  BalanceInv'
  BY <1>2 DEF BalanceInv, LedgerBalanced, Total
<1>3. ASSUME NEW p \in Placements, PlacementCommit(p)
      PROVE  BalanceInv'
  <2> DEFINE g == [a \in Accounts |-> CashOf(p, a)]
  <2>1. g \in [Accounts -> Int]
    BY SettlementAssumption DEF CashOf
  <2>2. ledger' = [a \in Accounts |-> ledger[a] + g[a]] /\ UNCHANGED <<runPc, runPayout>>
    BY <1>3 DEF PlacementCommit, runVars
  <2>3. Total(g) = 0
    BY TradeBalances
  <2> HIDE DEF g
  <2>4. Total(ledger) = 0
    BY DEF BalanceInv, LedgerBalanced
  <2>5. Total(ledger') = 0
    BY <1>1, <2>1, <2>2, <2>3, <2>4, PostingBalances
  <2> QED
    BY <2>2, <2>5 DEF BalanceInv, LedgerBalanced, Total
<1>4. ASSUME NEW r \in Runs, SettleCommit(r)
      PROVE  BalanceInv'
  <2>1. /\ ledger' = [a \in Accounts |-> ledger[a] + runPayout[r][a]]
        /\ runPayout' = runPayout
        /\ \A s \in Runs : runPc'[s] \in {"read", "posted"} => runPc[s] \in {"read", "posted"}
    BY <1>1, <1>4 DEF SettleCommit, RunEnds
  <2>2. Total(ledger) = 0 /\ Total(runPayout[r]) = 0 /\ runPayout[r] \in [Accounts -> Int]
    BY <1>1, <1>4 DEF BalanceInv, LedgerBalanced, SettleCommit
  <2>3. Total(ledger') = 0
    BY <1>1, <2>1, <2>2, PostingBalances
  <2> QED
    BY <2>1, <2>3 DEF BalanceInv, LedgerBalanced, Total
<1>5. ASSUME NEW r \in Runs,
             \/ SettleRead(r) \/ SettleBegin(r) \/ SettleCompute(r) \/ SettleReadBalances(r)
             \/ SettlePost(r) \/ SettleUnbalanced(r) \/ SettleFails(r)
      PROVE  BalanceInv'
  <2>1. ledger' = ledger
    BY <1>5 DEF SettleRead, SettleBegin, SettleCompute, SettleReadBalances, SettlePost,
       SettleUnbalanced, SettleFails, RunFails, moneyVars
  <2>2. \A s \in Runs \ {r} : runPc'[s] = runPc[s] /\ runPayout'[s] = runPayout[s]
    BY <1>1, <1>5 DEF SettleRead, SettleBegin, SettleCompute, SettleReadBalances, SettlePost,
       SettleUnbalanced, SettleFails, RunFails
  <2>3. runPc'[r] \in {"read", "posted"} =>
            runPayout'[r] = runPayout[r] /\ Total(runPayout[r]) = 0
    <3>1. CASE SettleRead(r) \/ SettleBegin(r) \/ SettleCompute(r) \/ SettleUnbalanced(r)
               \/ SettleFails(r)
      BY <1>1, <3>1 DEF SettleRead, SettleBegin, SettleCompute, SettleUnbalanced, SettleFails,
         RunFails, RunEnds
    <3>2. CASE SettleReadBalances(r)
      BY <3>2 DEF SettleReadBalances, Balanced
    <3>3. CASE SettlePost(r)
      BY <3>3 DEF SettlePost, BalanceInv
    <3> QED
      BY <1>5, <3>1, <3>2, <3>3
  <2> QED
    BY <2>1, <2>2, <2>3 DEF BalanceInv, LedgerBalanced, Total
<1>6. ASSUME NEW p \in Placements, PlacementStep(p), ~PlacementCommit(p)
      PROVE  UNCHANGED <<ledger, runPc, runPayout>>
  BY <1>6 DEF PlacementStep, PlacementAdmit, PlacementRead, PlacementPost, PlacementAbort,
     moneyVars, runVars
<1>7. CASE \/ \E c \in Calls : Operate(c)
           \/ Scan \/ (\E j \in ManualJobs : EnqueueSettlement(j)) \/ (\E j \in Jobs : TakeJob(j))
           \/ UNCHANGED vars
  BY <1>2, <1>7 DEF Operate, Scan, EnqueueSettlement, TakeJob, vars, moneyVars, runVars
<1> QED
  BY <1>2, <1>3, <1>4, <1>5, <1>6, <1>7 DEF Next, SettleStep

\* Trades and settlements together create no money, whatever fails or is retried: a
\* settlement of positions that do not cancel out is refused, not posted.
THEOREM NoMoneyIsMade == Spec => []LedgerBalanced
<1>1. Init => TypeOK /\ IInv /\ BalanceInv
  BY TypeInit, InitIInv, BalanceInit
<1>2. TypeOK /\ IInv /\ BalanceInv /\ [Next]_vars => (TypeOK /\ IInv /\ BalanceInv)'
  BY TypeStep, StepRefines, BalanceStep
<1>3. BalanceInv => LedgerBalanced
  BY DEF BalanceInv
<1> QED
  BY <1>1, <1>2, <1>3, PTL DEF Spec
=============================================================================
