----------------------------- MODULE Settlement -----------------------------
(***************************************************************************)
(* Settling one market: SettlementService.settleMarket, the BullMQ queue   *)
(* and worker that retry it, the calls that run it outside the queue, the  *)
(* placements that may still be in flight when it runs, and the handlers   *)
(* of MarketLifecycle that change the rows it reads.                       *)
(*                                                                         *)
(* A placement is taken from OrderPlacement with its effect fixed: the     *)
(* deal it makes.  Position and value of a contract stand for both kinds   *)
(* of market: quantity and index value of a future, yesShares - noShares   *)
(* and 1 (YES) or -1 (NO) of a binary market.                              *)
(***************************************************************************)
EXTENDS Integers, FiniteSets, Functions

CONSTANTS Calls, CallKind, Values, NoValue, Futures   \* see MarketLifecycle

CONSTANTS
    Accounts,
    OpeningBalance,      \* OpeningBalance[a]
    ContractMultiplier,
    Placements,          \* placements in this market
    Deal,                \* Deal[p]: buyer, seller, price and quantity of p's trade
    ScanJob,             \* the job the scan adds, its id is the market's
    ManualJobs,          \* jobs the operator adds, each with an id of its own
    Direct,              \* runs outside the queue: admin fallback, backfill script
    Attempts,            \* attempts a job has
    MaxFailures          \* bound: transient failures of runs

Jobs == {ScanJob} \cup ManualJobs
Runs == Jobs \cup Direct

ASSUME SettlementAssumption ==
    /\ IsFiniteSet(Accounts)
    /\ OpeningBalance \in [Accounts -> Int]
    /\ Deal \in [Placements -> [buyer : Accounts, seller : Accounts,
                                price : Nat, quantity : Nat]]
    /\ ContractMultiplier \in Int
    /\ Attempts \in Nat /\ MaxFailures \in Nat
    /\ Jobs \cap Direct = {} /\ ScanJob \notin ManualJobs

VARIABLES state, result, observation, callPc, callSaw, callValue

VARIABLES
    position,      \* net contracts per account, table positions
    balance,       \* column accounts.balance
    ledger,        \* credits minus debits of the committed journal lines
    audited,       \* sum of the delta column of settlement_audits
    statusRow,     \* column settlement_status.state, "NONE" without a row
    placementPc,
    placementSeen, \* account balances a placement's postJournal has read
    job,           \* state of each job of the queue
    attempt,       \* failed attempts of each job
    runPc,         \* where each run of settleMarket is
    runValue,      \* the oracle result a run has read
    runPayout,     \* the payouts a run has computed
    runSeen,       \* account balances a run's postJournal has read
    failures,      \* counts transient failures
    missed         \* history: placements that committed too late for a settlement

Lifecycle == INSTANCE MarketLifecycle

ASSUME CallsAssumption == Lifecycle!LifecycleAssumption

lifecycleVars == <<state, result, observation, callPc, callSaw, callValue>>
moneyVars == <<position, balance, ledger, missed>>
placementVars == <<placementPc, placementSeen>>
queueVars == <<job, attempt, failures>>
runVars == <<runPc, runValue, runPayout, runSeen>>
vars == <<lifecycleVars, moneyVars, audited, statusRow, placementVars, queueVars, runVars>>

NoDeltas == [a \in Accounts |-> 0]

Total(f) == SumFunctionOnSet(f, Accounts)

\* Runs between the upsert of the status row and the end of their transaction.
InTransaction == {"running", "computed", "read", "posted"}

Init ==
    /\ Lifecycle!Init
    /\ position = NoDeltas
    /\ balance = OpeningBalance
    /\ ledger = NoDeltas
    /\ audited = NoDeltas
    /\ statusRow = "NONE"
    /\ placementPc = [p \in Placements |-> "new"]
    /\ placementSeen = [p \in Placements |-> NoDeltas]
    /\ job = [j \in Jobs |-> "absent"]
    /\ attempt = [j \in Jobs |-> 0]
    /\ runPc = [r \in Runs |-> "idle"]
    /\ runValue = [r \in Runs |-> NoValue]
    /\ runPayout = [r \in Runs |-> NoDeltas]
    /\ runSeen = [r \in Runs |-> NoDeltas]
    /\ failures = 0
    /\ missed = {}

\* A step of open, lock, resolve or ingest.
Operate(c) ==
    /\ Lifecycle!CallStep(c)
    /\ UNCHANGED <<moneyVars, audited, statusRow, placementVars, queueVars, runVars>>

-----------------------------------------------------------------------------
(* Placements, as OrderPlacement has them *)

\* What the deal of p adds to the balance of a.
CashOf(p, a) ==
    LET cost == Deal[p].price * Deal[p].quantity
    IN  (IF a = Deal[p].seller THEN cost ELSE 0) - (IF a = Deal[p].buyer THEN cost ELSE 0)

\* What it adds to the position of a; of a trade of an account with itself the
\* handler keeps the seller's side only.
MoveOf(p, a) ==
    CASE a = Deal[p].seller -> -Deal[p].quantity
      [] a = Deal[p].buyer /\ a # Deal[p].seller -> Deal[p].quantity
      [] OTHER -> 0

PlacementAdmit(p) ==
    /\ placementPc[p] = "new"
    /\ state = "OPEN"
    /\ placementPc' = [placementPc EXCEPT ![p] = "admitted"]
    /\ UNCHANGED <<lifecycleVars, moneyVars, audited, statusRow, placementSeen, queueVars, runVars>>

\* The market's advisory lock, matching, and the read of the balances.
PlacementRead(p) ==
    /\ placementPc[p] = "admitted"
    /\ \A q \in Placements : placementPc[q] \notin {"read", "posted"}
    /\ placementPc' = [placementPc EXCEPT ![p] = "read"]
    /\ placementSeen' = [placementSeen EXCEPT ![p] = balance]
    /\ UNCHANGED <<lifecycleVars, moneyVars, audited, statusRow, queueVars, runVars>>

\* Transactions that hold row locks on the accounts a journal of deltas f updates.
AccountsLocked(f) ==
    \/ \E p \in Placements : /\ placementPc[p] = "posted"
                             /\ \E a \in Accounts : f[a] # 0 /\ CashOf(p, a) # 0
    \/ \E r \in Runs : /\ runPc[r] = "posted"
                       /\ \E a \in Accounts : f[a] # 0 /\ runPayout[r][a] # 0

PlacementPost(p) ==
    /\ placementPc[p] = "read"
    /\ ~AccountsLocked([a \in Accounts |-> CashOf(p, a)])
    /\ placementPc' = [placementPc EXCEPT ![p] = "posted"]
    /\ UNCHANGED <<lifecycleVars, moneyVars, audited, statusRow, placementSeen, queueVars, runVars>>

\* A settlement that has read the positions, or has been completed, will not pay
\* for this placement.
TooLate == statusRow = "COMPLETE" \/ \E r \in Runs : runPc[r] \in {"computed", "read", "posted"}

PlacementCommit(p) ==
    /\ placementPc[p] = "posted"
    /\ placementPc' = [placementPc EXCEPT ![p] = "ended"]
    /\ position' = [a \in Accounts |-> position[a] + MoveOf(p, a)]
    /\ balance' = [a \in Accounts |->
            IF CashOf(p, a) # 0 THEN placementSeen[p][a] + CashOf(p, a) ELSE balance[a]]
    /\ ledger' = [a \in Accounts |-> ledger[a] + CashOf(p, a)]
    /\ missed' = IF TooLate THEN missed \cup {p} ELSE missed
    /\ UNCHANGED <<lifecycleVars, audited, statusRow, placementSeen, queueVars, runVars>>

PlacementAbort(p) ==
    /\ placementPc[p] \in {"admitted", "read", "posted"}
    /\ placementPc' = [placementPc EXCEPT ![p] = "ended"]
    /\ UNCHANGED <<lifecycleVars, moneyVars, audited, statusRow, placementSeen, queueVars, runVars>>

-----------------------------------------------------------------------------
(* The queue: the worker runs one job at a time *)

WorkerIdle == \A j \in Jobs : job[j] # "active"

\* The cron's scan job.  A job whose id the queue still knows is not added again,
\* and completed and failed jobs stay known.
Scan ==
    /\ WorkerIdle
    /\ state \in {"LOCKED", "RESOLVED"}
    /\ result # NoValue
    /\ statusRow # "COMPLETE"
    /\ job[ScanJob] = "absent"
    /\ job' = [job EXCEPT ![ScanJob] = "waiting"]
    /\ UNCHANGED <<lifecycleVars, moneyVars, audited, statusRow, placementVars,
                   attempt, failures, runVars>>

\* POST /admin/settlements/:marketId/run
EnqueueSettlement(j) ==
    /\ j \in ManualJobs
    /\ job[j] = "absent"
    /\ job' = [job EXCEPT ![j] = "waiting"]
    /\ UNCHANGED <<lifecycleVars, moneyVars, audited, statusRow, placementVars,
                   attempt, failures, runVars>>

TakeJob(j) ==
    /\ job[j] = "waiting"
    /\ WorkerIdle
    /\ job' = [job EXCEPT ![j] = "active"]
    /\ UNCHANGED <<lifecycleVars, moneyVars, audited, statusRow, placementVars,
                   attempt, failures, runVars>>

\* What the end of run r makes of its job: done, or put back until its attempts
\* are used up.  Direct runs have no job.
JobSucceeds(r) ==
    /\ job' = IF r \in Jobs THEN [job EXCEPT ![r] = "completed"] ELSE job
    /\ UNCHANGED attempt

JobFails(r) ==
    IF r \in Jobs
    THEN /\ attempt' = [attempt EXCEPT ![r] = @ + 1]
         /\ job' = [job EXCEPT ![r] = IF attempt'[r] < Attempts THEN "waiting" ELSE "failed"]
    ELSE UNCHANGED <<job, attempt>>

-----------------------------------------------------------------------------
(* settleMarket *)

Started(r) == IF r \in Jobs THEN job[r] = "active" ELSE TRUE

\* Mutants of AlreadySettled and MaySettle: a completed settlement is not
\* recognized, the oracle result is not asked for, only resolved markets are taken.
NeverSettled == FALSE
MaySettleUnresolved == state \in {"LOCKED", "RESOLVED", "SETTLED"}
MaySettleResolved == result # NoValue /\ state = "RESOLVED"

AlreadySettled == statusRow = "COMPLETE"

MaySettle == result # NoValue /\ state \in {"LOCKED", "RESOLVED", "SETTLED"}

RunEnds(r) == IF r \in Jobs THEN "idle" ELSE "ended"

\* The read of the market with its result and status, before the transaction:
\* the run goes on, has nothing to do, or throws.
SettleRead(r) ==
    /\ Started(r)
    /\ runPc[r] = "idle"
    /\ \/ /\ MaySettle /\ ~AlreadySettled
          /\ runPc' = [runPc EXCEPT ![r] = "ready"]
          /\ runValue' = [runValue EXCEPT ![r] = result]
          /\ UNCHANGED <<job, attempt>>
       \/ /\ result # NoValue /\ AlreadySettled
          /\ runPc' = [runPc EXCEPT ![r] = RunEnds(r)]
          /\ JobSucceeds(r)
          /\ UNCHANGED runValue
       \/ /\ ~MaySettle /\ ~(result # NoValue /\ AlreadySettled)
          /\ runPc' = [runPc EXCEPT ![r] = RunEnds(r)]
          /\ JobFails(r)
          /\ UNCHANGED runValue
    /\ UNCHANGED <<lifecycleVars, moneyVars, audited, statusRow, placementVars, failures,
                   runPayout, runSeen>>

\* The upsert of the status row to RUNNING waits for a transaction that wrote it;
\* nobody sees RUNNING, because only the commit would show it.
SettleBegin(r) ==
    /\ runPc[r] = "ready"
    /\ \A s \in Runs : runPc[s] \notin InTransaction
    /\ runPc' = [runPc EXCEPT ![r] = "running"]
    /\ UNCHANGED <<lifecycleVars, moneyVars, audited, statusRow, placementVars, queueVars,
                   runValue, runPayout, runSeen>>

Payout(r) == [a \in Accounts |-> ContractMultiplier * runValue[r] * position[a]]

\* The committed positions, and the payouts they give.
SettleCompute(r) ==
    /\ runPc[r] = "running"
    /\ runPc' = [runPc EXCEPT ![r] = "computed"]
    /\ runPayout' = [runPayout EXCEPT ![r] = Payout(r)]
    /\ UNCHANGED <<lifecycleVars, moneyVars, audited, statusRow, placementVars, queueVars,
                   runValue, runSeen>>

\* Mutant of Balanced: journals are not checked.
BalancedUnchecked(f) == TRUE

\* postJournal refuses lines whose debits and credits differ.
Balanced(f) == Total(f) = 0

SettleReadBalances(r) ==
    /\ runPc[r] = "computed"
    /\ Balanced(runPayout[r])
    /\ runPc' = [runPc EXCEPT ![r] = "read"]
    /\ runSeen' = [runSeen EXCEPT ![r] = balance]
    /\ UNCHANGED <<lifecycleVars, moneyVars, audited, statusRow, placementVars, queueVars,
                   runValue, runPayout>>

\* The account rows are updated, which locks them.
SettlePost(r) ==
    /\ runPc[r] = "read"
    /\ ~AccountsLocked(runPayout[r])
    /\ runPc' = [runPc EXCEPT ![r] = "posted"]
    /\ UNCHANGED <<lifecycleVars, moneyVars, audited, statusRow, placementVars, queueVars,
                   runValue, runPayout, runSeen>>

\* Audit rows, the market and the status row are written, and all is committed.
SettleCommit(r) ==
    /\ runPc[r] = "posted"
    /\ runPc' = [runPc EXCEPT ![r] = RunEnds(r)]
    /\ balance' = [a \in Accounts |->
            IF runPayout[r][a] # 0 THEN runSeen[r][a] + runPayout[r][a] ELSE balance[a]]
    /\ ledger' = [a \in Accounts |-> ledger[a] + runPayout[r][a]]
    /\ audited' = [a \in Accounts |-> audited[a] + runPayout[r][a]]
    /\ state' = "SETTLED"
    /\ statusRow' = "COMPLETE"
    /\ JobSucceeds(r)
    /\ UNCHANGED <<result, observation, callPc, callSaw, callValue, position, missed,
                   placementVars, failures, runValue, runPayout, runSeen>>

\* Mutant of StatusAfterFailure: FAILED is written by a transaction of its own.
StatusAfterFailureKept == "FAILED"

\* The handler writes FAILED in the transaction that it then rolls back.
StatusAfterFailure == statusRow

RunFails(r) ==
    /\ runPc' = [runPc EXCEPT ![r] = RunEnds(r)]
    /\ statusRow' = StatusAfterFailure
    /\ JobFails(r)
    /\ UNCHANGED <<lifecycleVars, moneyVars, audited, placementVars, runValue, runPayout, runSeen>>

\* The journal does not balance.
SettleUnbalanced(r) ==
    /\ runPc[r] = "computed"
    /\ ~Balanced(runPayout[r])
    /\ RunFails(r)
    /\ UNCHANGED failures

\* The database is not reachable, the transaction times out, the worker stops.
SettleFails(r) ==
    /\ runPc[r] \in {"ready"} \cup InTransaction
    /\ failures < MaxFailures
    /\ failures' = failures + 1
    /\ RunFails(r)

-----------------------------------------------------------------------------
PlacementStep(p) ==
    \/ PlacementAdmit(p)
    \/ PlacementRead(p)
    \/ PlacementPost(p)
    \/ PlacementCommit(p)
    \/ PlacementAbort(p)

SettleStep(r) ==
    \/ SettleRead(r)
    \/ SettleBegin(r)
    \/ SettleCompute(r)
    \/ SettleReadBalances(r)
    \/ SettlePost(r)
    \/ SettleCommit(r)
    \/ SettleUnbalanced(r)

Next ==
    \/ \E c \in Calls : Operate(c)
    \/ \E p \in Placements : PlacementStep(p)
    \/ Scan
    \/ \E j \in ManualJobs : EnqueueSettlement(j)
    \/ \E j \in Jobs : TakeJob(j)
    \/ \E r \in Runs : SettleStep(r) \/ SettleFails(r)

Spec == Init /\ [][Next]_vars

\* The cron fires every minute, the worker takes what waits and carries it on, and
\* a placement that has started is carried on.  SettlePost and TakeJob wait for
\* others that may come first again and again: strong fairness.
Fairness ==
    /\ WF_vars(Scan)
    /\ \A j \in Jobs : SF_vars(TakeJob(j))
    /\ \A r \in Runs : SF_vars(SettleStep(r))
    /\ \A p \in Placements : WF_vars(PlacementPost(p) \/ PlacementCommit(p))

FairSpec == Spec /\ Fairness

-----------------------------------------------------------------------------
(* Properties that hold *)

\* Types of the rows, the queue and the runs.
MoneyTypes ==
    /\ {position, balance, ledger, audited} \subseteq [Accounts -> Int]
    /\ statusRow \in {"NONE", "COMPLETE"}
    /\ placementPc \in [Placements -> {"new", "admitted", "read", "posted", "ended"}]
    /\ placementSeen \in [Placements -> [Accounts -> Int]]
    /\ missed \subseteq Placements

QueueTypes ==
    /\ job \in [Jobs -> {"absent", "waiting", "active", "completed", "failed"}]
    /\ attempt \in [Jobs -> Nat]
    /\ failures \in 0 .. MaxFailures

RunTypes ==
    /\ runPc \in [Runs -> {"idle", "ready", "ended"} \cup InTransaction]
    /\ runValue \in [Runs -> Values \cup {NoValue}]
    /\ runPayout \in [Runs -> [Accounts -> Int]]
    /\ runSeen \in [Runs -> [Accounts -> Int]]

TypeOK == Lifecycle!TypeOK /\ MoneyTypes /\ QueueTypes /\ RunTypes

\* The life cycle's promise is kept by the detailed settlement: settleMarket, its
\* retries and its failures show to the other handlers as Settle or not at all.
ImplementsLifecycle == Lifecycle!Spec

\* Every journal balances: trades and settlements together create no money, even
\* when positions do not cancel out because an account traded with itself.
LedgerBalanced == Total(ledger) = 0

\* A completed settlement is never taken back by a later run that fails.
CompleteIsFinal == [][statusRow = "COMPLETE" => statusRow' = "COMPLETE"]_vars

PaidFor(f) == \E v \in Values : \A a \in Accounts : f[a] = ContractMultiplier * v * position[a]

\* As long as nothing settles outside the queue, however jobs are added, retried and
\* fail half-way, a settlement pays every account once, for its whole position, at
\* one value, unless a placement committed after the positions were read.
PaidOncePerPosition ==
    /\ \A r \in Direct : runPc[r] = "idle"
    /\ statusRow = "COMPLETE"
    /\ missed = {}
    => PaidFor(audited)

\* A locked market with a result is settled in the end, when no job fails Attempts
\* times and no account traded with itself.
SettlesEventually ==
    result # NoValue /\ state \in {"LOCKED", "RESOLVED"} ~> statusRow = "COMPLETE"

-----------------------------------------------------------------------------
(* Statements of the documentation that the code does not keep *)

\* settlement.ts: idempotent when already COMPLETE; here for concurrent runs.
SettledOnce == statusRow = "COMPLETE" /\ missed = {} => PaidFor(audited)
=============================================================================
