------------------------------- MODULE JobLock -------------------------------
(***************************************************************************)
(* withJobLock: a cron job guarded by a PostgreSQL session lock.           *)
(*                                                                         *)
(* A session lock belongs to the connection whose statement took it, and   *)
(* the lock and the unlock are two statements, each sent on any idle       *)
(* connection of the worker's pool.  The connection that holds the lock    *)
(* may take it again; an unlock on a connection that does not hold it does *)
(* nothing.  One job name is modelled: names hash to locks of their own.   *)
(***************************************************************************)
EXTENDS Integers, FiniteSets

CONSTANTS
    Workers,      \* worker processes
    Connections,  \* database connections
    PoolOf,       \* PoolOf[c]: the worker whose pool connection c is in
    Runs,         \* firings of the job's cron
    WorkerOf      \* WorkerOf[r]: the worker in which run r fires

ASSUME PoolsAssumption ==
    /\ PoolOf \in [Connections -> Workers]
    /\ WorkerOf \in [Runs -> Workers]
    /\ IsFiniteSet(Runs)

VARIABLES
    holds,  \* holds[c]: how often the session of connection c has taken the lock
    runPc   \* where each run is

lockVars == <<holds, runPc>>

\* The runs whose lock attempt succeeded and that have not unlocked yet.
Active == {r \in Runs : runPc[r] \in {"running", "releasing"}}

LockInit ==
    /\ holds = [c \in Connections |-> 0]
    /\ runPc = [r \in Runs |-> "due"]

\* Mutant of Grants: the answer of the database is not looked at.
GrantsAlways(c) == TRUE

\* pg_try_advisory_lock on connection c succeeds.
Grants(c) == \A d \in Connections \ {c} : holds[d] = 0

\* The attempt does not wait; without the lock the run is skipped.
TryAcquire(r) ==
    /\ runPc[r] = "due"
    /\ \E c \in Connections :
        /\ PoolOf[c] = WorkerOf[r]
        /\ holds' = IF Grants(c) THEN [holds EXCEPT ![c] = @ + 1] ELSE holds
        /\ runPc' = [runPc EXCEPT ![r] = IF Grants(c) THEN "running" ELSE "skipped"]

\* The job's promise settles, with a result or an error.
Finish(r) ==
    /\ runPc[r] = "running"
    /\ runPc' = [runPc EXCEPT ![r] = "releasing"]
    /\ UNCHANGED holds

\* pg_advisory_unlock on connection c.
AfterUnlock(c) == [holds EXCEPT ![c] = IF @ > 0 THEN @ - 1 ELSE @]

Release(r) ==
    /\ runPc[r] = "releasing"
    /\ \E c \in Connections : PoolOf[c] = WorkerOf[r] /\ holds' = AfterUnlock(c)
    /\ runPc' = [runPc EXCEPT ![r] = "ended"]

\* The process of worker w stops: its sessions end and with them their locks.  It is
\* started again, and runs that are not due yet fire.
SessionsEnd(w) ==
    /\ holds' = [c \in Connections |-> IF PoolOf[c] = w THEN 0 ELSE holds[c]]
    /\ runPc' = [r \in Runs |-> IF WorkerOf[r] = w /\ r \in Active THEN "ended" ELSE runPc[r]]

LockNext ==
    \/ \E r \in Runs : TryAcquire(r) \/ Finish(r) \/ Release(r)
    \/ \E w \in Workers : SessionsEnd(w)

LockSpec == LockInit /\ [][LockNext]_lockVars

-----------------------------------------------------------------------------

\* Types of the lock table and of the runs.
LockTypeOK ==
    /\ holds \in [Connections -> Nat]
    /\ runPc \in [Runs -> {"due", "running", "releasing", "ended", "skipped"}]

\* Locks are given back on the wrong connection, are taken twice by one, and vanish
\* with a process; still the job never runs in two workers at the same time.
WorkersExclude == \A r, s \in Active : WorkerOf[r] = WorkerOf[s]
=============================================================================
