----------------------------- MODULE CallAuction -----------------------------
(***************************************************************************)
(* The hourly call auction: agents submit valuations for the current hour, *)
(* and at every full hour the cron of each worker aggregates the previous  *)
(* one under the job lock.  A mean is kept as a pair of sum and count.     *)
(***************************************************************************)
EXTENDS JobLock, Sequences, FiniteSetsExt

CONSTANTS
    FiresAt,    \* FiresAt[r]: the hour at whose start run r fires
    LastHour,   \* bound of the clock
    Agents, Markets,
    Calls,      \* calls of POST /auction/valuations
    CallAgent,  \* CallAgent[c]: the agent that makes call c
    CallItems   \* CallItems[c]: the sequence of [market, fairValue] of call c

\* The cron of one worker fires once an hour.
ASSUME AuctionAssumption ==
    /\ FiresAt \in [Runs -> Nat \ {0}]
    /\ \A r, s \in Runs : WorkerOf[r] = WorkerOf[s] /\ FiresAt[r] = FiresAt[s] => r = s
    /\ LastHour \in Nat
    /\ IsFiniteSet(Agents)
    /\ CallAgent \in [Calls -> Agents]
    /\ CallItems \in [Calls -> Seq([market : Markets, fairValue : Int])]

VARIABLES
    hour,           \* the clock, in hours
    submission,     \* table valuation_submissions: values per interval, market, agent
    result,         \* table auction_results: [sum, volume] per interval and market
    callPc,         \* "new", "sending", "ended"
    callInterval,   \* the interval a call computed when it began
    sent,           \* how many items of a call are written
    aggregated,     \* runs that have made their query
    aggregate,      \* aggregate[r]: what run r computed and has not written yet
    straddled       \* history: intervals that a call wrote to after their hour

callVars == <<callPc, callInterval, sent>>
jobVars == <<aggregated, aggregate>>
vars == <<lockVars, hour, submission, result, callVars, jobVars, straddled>>

Hours == 0..LastHour
NoResult == [sum |-> 0, volume |-> 0]
Nothing == [m \in {} |-> NoResult]

Init ==
    /\ LockInit
    /\ hour = 0
    /\ submission = [h \in Hours |-> [m \in Markets |-> [a \in {} |-> 0]]]
    /\ result = [h \in Hours |-> [m \in Markets |-> NoResult]]
    /\ callPc = [c \in Calls |-> "new"]
    /\ callInterval = [c \in Calls |-> 0]
    /\ sent = [c \in Calls |-> 0]
    /\ aggregated = {}
    /\ aggregate = [r \in Runs |-> Nothing]
    /\ straddled = {}

-----------------------------------------------------------------------------
(* POST /auction/valuations *)

SubmitBegin(c) ==
    /\ callPc[c] = "new"
    /\ callPc' = [callPc EXCEPT ![c] = "sending"]
    /\ callInterval' = [callInterval EXCEPT ![c] = hour]
    /\ UNCHANGED <<lockVars, hour, submission, result, sent, jobVars, straddled>>

\* One upsert per item, each awaited; the interval is the one computed first.
SubmitItem(c) ==
    /\ callPc[c] = "sending"
    /\ sent[c] < Len(CallItems[c])
    /\ LET item == CallItems[c][sent[c] + 1]
           h == callInterval[c]
           old == submission[h][item.market]
       IN  /\ submission' = [submission EXCEPT ![h][item.market] =
                [a \in DOMAIN old \cup {CallAgent[c]} |->
                    IF a = CallAgent[c] THEN item.fairValue ELSE old[a]]]
           /\ straddled' = straddled \cup (IF hour > h THEN {h} ELSE {})
    /\ sent' = [sent EXCEPT ![c] = @ + 1]
    /\ UNCHANGED <<lockVars, hour, result, callPc, callInterval, jobVars>>

\* The answer 201, or an error that leaves the items written before it.
SubmitEnd(c) ==
    /\ callPc[c] = "sending"
    /\ callPc' = [callPc EXCEPT ![c] = "ended"]
    /\ UNCHANGED <<lockVars, hour, submission, result, callInterval, sent, jobVars, straddled>>

-----------------------------------------------------------------------------
(* The job *)

\* The cron fires at the start of the hour and asks for the lock at once.
Fire(r) ==
    /\ FiresAt[r] = hour
    /\ TryAcquire(r)
    /\ UNCHANGED <<hour, submission, result, callVars, jobVars, straddled>>

\* Mutant of IntervalOf: the hour is not subtracted.
IntervalOfNow(r) == FiresAt[r]

\* The hour before the one in which the run fired.
IntervalOf(r) == FiresAt[r] - 1

Aggregated(of) ==
    [sum |-> FoldSet(LAMBDA a, s : of[a] + s, 0, DOMAIN of), volume |-> Cardinality(DOMAIN of)]

\* runAuctionForInterval: one query, then a mean and a count per market that has
\* submissions.
Aggregate(r) ==
    /\ runPc[r] = "running"
    /\ r \notin aggregated
    /\ aggregated' = aggregated \cup {r}
    /\ LET of == submission[IntervalOf(r)]
       IN  aggregate' = [aggregate EXCEPT ![r] =
               [m \in {n \in Markets : DOMAIN of[n] # {}} |-> Aggregated(of[m])]]
    /\ UNCHANGED <<lockVars, hour, submission, result, callVars, straddled>>

\* persistAndReturn: one awaited upsert per market.
Persist(r) ==
    /\ runPc[r] = "running"
    /\ \E m \in DOMAIN aggregate[r] :
        /\ result' = [result EXCEPT ![IntervalOf(r)][m] = aggregate[r][m]]
        /\ aggregate' = [aggregate EXCEPT ![r] =
                [n \in DOMAIN aggregate[r] \ {m} |-> aggregate[r][n]]]
    /\ UNCHANGED <<lockVars, hour, submission, callVars, aggregated, straddled>>

\* Mutant of JobEnds: a job that fails does not unlock.
JobEndsNoFinally(r) ==
    /\ runPc[r] = "running"
    /\ runPc' = [runPc EXCEPT ![r] = "ended"]
    /\ aggregate' = [aggregate EXCEPT ![r] = Nothing]
    /\ UNCHANGED <<holds, hour, submission, result, callVars, aggregated, straddled>>

\* The job ends, or fails at any statement; what it still had to write is dropped.
JobEnds(r) ==
    /\ Finish(r)
    /\ aggregate' = [aggregate EXCEPT ![r] = Nothing]
    /\ UNCHANGED <<hour, submission, result, callVars, aggregated, straddled>>

Unlock(r) ==
    /\ Release(r)
    /\ UNCHANGED <<hour, submission, result, callVars, jobVars, straddled>>

WorkerStops(w) ==
    /\ SessionsEnd(w)
    /\ aggregate' = [r \in Runs |-> IF WorkerOf[r] = w THEN Nothing ELSE aggregate[r]]
    /\ UNCHANGED <<hour, submission, result, callVars, aggregated, straddled>>

Tick ==
    /\ hour < LastHour
    /\ hour' = hour + 1
    /\ UNCHANGED <<lockVars, submission, result, callVars, jobVars, straddled>>

Next ==
    \/ \E c \in Calls : SubmitBegin(c) \/ SubmitItem(c) \/ SubmitEnd(c)
    \/ \E r \in Runs : Fire(r) \/ Aggregate(r) \/ Persist(r) \/ JobEnds(r) \/ Unlock(r)
    \/ \E w \in Workers : WorkerStops(w)
    \/ Tick

Spec == Init /\ [][Next]_vars

-----------------------------------------------------------------------------
(* Properties that hold *)

\* Two workers may aggregate one interval, one after the other, and submissions may
\* come in between: a published result is never replaced by one of fewer submissions.
VolumeNeverShrinks ==
    [][\A h \in Hours, m \in Markets : result'[h][m].volume >= result[h][m].volume]_vars

\* The interval is read once its hour is over: unless a call was still writing to it,
\* a result that is there is the mean of all that was submitted.
ResultIsComplete ==
    \A h \in Hours \ straddled, m \in Markets :
        result[h][m] # NoResult => result[h][m] = Aggregated(submission[h][m])

\* The auction's workers use the lock as withJobLock does.
UsesJobLock == LockSpec
=============================================================================
