---------------------------- MODULE OraclePipeline ----------------------------
(***************************************************************************)
(* From the seeded markets to their results: the daily job of the worker   *)
(* fetches observations for LOCKED markets, writes one file per index, and *)
(* then ingests all files there are.                                       *)
(*                                                                         *)
(* A market is named by its index, which the seeds make unique.  A value   *)
(* is the set of days it was computed from.  Module MarketLifecycle has    *)
(* the operator's own resolving, JobLock the lock of the job.              *)
(***************************************************************************)
EXTENDS Integers, FiniteSets

CONSTANTS
    Stations, Metrics,   \* of the weather bureau
    Regions,             \* of the electricity market
    WeekLength, MonthLength,
    SeedWeeks, SeedDays, \* environment of the seeding scripts
    Lockable,            \* markets the operator locks
    Window,              \* days that the bureau's product shows
    LastDay,             \* bound of the calendar
    MaxFailures          \* bound of failed statements, requests and processes

ASSUME PipelineAssumption ==
    {WeekLength, MonthLength, SeedWeeks, SeedDays, Window, LastDay} \subseteq Nat \ {0}

VARIABLES
    day,          \* the calendar; seeding was on day 1
    state,        \* column markets.state, by index
    observation,  \* table oracle_observations, {} where there is no row
    result,       \* table oracle_results
    file,         \* the JSON files of the data directory
    jobPc,        \* where the job is
    asks,         \* bomPairs: stations and dates still to fetch
    dates,        \* aemoByDate: the regions still to fetch for a date
    unread,       \* files still to ingest
    current,      \* the index of the file being ingested
    saw,          \* the state its market was read in; both are reset between files
    leaked,       \* the job's lock stayed behind on another connection
    failures

jobVars == <<jobPc, asks, dates, unread, current, saw>>
vars == <<day, state, observation, result, file, jobVars, leaked, failures>>

Index ==
    [source : {"bom"}, place : Stations, metric : Metrics,
     period : {"daily", "weekly", "monthly"}, ends : Nat]
    \cup [source : {"aemo"}, place : Regions, metric : {"rrp"},
          period : {"daily", "weekly", "monthly"}, ends : Nat]

-----------------------------------------------------------------------------
(* The calendar and the seeds *)

\* The last day of the period of d, where periods have n days and the first begins on 1.
EndOf(d, n) == ((d + n - 1) \div n) * n

\* getWeekEnding: the Sunday of the week of d.
WeekEnding(d) == EndOf(d, WeekLength)

UpcomingDays(today, n) == {today + i : i \in 1..n}
UpcomingWeekEndings(today, n) == {WeekEnding(today) + (i - 1) * WeekLength : i \in 1..n}
UpcomingMonthEndings(today, n) == {EndOf(today, MonthLength) + (i - 1) * MonthLength : i \in 1..n}

Weather(period, ends) ==
    {[source |-> "bom", place |-> s, metric |-> k, period |-> period, ends |-> e] :
        s \in Stations, k \in Metrics, e \in ends}
Power(period, ends) ==
    {[source |-> "aemo", place |-> r, metric |-> "rrp", period |-> period, ends |-> e] :
        r \in Regions, e \in ends}

\* seed-markets: two days, two weeks and two months of everything.
SeedMarkets(today) ==
    UNION {Weather(p[1], p[2]) \cup Power(p[1], p[2]) :
        p \in {<<"daily", UpcomingDays(today, 2)>>, <<"weekly", UpcomingWeekEndings(today, 2)>>,
               <<"monthly", UpcomingMonthEndings(today, 2)>>}}

\* seed-bom-weekly, then seed-aemo-daily-rrp, which begins with today.
SeedWeekliesAndDailies(today) ==
    Weather("weekly", UpcomingWeekEndings(today, SeedWeeks))
    \cup Power("daily", UpcomingDays(today - 1, SeedDays))

Markets == DOMAIN state

NoIndex == [source |-> "none"]

Init ==
    /\ day = 1
    /\ \E seeds \in {SeedMarkets(day), SeedWeekliesAndDailies(day)} :
        /\ state = [m \in seeds |-> "OPEN"]
        /\ observation = [m \in seeds |-> {}]
        /\ result = [m \in seeds |-> {}]
    /\ file = [i \in {} |-> {}]
    /\ jobPc = "off"
    /\ asks = {}
    /\ dates = {}
    /\ unread = {}
    /\ current = NoIndex
    /\ saw = "OPEN"
    /\ leaked = FALSE
    /\ failures = 0

-----------------------------------------------------------------------------
(* What the sources offer *)

\* The bureau's product has the last days, today included.
Shown == (day - Window + 1)..day

\* The dispatch archive has a day once it is over.
Archived(date) == date < day

-----------------------------------------------------------------------------
(* The fetching half of the job *)

\* parseBomWeeklyIndexId takes any index that ends in a full date, daily ones too.
ReadsAsWeather(m) == m.source = "bom" /\ m.period # "monthly"
ReadsAsPower(m) == m.source = "aemo" /\ m.period = "daily"

IsTarget(m) == state[m] = "LOCKED" /\ observation[m] = {}

\* The cron fires and gets the lock, also where it leaked, on the connection that has it.
Begin ==
    LET targets == {m \in Markets : IsTarget(m)}
        powers == {m \in targets : ReadsAsPower(m)}
    IN  /\ jobPc = "off"
        /\ jobPc' = "fetching"
        /\ asks' = {[station |-> m.place, ends |-> m.ends] :
                        m \in {n \in targets : ReadsAsWeather(n)}}
        /\ dates' = {[date |-> p.ends, regions |-> {m.place : m \in {n \in powers : n.ends = p.ends}}] :
                        p \in powers}
        /\ UNCHANGED <<day, state, observation, result, file, unread, current, saw, leaked, failures>>

Written(files) ==
    [i \in DOMAIN file \cup DOMAIN files |-> IF i \in DOMAIN files THEN files[i] ELSE file[i]]

\* Mutant of WeekBounds: a week reaches back to the Sunday before.
WeekBoundsSunday(ends) == (ends - WeekLength)..ends

\* getWeekBounds: seven days up to the date asked for.
WeekBounds(ends) == (ends - WeekLength + 1)..ends

\* The files of all weekly indexes of the station in the week of the date.
WeatherFiles(ask) ==
    LET found == WeekBounds(ask.ends) \cap Shown
    IN  [i \in (IF found = {} THEN {}
                ELSE {w \in Weather("weekly", {WeekEnding(ask.ends)}) : w.place = ask.station})
            |-> found]

\* fetchBomForStationWeek; an error is collected and the loop goes on.
FetchWeather ==
    /\ jobPc = "fetching"
    /\ \E ask \in asks :
        /\ asks' = asks \ {ask}
        /\ \/ file' = Written(WeatherFiles(ask)) /\ UNCHANGED failures
           \/ failures < MaxFailures /\ failures' = failures + 1 /\ UNCHANGED file
    /\ UNCHANGED <<day, state, observation, result, jobPc, dates, unread, current, saw, leaked>>

PowerFiles(of) ==
    [i \in (IF Archived(of.date) THEN {p \in Power("daily", {of.date}) : p.place \in of.regions}
            ELSE {}) |-> {of.date}]

\* fetchAemoDailyForRegionsAndDate, once the weather is done.
FetchPower ==
    /\ jobPc = "fetching"
    /\ asks = {}
    /\ \E of \in dates :
        /\ dates' = dates \ {of}
        /\ \/ file' = Written(PowerFiles(of)) /\ UNCHANGED failures
           \/ failures < MaxFailures /\ failures' = failures + 1 /\ UNCHANGED file
    /\ UNCHANGED <<day, state, observation, result, jobPc, asks, unread, current, saw, leaked>>

-----------------------------------------------------------------------------
(* OracleIngestor.ingestFromFiles *)

ListFiles ==
    /\ jobPc = "fetching"
    /\ asks = {}
    /\ dates = {}
    /\ jobPc' = "ingesting"
    /\ unread' = DOMAIN file
    /\ UNCHANGED <<day, state, observation, result, file, asks, dates, current, saw, leaked, failures>>

\* A file whose market is not there is an error, and the next file is taken.
ReadFile ==
    /\ jobPc = "ingesting"
    /\ \E i \in unread :
        /\ unread' = unread \ {i}
        /\ IF i \in Markets
           THEN jobPc' = "read" /\ current' = i /\ saw' = state[i]
           ELSE UNCHANGED <<jobPc, current, saw>>
    /\ UNCHANGED <<day, state, observation, result, file, asks, dates, leaked, failures>>

\* Mutant of TriggersResolve: the state of the market is not looked at.
TriggersResolveAlways == TRUE

\* Mutant of TriggersResolve: an observation that was there does not resolve again.
TriggersResolveOnce == saw = "LOCKED" /\ observation[current] = {}

\* The state tested is the one read before the observation was written.
TriggersResolve == saw = "LOCKED"

NextFile == jobPc' = "ingesting" /\ current' = NoIndex /\ saw' = "OPEN"

Observe ==
    /\ jobPc = "read"
    /\ observation' = [observation EXCEPT ![current] = file[current]]
    /\ IF TriggersResolve THEN jobPc' = "observed" /\ UNCHANGED <<current, saw>> ELSE NextFile
    /\ UNCHANGED <<day, state, result, file, asks, dates, unread, leaked, failures>>

\* triggerResolve: the result first, the market's row after it.
Record ==
    /\ jobPc = "observed"
    /\ result' = [result EXCEPT ![current] = file[current]]
    /\ jobPc' = "recorded"
    /\ UNCHANGED <<day, state, observation, file, asks, dates, unread, current, saw, leaked, failures>>

Update ==
    /\ jobPc = "recorded"
    /\ state' = [state EXCEPT ![current] = "RESOLVED"]
    /\ NextFile
    /\ UNCHANGED <<day, observation, result, file, asks, dates, unread, leaked, failures>>

\* A statement fails; the file's error is collected.
FileFails ==
    /\ failures < MaxFailures
    /\ jobPc \in {"read", "observed", "recorded"}
    /\ NextFile
    /\ failures' = failures + 1
    /\ UNCHANGED <<day, state, observation, result, file, asks, dates, unread, leaked>>

Over ==
    /\ jobPc' = "off"
    /\ asks' = {}
    /\ dates' = {}
    /\ unread' = {}
    /\ current' = NoIndex
    /\ saw' = "OPEN"
    /\ UNCHANGED <<day, state, observation, result, file>>

\* The unlock may be sent on a connection that does not hold the lock.
JobEnds ==
    /\ jobPc = "ingesting"
    /\ unread = {}
    /\ Over
    /\ leaked' \in BOOLEAN
    /\ UNCHANGED failures

\* A query for an archive that cannot be sent is not caught before the whole job ends.
JobFails ==
    /\ failures < MaxFailures
    /\ jobPc = "fetching"
    /\ asks = {} /\ dates # {}
    /\ Over
    /\ leaked' \in BOOLEAN
    /\ failures' = failures + 1

\* The process stops and starts again: its sessions end, its files stay.
WorkerStops ==
    /\ failures < MaxFailures
    /\ jobPc # "off"
    /\ Over
    /\ leaked' = FALSE
    /\ failures' = failures + 1

-----------------------------------------------------------------------------
(* The rest of the system *)

Lock(m) ==
    /\ m \in Markets \cap Lockable
    /\ state[m] = "OPEN"
    /\ state' = [state EXCEPT ![m] = "LOCKED"]
    /\ UNCHANGED <<day, observation, result, file, jobVars, leaked, failures>>

\* The commit of settleMarket; it asks for a result.
Settle(m) ==
    /\ m \in Markets
    /\ result[m] # {}
    /\ state[m] # "SETTLED"
    /\ state' = [state EXCEPT ![m] = "SETTLED"]
    /\ UNCHANGED <<day, observation, result, file, jobVars, leaked, failures>>

Tick ==
    /\ day < LastDay
    /\ day' = day + 1
    /\ UNCHANGED <<state, observation, result, file, jobVars, leaked, failures>>

Job == Begin \/ FetchWeather \/ FetchPower \/ ListFiles \/ ReadFile \/ Observe \/ Record \/ Update \/ JobEnds

Next ==
    \/ Job \/ FileFails \/ JobFails \/ WorkerStops
    \/ \E m \in Lockable : Lock(m) \/ Settle(m)
    \/ Tick

Spec == Init /\ [][Next]_vars

\* Days pass; the cron fires again and, unless its lock leaked, the job goes on.
FairSpec ==
    /\ Spec
    /\ WF_vars(Tick)
    /\ WF_vars(Job /\ (jobPc = "off" => ~leaked))

-----------------------------------------------------------------------------
(* Properties that hold *)

\* The days of a market's own period.
OwnDays(m) == IF m.period = "daily" THEN {m.ends} ELSE (m.ends - WeekLength + 1)..m.ends

\* A locked market for one day makes the job rewrite the files of that day's week.
AskedForADay(w) ==
    \E m \in Markets :
        /\ m.source = "bom" /\ m.period = "daily" /\ m.place = w.place
        /\ WeekEnding(m.ends) = w.ends
        /\ state[m] # "OPEN"

\* Fetching for one market writes the files of others, at any time before or after they
\* are locked, and ingestion takes whatever is there: what is observed for a market are
\* days of its own period, unless a market for a single day of its week was locked.
ObservedOwnDays ==
    \A m \in Markets : ~AskedForADay(m) => observation[m] \subseteq OwnDays(m)

\* Files of resolved markets are rewritten and ingested again every day, with other
\* values: a result stays what it was when the market was resolved.  (A market that is
\* settled while its row still says LOCKED is not covered.)
ResultStays ==
    [][\A m \in Markets : state[m] = "RESOLVED" => result'[m] = result[m]]_vars

\* Whatever fails finitely often between the fetch and the market's row, a locked
\* market of one day's electricity is resolved, as long as the job gets its lock.
ElectricityResolves ==
    \A m \in Power("daily", 1..LastDay - 1) \cap Lockable :
        (m \in Markets /\ state[m] = "LOCKED") ~> (state[m] # "LOCKED" \/ leaked)

-----------------------------------------------------------------------------
(* Statements of the documentation that the code does not keep *)

\* seed-markets.ts: a weekly market settles to a value of its week, Monday to Sunday.
SettlesToItsWeek ==
    \A m \in Markets : m.period = "weekly" => result[m] \subseteq OwnDays(m)
=============================================================================
