------------------------- MODULE OraclePipelineProofs -------------------------
(***************************************************************************)
(* The result of a resolved market stays, and what is observed for a       *)
(* market are its own days, for any lengths of the calendar and any seeds. *)
(***************************************************************************)
EXTENDS OraclePipeline, TLAPS

\* Rows are kept for the seeded markets.  The job works on the file of one of them,
\* and one it saw locked was not resolved by anybody since: only the job resolves.
PipelineInv ==
    /\ state \in [Markets -> {"OPEN", "LOCKED", "RESOLVED", "SETTLED"}]
    /\ result = [m \in Markets |-> result[m]]
    /\ jobPc \in {"read", "observed", "recorded"} =>
        /\ current \in Markets
        /\ saw = "LOCKED" => state[current] \in {"LOCKED", "SETTLED"}
    /\ jobPc \in {"observed", "recorded"} => saw = "LOCKED"

LEMMA PipelineInit == Init => PipelineInv
BY DEF Init, PipelineInv, Markets

LEMMA PipelineStep == PipelineInv /\ [Next]_vars => PipelineInv'
<1> SUFFICES ASSUME PipelineInv, [Next]_vars
             PROVE  PipelineInv'
  OBVIOUS
<1> USE DEF PipelineInv, Markets
<1>1. CASE Begin \/ FetchWeather \/ FetchPower \/ ListFiles
  BY <1>1 DEF Begin, FetchWeather, FetchPower, ListFiles
<1>2. CASE ReadFile
  BY <1>2 DEF ReadFile
<1>3. CASE Observe
  BY <1>3 DEF Observe, TriggersResolve, NextFile
<1>4. CASE Record
  BY <1>4 DEF Record
<1>5. CASE Update
  <2>1. state' = [state EXCEPT ![current] = "RESOLVED"] /\ jobPc' = "ingesting" /\ result' = result
    BY <1>5 DEF Update, NextFile
  <2> QED
    BY <2>1
<1>6. CASE JobEnds \/ JobFails \/ WorkerStops
  BY <1>6 DEF JobEnds, JobFails, WorkerStops, Over
<1>7. CASE FileFails
  BY <1>7 DEF FileFails, NextFile
<1>8. ASSUME NEW m, Lock(m)
      PROVE  PipelineInv'
  BY <1>8 DEF Lock, jobVars
<1>9. ASSUME NEW m, Settle(m)
      PROVE  PipelineInv'
  BY <1>9 DEF Settle, jobVars
<1>10. CASE Tick \/ UNCHANGED vars
  BY <1>10 DEF Tick, vars, jobVars
<1> QED
  BY <1>1, <1>2, <1>3, <1>4, <1>5, <1>6, <1>7, <1>8, <1>9, <1>10 DEF Next, Job

\* Files of resolved markets are rewritten and ingested again each day; their results
\* are not, whatever is locked or settled meanwhile and wherever the job stops.
THEOREM ResultsStay == Spec => ResultStays
<1>1. PipelineInv /\ [Next]_vars =>
        [\A m \in Markets : state[m] = "RESOLVED" => result'[m] = result[m]]_vars
  <2> SUFFICES ASSUME PipelineInv, Next
               PROVE  \A m \in Markets : state[m] = "RESOLVED" => result'[m] = result[m]
    OBVIOUS
  <2>1. CASE Record
    BY <2>1 DEF Record, PipelineInv, Markets
  <2>2. CASE result' = result
    BY <2>2
  <2> QED
    BY <2>1, <2>2 DEF Next, Job, Begin, FetchWeather, FetchPower, ListFiles, ReadFile, Observe,
       Update, JobEnds, Over, FileFails, JobFails, WorkerStops, Lock, Settle, Tick
<1> QED
  BY <1>1, PipelineInit, PipelineStep, PTL DEF Spec, ResultStays

-----------------------------------------------------------------------------
(* What is observed for a market *)

\* The markets are those of one of the seeding scripts, and no row's state goes back.
Seeded(m) ==
    /\ m.period = "weekly" => \E k \in Int : m.ends = k * WeekLength
    /\ m.period \in {"daily", "weekly", "monthly"}

\* What a file i may hold of days.
Proper(i, days) == ~AskedForADay(i) => days \subseteq OwnDays(i)

\* A request of the job was made for a locked market; what files hold, and what was
\* observed from them, are days of their market's own period, or that market's files
\* were asked for through one of a single day.
SourceInv ==
    /\ PipelineInv
    /\ observation = [m \in Markets |-> observation[m]]
    /\ \A m \in Markets : Seeded(m)
    /\ \A ask \in asks : \E m \in Markets :
            /\ ReadsAsWeather(m) /\ state[m] # "OPEN"
            /\ ask.station = m.place /\ ask.ends = m.ends
    /\ \A i \in DOMAIN file : Proper(i, file[i])
    /\ jobPc = "read" => current \in DOMAIN file
    /\ unread \subseteq DOMAIN file
    /\ \A m \in Markets : Proper(m, observation[m])

LEMMA Lengths == /\ WeekLength \in Nat /\ WeekLength > 0 /\ MonthLength \in Nat /\ MonthLength > 0
BY PipelineAssumption

\* The last day of a period is a multiple of its length, and is its own.
LEMMA EndOfMultiple ==
    ASSUME NEW k \in Int, NEW n \in Nat, n > 0
    PROVE  EndOf(k * n, n) = k * n
<1>1. (k * n + n - 1) \div n = k
  <2> DEFINE x == k * n + n - 1
             q == x \div n
             r == x % n
  <2>1. x \in Int /\ q \in Int /\ r \in 0..(n - 1) /\ x = n * q + r
    OBVIOUS
  <2>2. n * q = q * n /\ q * n \in Int /\ k * n \in Int
    BY <2>1
  <2>3. (k - q) * n = k * n - q * n
    BY <2>1
  <2> HIDE DEF x, q, r
  <2>4. (k - q) * n = r - (n - 1)
    BY <2>1, <2>2, <2>3 DEF x
  <2>5. k = q
    <3> DEFINE d == k - q
    <3>1. d \in Int /\ -n < d * n /\ d * n <= 0
      BY <2>1, <2>4
    <3> HIDE DEF d
    <3>2. ~(d >= 1)
      BY <3>1
    <3>3. ~(d <= -1)
      <4> SUFFICES ASSUME d <= -1
                   PROVE  FALSE
        OBVIOUS
      <4>1. (-1 - d) * n >= 0 /\ (-1 - d) * n = -n - d * n
        BY <3>1
      <4>2. d * n \in Int
        BY <3>1
      <4> QED
        BY <3>1, <4>1, <4>2
    <3>4. d = 0
      BY <3>1, <3>2, <3>3
    <3> QED
      BY <2>1, <3>4 DEF d
  <2> QED
    BY <2>5 DEF q, x
<1> QED
  BY <1>1 DEF EndOf

\* Weekly markets are seeded for ends of weeks.
LEMMA SeedsEndWeeks ==
    ASSUME NEW today \in Int, NEW n \in Nat, NEW e \in UpcomingWeekEndings(today, n)
    PROVE  \E k \in Int : e = k * WeekLength
<1> DEFINE q == (today + WeekLength - 1) \div WeekLength
<1>1. PICK i \in 1..n : e = q * WeekLength + (i - 1) * WeekLength
  BY DEF UpcomingWeekEndings, WeekEnding, EndOf
<1>2. q \in Int
  BY Lengths
<1> HIDE DEF q
<1>3. (q + (i - 1)) * WeekLength = q * WeekLength + (i - 1) * WeekLength
  BY <1>2, Lengths
<1> QED
  BY <1>1, <1>2, <1>3

LEMMA SeedsSeeded ==
    ASSUME NEW m \in SeedMarkets(1) \cup SeedWeekliesAndDailies(1)
    PROVE  Seeded(m)
<1>1. PICK period \in {"daily", "weekly", "monthly"} : \E ends :
            /\ m \in Weather(period, ends) \cup Power(period, ends)
            /\ period = "weekly" => \E n \in Nat : ends = UpcomingWeekEndings(1, n)
  <2>1. CASE m \in SeedMarkets(1)
    BY <2>1 DEF SeedMarkets
  <2>2. CASE m \in SeedWeekliesAndDailies(1)
    BY <2>2, PipelineAssumption DEF SeedWeekliesAndDailies
  <2> QED
    BY <2>1, <2>2
<1>2. PICK ends :
            /\ m \in Weather(period, ends) \cup Power(period, ends)
            /\ period = "weekly" => \E n \in Nat : ends = UpcomingWeekEndings(1, n)
  BY <1>1
<1>3. m.period = period /\ m.ends \in ends
  BY <1>2 DEF Weather, Power
<1> QED
  BY <1>2, <1>3, SeedsEndWeeks DEF Seeded

LEMMA SourceInit == Init => SourceInv
<1> SUFFICES ASSUME Init
             PROVE  SourceInv
  OBVIOUS
<1>1. PICK seeds \in {SeedMarkets(1), SeedWeekliesAndDailies(1)} :
            state = [m \in seeds |-> "OPEN"] /\ observation = [m \in seeds |-> {}]
  BY DEF Init
<1>2. Markets = seeds /\ \A m \in Markets : Seeded(m) /\ observation[m] = {}
  BY <1>1, SeedsSeeded DEF Markets
<1>3. DOMAIN file = {} /\ asks = {} /\ jobPc = "off" /\ unread = {}
  BY DEF Init
<1> QED
  BY <1>1, <1>2, <1>3, PipelineInit DEF SourceInv, Proper

\* No market is opened again.
LEMMA StaysAsked ==
    ASSUME PipelineInv, Markets' = Markets,
           \A m \in Markets : state[m] # "OPEN" => state'[m] # "OPEN"
    PROVE  \A i, days : Proper(i, days) => Proper(i, days)'
BY DEF Proper, AskedForADay, OwnDays, WeekEnding, EndOf

\* The files that a request for a weather market makes the job write are proper.
LEMMA WeatherProper ==
    ASSUME SourceInv, NEW ask \in asks, NEW i \in DOMAIN WeatherFiles(ask)
    PROVE  Proper(i, WeatherFiles(ask)[i])
<1>1. /\ i \in Weather("weekly", {WeekEnding(ask.ends)}) /\ i.place = ask.station
      /\ WeatherFiles(ask)[i] = WeekBounds(ask.ends) \cap Shown
  BY DEF WeatherFiles
<1>2. i.period = "weekly" /\ i.ends = WeekEnding(ask.ends)
  BY <1>1 DEF Weather
<1>3. PICK m \in Markets : /\ ReadsAsWeather(m) /\ state[m] # "OPEN" /\ Seeded(m)
                           /\ ask.station = m.place /\ ask.ends = m.ends
  BY DEF SourceInv
<1>4. CASE m.period = "daily"
  BY <1>1, <1>2, <1>3, <1>4 DEF Proper, AskedForADay, ReadsAsWeather
<1>5. CASE m.period = "weekly"
  <2>1. WeekEnding(m.ends) = m.ends
    BY <1>3, <1>5, EndOfMultiple, Lengths DEF Seeded, WeekEnding
  <2> QED
    BY <1>1, <1>2, <1>3, <2>1 DEF Proper, OwnDays, WeekBounds
<1> QED
  BY <1>3, <1>4, <1>5 DEF Seeded, ReadsAsWeather

LEMMA PowerProper ==
    ASSUME NEW of, NEW i \in DOMAIN PowerFiles(of)
    PROVE  Proper(i, PowerFiles(of)[i])
BY DEF PowerFiles, Power, Proper, OwnDays

LEMMA SourceStep == SourceInv /\ [Next]_vars => SourceInv'
<1> SUFFICES ASSUME SourceInv, [Next]_vars
             PROVE  SourceInv'
  OBVIOUS
<1>1. PipelineInv /\ PipelineInv'
  BY PipelineStep DEF SourceInv
<1>2. Markets' = Markets /\ \A m \in Markets : state[m] # "OPEN" => state'[m] # "OPEN"
  <2>1. CASE state' = state
    BY <2>1 DEF Markets
  <2>2. CASE \E m, s : state' = [state EXCEPT ![m] = s] /\ s # "OPEN"
    BY <1>1, <2>2 DEF PipelineInv, Markets
  <2>3. CASE Update \/ \E m \in Lockable : Lock(m) \/ Settle(m)
    BY <2>2, <2>3 DEF Update, Lock, Settle
  <2>4. CASE Job \/ FileFails \/ JobFails \/ WorkerStops \/ Tick \/ UNCHANGED vars
    BY <2>1, <2>3, <2>4 DEF Job, Begin, FetchWeather, FetchPower, ListFiles, ReadFile, Observe, Record,
       JobEnds, Over, FileFails, JobFails, WorkerStops, Tick, vars
  <2> QED
    BY <2>3, <2>4 DEF Next
<1>3. \A i, days : Proper(i, days) => Proper(i, days)'
  BY <1>1, <1>2, StaysAsked
<1>4. /\ \A m \in Markets' : Seeded(m)
      /\ \A m \in Markets' : observation' = observation => Proper(m, observation[m])'
      /\ \A ask \in asks : \E m \in Markets' :
            /\ ReadsAsWeather(m)' /\ state'[m] # "OPEN"
            /\ ask.station = m.place /\ ask.ends = m.ends
  <2>1. \A m \in Markets' : observation' = observation => Proper(m, observation[m])'
    BY <1>2, <1>3 DEF SourceInv
  <2> QED
    BY <1>2, <2>1 DEF SourceInv, ReadsAsWeather
\* Steps that add no request and touch neither files nor observations.
<1>5. ASSUME asks' \subseteq asks, file' = file, observation' = observation, unread' \subseteq unread,
             jobPc' = "read" => current' \in DOMAIN file
      PROVE  SourceInv'
  BY <1>1, <1>2, <1>3, <1>4, <1>5 DEF SourceInv
\* Steps of the job that write files.
<1>6. ASSUME NEW files, file' = Written(files), asks' \subseteq asks, observation' = observation,
             unread' = unread, jobPc' # "read",
             \A i \in DOMAIN files : Proper(i, files[i])
      PROVE  SourceInv'
  <2>1. DOMAIN file' = DOMAIN file \cup DOMAIN files
        /\ \A i \in DOMAIN file' : file'[i] = IF i \in DOMAIN files THEN files[i] ELSE file[i]
    BY <1>6 DEF Written
  <2>2. \A i \in DOMAIN file' : Proper(i, file'[i])
    BY <1>6, <2>1 DEF SourceInv
  <2>3. \A i \in DOMAIN file' : Proper(i, file[i])'
    BY <1>3, <2>2
  <2> QED
    BY <1>1, <1>2, <1>3, <1>4, <1>6, <2>1, <2>3 DEF SourceInv
<1>7. CASE Begin
  <2>1. \A ask \in asks' : \E m \in Markets :
            /\ ReadsAsWeather(m) /\ state[m] # "OPEN"
            /\ ask.station = m.place /\ ask.ends = m.ends
    <3> SUFFICES ASSUME NEW ask \in asks'
                 PROVE  \E m \in Markets : /\ ReadsAsWeather(m) /\ state[m] # "OPEN"
                                           /\ ask.station = m.place /\ ask.ends = m.ends
      OBVIOUS
    <3>1. PICK m \in Markets : IsTarget(m) /\ ReadsAsWeather(m)
                               /\ ask = [station |-> m.place, ends |-> m.ends]
      BY <1>7 DEF Begin
    <3> QED
      BY <3>1 DEF IsTarget
  <2>2. UNCHANGED <<state, file, observation, unread>> /\ jobPc' = "fetching"
    BY <1>7 DEF Begin
  <2> QED
    BY <1>1, <1>2, <1>3, <1>4, <2>1, <2>2 DEF SourceInv
<1>8. CASE FetchWeather
  <2>1. PICK ask \in asks : /\ asks' = asks \ {ask}
                            /\ file' = Written(WeatherFiles(ask)) \/ file' = file
    BY <1>8 DEF FetchWeather
  <2>2. observation' = observation /\ unread' = unread /\ jobPc' = "fetching"
    BY <1>8 DEF FetchWeather
  <2> QED
    BY <1>5, <1>6, <2>1, <2>2, WeatherProper
<1>9. CASE FetchPower
  <2>1. PICK of \in dates : file' = Written(PowerFiles(of)) \/ file' = file
    BY <1>9 DEF FetchPower
  <2>2. asks' = asks /\ observation' = observation /\ unread' = unread /\ jobPc' = "fetching"
    BY <1>9 DEF FetchPower
  <2> QED
    BY <1>5, <1>6, <2>1, <2>2, PowerProper
<1>10. CASE ListFiles
  <2>1. unread' = DOMAIN file /\ UNCHANGED <<state, file, observation, asks>> /\ jobPc' = "ingesting"
    BY <1>10 DEF ListFiles
  <2> QED
    BY <1>1, <1>2, <1>3, <1>4, <2>1 DEF SourceInv
<1>11. CASE ReadFile
  BY <1>5, <1>11 DEF ReadFile, SourceInv
<1>12. CASE Observe
  <2>1. /\ observation' = [observation EXCEPT ![current] = file[current]]
        /\ UNCHANGED <<state, file, asks, unread>> /\ jobPc' # "read" /\ jobPc = "read"
    BY <1>12 DEF Observe, NextFile
  <2>2. \A m \in Markets : Proper(m, observation'[m])
    <3> SUFFICES ASSUME NEW m \in Markets
                 PROVE  Proper(m, observation'[m])
      OBVIOUS
    <3>1. CASE observation'[m] = observation[m]
      BY <3>1 DEF SourceInv
    <3>2. CASE m = current /\ observation'[m] = file[current]
      BY <2>1, <3>2 DEF SourceInv
    <3> QED
      BY <2>1, <3>1, <3>2
  <2> QED
    BY <1>1, <1>2, <1>3, <1>4, <2>1, <2>2 DEF SourceInv
<1>13. CASE Record \/ Update \/ FileFails
  BY <1>5, <1>13 DEF Record, Update, FileFails, NextFile
<1>14. CASE JobEnds \/ JobFails \/ WorkerStops
  BY <1>5, <1>14 DEF JobEnds, JobFails, WorkerStops, Over
<1>15. ASSUME NEW m, Lock(m) \/ Settle(m)
       PROVE  SourceInv'
  BY <1>5, <1>15 DEF Lock, Settle, jobVars, SourceInv
<1>16. CASE Tick \/ UNCHANGED vars
  BY <1>5, <1>16 DEF Tick, vars, jobVars, SourceInv
<1> QED
  BY <1>7, <1>8, <1>9, <1>10, <1>11, <1>12, <1>13, <1>14, <1>15, <1>16 DEF Next, Job

\* Whatever the job fetches for one market, writes into the files of others and ingests
\* on a later day, what is observed for a market are days of its own period, unless the
\* files of its week were asked for through a market for a single day.
THEOREM ObservationsAreOwn == Spec => []ObservedOwnDays
<1>1. SourceInv => ObservedOwnDays
  BY DEF SourceInv, ObservedOwnDays, Proper
<1> QED
  BY <1>1, SourceInit, SourceStep, PTL DEF Spec
=============================================================================
