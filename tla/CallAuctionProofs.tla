-------------------------- MODULE CallAuctionProofs --------------------------
(***************************************************************************)
(* Theorems of JobLock and of CallAuction, which uses the lock, for any    *)
(* workers, pools, firings, agents, markets and calls: workers exclude     *)
(* each other, and the auction publishes a mean of everything submitted,   *)
(* never one of fewer submissions.  The last rests on the first.           *)
(***************************************************************************)
EXTENDS CallAuction, FiniteSetTheorems, TLAPS

-----------------------------------------------------------------------------
(* The lock *)

\* At most one session holds the lock.
OneHolder == \A c, d \in Connections : holds[c] > 0 /\ holds[d] > 0 => c = d

\* While runs are active one session holds the lock at least once for each of them,
\* in the pool of the worker they all run in: an unlock can take away only one.
Counted ==
    Active # {} => \E c \in Connections :
        /\ \A r \in Active : WorkerOf[r] = PoolOf[c]
        /\ Cardinality(Active) <= holds[c]

LockInv == LockTypeOK /\ OneHolder /\ Counted

LEMMA ActiveFinite == IsFiniteSet(Active) /\ Cardinality(Active) \in Nat
<1>1. Active \subseteq Runs
  BY DEF Active
<1>. QED
  BY <1>1, PoolsAssumption, FS_Subset, FS_CardinalityType

LEMMA ActiveNotEmpty == Active # {} => Cardinality(Active) >= 1
BY ActiveFinite, FS_EmptySet

LEMMA LockInitial == LockInit => LockInv
BY DEF LockInit, LockInv, LockTypeOK, OneHolder, Counted, Active

LEMMA AcquireKeepsLock ==
    ASSUME LockInv, NEW r \in Runs, TryAcquire(r)
    PROVE  LockInv'
<1>1. PICK c \in Connections :
        /\ PoolOf[c] = WorkerOf[r]
        /\ holds' = IF Grants(c) THEN [holds EXCEPT ![c] = @ + 1] ELSE holds
        /\ runPc' = [runPc EXCEPT ![r] = IF Grants(c) THEN "running" ELSE "skipped"]
  BY DEF TryAcquire
<1>. USE DEF LockInv
<1>2. CASE ~Grants(c)
  <2>1. Active' = Active
    BY <1>1, <1>2 DEF TryAcquire, Active, LockTypeOK
  <2>. QED
    BY <1>1, <1>2, <2>1 DEF LockTypeOK, OneHolder, Counted
<1>3. CASE Grants(c)
  <2>1. Active' = Active \cup {r} /\ r \notin Active
    BY <1>1, <1>3 DEF TryAcquire, Active, LockTypeOK
  <2>2. Cardinality(Active') = Cardinality(Active) + 1
    BY <2>1, ActiveFinite, FS_AddElement
  <2>3. /\ holds'[c] = holds[c] + 1
        /\ \A d \in Connections \ {c} : holds'[d] = 0
        /\ LockTypeOK'
    BY <1>1, <1>3 DEF Grants, LockTypeOK
  <2>4. \A s \in Active' : WorkerOf[s] = PoolOf[c]
    <3>1. CASE Active = {}
      BY <1>1, <2>1, <3>1
    <3>2. CASE Active # {}
      <4>1. PICK d \in Connections :
              /\ \A s \in Active : WorkerOf[s] = PoolOf[d]
              /\ Cardinality(Active) <= holds[d]
        BY <3>2 DEF Counted
      <4>2. holds[d] > 0
        BY <3>2, <4>1, ActiveNotEmpty, ActiveFinite DEF LockTypeOK
      <4>3. d = c
        BY <1>3, <4>2 DEF Grants
      <4>. QED
        BY <1>1, <2>1, <4>1, <4>3
    <3>. QED
      BY <3>1, <3>2
  <2>5. Cardinality(Active') <= holds'[c]
    <3>1. CASE Active = {}
      BY <2>2, <2>3, <3>1, FS_EmptySet DEF LockTypeOK
    <3>2. CASE Active # {}
      <4>1. PICK d \in Connections : Cardinality(Active) <= holds[d]
        BY <3>2 DEF Counted
      <4>2. holds[d] > 0
        BY <3>2, <4>1, ActiveNotEmpty, ActiveFinite DEF LockTypeOK
      <4>3. d = c
        BY <1>3, <4>2 DEF Grants
      <4>. QED
        BY <2>2, <2>3, <4>1, <4>3, ActiveFinite DEF LockTypeOK
    <3>. QED
      BY <3>1, <3>2
  <2>6. OneHolder'
    BY <2>3 DEF OneHolder
  <2>7. Counted'
    BY <2>4, <2>5 DEF Counted
  <2>. QED
    BY <2>3, <2>6, <2>7
<1>. QED
  BY <1>2, <1>3

LEMMA FinishKeepsLock ==
    ASSUME LockInv, NEW r \in Runs, Finish(r)
    PROVE  LockInv'
<1>1. Active' = Active
  BY DEF Finish, Active, LockInv, LockTypeOK
<1>. QED
  BY <1>1 DEF Finish, LockInv, LockTypeOK, OneHolder, Counted

LEMMA ReleaseKeepsLock ==
    ASSUME LockInv, NEW r \in Runs, Release(r)
    PROVE  LockInv'
<1>. USE DEF LockInv
<1>1. PICK c \in Connections : holds' = [holds EXCEPT ![c] = IF @ > 0 THEN @ - 1 ELSE @]
  BY DEF Release, AfterUnlock
<1>2. Active' = Active \ {r} /\ r \in Active
  BY DEF Release, Active, LockTypeOK
<1>3. Cardinality(Active') = Cardinality(Active) - 1
  BY <1>2, ActiveFinite, FS_RemoveElement
<1>4. LockTypeOK' /\ \A d \in Connections : holds'[d] >= holds[d] - 1 /\ holds'[d] <= holds[d]
  BY <1>1 DEF Release, LockTypeOK
<1>5. OneHolder'
  BY <1>4 DEF OneHolder, LockTypeOK
<1>6. Counted'
  <2>1. PICK d \in Connections :
          /\ \A s \in Active : WorkerOf[s] = PoolOf[d]
          /\ Cardinality(Active) <= holds[d]
    BY <1>2 DEF Counted
  <2>2. Cardinality(Active') <= holds'[d]
    BY <1>3, <1>4, <2>1, ActiveFinite DEF LockTypeOK
  <2>. QED
    BY <1>2, <2>1, <2>2 DEF Counted
<1>. QED
  BY <1>4, <1>5, <1>6

LEMMA StopKeepsLock ==
    ASSUME LockInv, NEW w \in Workers, SessionsEnd(w)
    PROVE  LockInv'
<1>. USE DEF LockInv
<1>1. LockTypeOK'
  BY DEF SessionsEnd, LockTypeOK
<1>2. OneHolder'
  BY DEF SessionsEnd, OneHolder, LockTypeOK
<1>3. Active' = {r \in Active : WorkerOf[r] # w}
  BY DEF SessionsEnd, Active, LockTypeOK
<1>4. Counted'
  <2>1. SUFFICES ASSUME Active' # {}
                 PROVE  Counted'
    BY DEF Counted
  <2>2. PICK c \in Connections :
          /\ \A r \in Active : WorkerOf[r] = PoolOf[c]
          /\ Cardinality(Active) <= holds[c]
    BY <1>3, <2>1 DEF Counted
  <2>3. PoolOf[c] # w /\ Active' = Active
    BY <1>3, <2>1, <2>2
  <2>4. holds'[c] = holds[c]
    BY <2>3 DEF SessionsEnd, LockTypeOK
  <2>. QED
    BY <2>2, <2>3, <2>4 DEF Counted
<1>. QED
  BY <1>1, <1>2, <1>4

LEMMA LockStep == LockInv /\ [LockNext]_lockVars => LockInv'
<1>. SUFFICES ASSUME LockInv, [LockNext]_lockVars
              PROVE  LockInv'
  OBVIOUS
<1>1. CASE UNCHANGED lockVars
  BY <1>1 DEF lockVars, LockInv, LockTypeOK, OneHolder, Counted, Active
<1>2. CASE LockNext
  BY <1>2, AcquireKeepsLock, FinishKeepsLock, ReleaseKeepsLock, StopKeepsLock DEF LockNext
<1>. QED
  BY <1>1, <1>2

LEMMA InvExcludes == LockInv => WorkersExclude
BY DEF LockInv, Counted, WorkersExclude

\* The job is never active in two workers at once, whatever connections the lock and
\* the unlock are sent on and whichever process stops.
THEOREM LockExcludesWorkers == LockSpec => []WorkersExclude
<1>1. LockSpec => []LockInv
  BY LockInitial, LockStep, PTL DEF LockSpec
<1>. QED
  BY <1>1, InvExcludes, PTL

LEMMA AuctionStep == [Next]_vars => [LockNext]_lockVars
<1>. SUFFICES ASSUME [Next]_vars
              PROVE  [LockNext]_lockVars
  OBVIOUS
<1>1. CASE UNCHANGED vars
  BY <1>1 DEF vars, lockVars
<1>2. ASSUME NEW c \in Calls, SubmitBegin(c) \/ SubmitItem(c) \/ SubmitEnd(c)
      PROVE  UNCHANGED lockVars
  BY <1>2 DEF SubmitBegin, SubmitItem, SubmitEnd
<1>3. ASSUME NEW r \in Runs, Fire(r) \/ Aggregate(r) \/ Persist(r) \/ JobEnds(r) \/ Unlock(r)
      PROVE  [LockNext]_lockVars
  BY <1>3 DEF Fire, Aggregate, Persist, JobEnds, Unlock, LockNext
<1>4. ASSUME NEW w \in Workers, WorkerStops(w)
      PROVE  LockNext
  BY <1>4 DEF WorkerStops, LockNext
<1>5. CASE Tick
  BY <1>5 DEF Tick
<1>. QED
  BY <1>1, <1>2, <1>3, <1>4, <1>5 DEF Next

\* The auction's runs take and give back the lock as withJobLock does.
THEOREM AuctionUsesJobLock == Spec => UsesJobLock
<1>1. Init => LockInit
  BY DEF Init
<1>. QED
  BY <1>1, AuctionStep, PTL DEF Spec, UsesJobLock, LockSpec

\* Two workers never aggregate at the same time.
THEOREM AuctionExcludesWorkers == Spec => []WorkersExclude
BY AuctionUsesJobLock, LockExcludesWorkers, PTL DEF UsesJobLock

-----------------------------------------------------------------------------
(* The auction *)

\* The valuations of one market, what is made of them, and what a run has to write.
Ballots == UNION {[S -> Int] : S \in SUBSET Agents}
Outcomes == {Aggregated(b) : b \in Ballots} \cup {NoResult}
Plans == UNION {[S -> Outcomes] : S \in SUBSET Markets}

AuctionTypes ==
    /\ hour \in Hours
    /\ submission \in [Hours -> [Markets -> Ballots]]
    /\ result \in [Hours -> [Markets -> Outcomes]]
    /\ callPc \in [Calls -> {"new", "sending", "ended"}]
    /\ callInterval \in [Calls -> Hours]
    /\ sent \in [Calls -> Nat]
    /\ aggregate \in [Runs -> Plans]

\* Only a run that is active has something to write, and for an hour that is over;
\* no call writes ahead of the clock.
TimesAgree ==
    /\ \A r \in Runs : runPc[r] # "due" => FiresAt[r] <= hour
    /\ \A r \in Runs : DOMAIN aggregate[r] # {} => runPc[r] = "running"
    /\ \A c \in Calls : callInterval[c] <= hour
    /\ \A h \in Hours, m \in Markets : result[h][m] # NoResult => h < hour

\* What a run has computed and not written yet still is what was submitted.
PlansComplete ==
    \A r \in Runs : \A m \in DOMAIN aggregate[r] :
        IntervalOf(r) \notin straddled =>
            aggregate[r][m] = Aggregated(submission[IntervalOf(r)][m])

\* Results were made of no more submissions than there are, and a plan of no fewer
\* than the result it will replace.
VolumesGrow ==
    /\ \A h \in Hours, m \in Markets :
        result[h][m].volume <= Cardinality(DOMAIN submission[h][m])
    /\ \A r \in Runs : \A m \in DOMAIN aggregate[r] :
        /\ result[IntervalOf(r)][m].volume <= aggregate[r][m].volume
        /\ aggregate[r][m].volume <= Cardinality(DOMAIN submission[IntervalOf(r)][m])

AuctionInv ==
    LockInv /\ AuctionTypes /\ TimesAgree /\ ResultIsComplete /\ PlansComplete /\ VolumesGrow

-----------------------------------------------------------------------------
LEMMA ElementOf ==
    ASSUME NEW S, NEW s \in Seq(S), NEW i \in 1..Len(s)
    PROVE  s[i] \in S
OBVIOUS

LEMMA BallotSize ==
    ASSUME NEW b \in Ballots
    PROVE  IsFiniteSet(DOMAIN b) /\ Cardinality(DOMAIN b) \in Nat
<1>1. DOMAIN b \in SUBSET Agents
  BY DEF Ballots
<1> QED
  BY <1>1, AuctionAssumption, FS_Subset, FS_CardinalityType

LEMMA OutcomeVolume ==
    ASSUME NEW x \in Outcomes
    PROVE  x.volume \in Nat
<1>1. CASE x = NoResult
  BY <1>1 DEF NoResult
<1>2. ASSUME NEW b \in Ballots, x = Aggregated(b)
      PROVE  x.volume \in Nat
  BY <1>2, BallotSize DEF Aggregated
<1> QED
  BY <1>1, <1>2 DEF Outcomes

\* An upsert keeps the other agents' valuations.
LEMMA BallotPlus ==
    ASSUME NEW b \in Ballots, NEW a \in Agents, NEW v \in Int,
           NEW new, new = [x \in DOMAIN b \cup {a} |-> IF x = a THEN v ELSE b[x]]
    PROVE  new \in Ballots /\ Cardinality(DOMAIN b) <= Cardinality(DOMAIN new)
<1>1. DOMAIN b \in SUBSET Agents /\ b \in [DOMAIN b -> Int]
  BY DEF Ballots
<1>2. new \in [DOMAIN b \cup {a} -> Int]
  BY <1>1
<1>3. new \in Ballots
  BY <1>1, <1>2 DEF Ballots
<1>4. DOMAIN new = DOMAIN b \cup {a} /\ IsFiniteSet(DOMAIN new)
  BY <1>3, BallotSize
<1>5. Cardinality(DOMAIN b) <= Cardinality(DOMAIN new)
  BY <1>4, FS_Subset
<1> QED
  BY <1>3, <1>5

LEMMA ActiveInterval ==
    ASSUME AuctionInv, NEW r \in Runs, runPc[r] # "due"
    PROVE  IntervalOf(r) \in Hours /\ IntervalOf(r) < hour
BY AuctionAssumption DEF AuctionInv, AuctionTypes, TimesAgree, Hours, IntervalOf

LEMMA AuctionInitial ==
    ASSUME Init
    PROVE  AuctionInv
<1>1. LockInv
  BY LockInitial DEF Init
<1>2. [a \in {} |-> 0] \in Ballots
  <2>1. {} \in SUBSET Agents /\ [a \in {} |-> 0] \in [{} -> Int]
    OBVIOUS
  <2> QED
    BY <2>1 DEF Ballots
<1>3. Nothing \in Plans /\ DOMAIN Nothing = {}
  <2>1. {} \in SUBSET Markets /\ Nothing \in [{} -> Outcomes]
    BY DEF Nothing
  <2> QED
    BY <2>1 DEF Plans
<1>4. AuctionTypes
  BY <1>2, <1>3, AuctionAssumption DEF Init, AuctionTypes, Outcomes, Hours
<1>5. TimesAgree /\ ResultIsComplete /\ PlansComplete
  BY <1>3, AuctionAssumption DEF Init, LockInit, TimesAgree, ResultIsComplete, PlansComplete, Hours
<1>6. VolumesGrow
  BY <1>2, <1>3, BallotSize DEF Init, VolumesGrow, NoResult
<1> QED
  BY <1>1, <1>4, <1>5, <1>6 DEF AuctionInv

\* Steps of the calls, of the clock and of the lock, which write no result.
LEMMA SubmitKeeps ==
    ASSUME AuctionInv, NEW c \in Calls, SubmitItem(c)
    PROVE  AuctionInv'
<1> DEFINE item == CallItems[c][sent[c] + 1]
           h == callInterval[c]
           old == submission[h][item.market]
           new == [a \in DOMAIN old \cup {CallAgent[c]} |->
                      IF a = CallAgent[c] THEN item.fairValue ELSE old[a]]
<1> USE DEF AuctionInv
<1>1. item.market \in Markets /\ item.fairValue \in Int /\ CallAgent[c] \in Agents
  <2>1. CallItems[c] \in Seq([market : Markets, fairValue : Int])
    BY AuctionAssumption
  <2>2. sent[c] + 1 \in 1..Len(CallItems[c])
    BY <2>1 DEF SubmitItem, AuctionTypes
  <2>3. item \in [market : Markets, fairValue : Int]
    BY <2>1, <2>2, ElementOf
  <2>4. CallAgent[c] \in Agents
    BY AuctionAssumption
  <2> QED
    BY <2>3, <2>4
<1>2. h \in Hours /\ old \in Ballots /\ h <= hour
  BY <1>1 DEF AuctionTypes, TimesAgree
<1>3. new \in Ballots /\ Cardinality(DOMAIN old) <= Cardinality(DOMAIN new)
  BY <1>1, <1>2, BallotPlus
<1>4. submission' = [submission EXCEPT ![h][item.market] = new]
  BY DEF SubmitItem
<1>5. UNCHANGED <<holds, runPc, hour, result, callPc, callInterval, aggregate>>
      /\ straddled' = straddled \cup (IF hour > h THEN {h} ELSE {})
      /\ sent' = [sent EXCEPT ![c] = @ + 1]
  BY DEF SubmitItem, lockVars, jobVars
<1> HIDE DEF item, new
<1>6. LockInv'
  BY <1>5 DEF LockInv, LockTypeOK, OneHolder, Counted, Active
<1>7. AuctionTypes'
  BY <1>1, <1>2, <1>3, <1>4, <1>5 DEF AuctionTypes
<1>8. TimesAgree'
  BY <1>5 DEF TimesAgree
\* What changes belongs to an hour that is not over or counts as straddled now.
<1>9. \A i \in Hours \ straddled', m \in Markets : i < hour => submission'[i][m] = submission[i][m]
  BY <1>1, <1>2, <1>4, <1>5 DEF AuctionTypes, Hours
<1>10. \A i \in Hours, m \in Markets :
          Cardinality(DOMAIN submission[i][m]) <= Cardinality(DOMAIN submission'[i][m])
  <2>1. \A i \in Hours, m \in Markets : Cardinality(DOMAIN submission[i][m]) \in Nat
    BY BallotSize DEF AuctionTypes
  <2> QED
    BY <1>1, <1>2, <1>3, <1>4, <2>1 DEF AuctionTypes
<1>11. \A r \in Runs : DOMAIN aggregate[r] # {} => IntervalOf(r) \in Hours /\ IntervalOf(r) < hour
  BY ActiveInterval DEF TimesAgree
<1>12. \A r \in Runs : DOMAIN aggregate[r] \subseteq Markets
  BY DEF AuctionTypes, Plans
<1>13. ResultIsComplete'
  BY <1>5, <1>9 DEF ResultIsComplete, TimesAgree
<1>14. PlansComplete'
  BY <1>5, <1>9, <1>11, <1>12 DEF PlansComplete, IntervalOf
<1>15. VolumesGrow'
  <2>1. \A i \in Hours, m \in Markets : /\ Cardinality(DOMAIN submission[i][m]) \in Nat
                                        /\ Cardinality(DOMAIN submission'[i][m]) \in Nat
                                        /\ result[i][m].volume \in Nat
    BY <1>7, BallotSize, OutcomeVolume DEF AuctionTypes
  <2>2. \A r \in Runs : \A m \in DOMAIN aggregate[r] : aggregate[r][m].volume \in Nat
    BY OutcomeVolume DEF AuctionTypes, Plans
  <2> QED
    BY <1>5, <1>10, <1>11, <1>12, <2>1, <2>2 DEF VolumesGrow, IntervalOf
<1> QED
  BY <1>6, <1>7, <1>8, <1>13, <1>14, <1>15

\* Steps that write neither submissions nor results and leave each run's plan as it
\* is or drop it.
LEMMA QuietKeeps ==
    ASSUME AuctionInv, LockInv', AuctionTypes', TimesAgree',
           UNCHANGED <<submission, result, straddled>>,
           \A r \in Runs : aggregate'[r] = aggregate[r] \/ DOMAIN aggregate'[r] = {}
    PROVE  AuctionInv'
BY DEF AuctionInv, ResultIsComplete, PlansComplete, VolumesGrow, IntervalOf

LEMMA AggregateKeeps ==
    ASSUME AuctionInv, NEW r \in Runs, Aggregate(r)
    PROVE  AuctionInv'
<1> DEFINE h == IntervalOf(r)
           of == submission[h]
           plan == [m \in {n \in Markets : DOMAIN of[n] # {}} |-> Aggregated(of[m])]
<1> USE DEF AuctionInv
<1>1. h \in Hours /\ h < hour
  BY ActiveInterval DEF Aggregate
<1>2. \A m \in Markets : of[m] \in Ballots /\ Aggregated(of[m]) \in Outcomes
  BY <1>1 DEF AuctionTypes, Outcomes
<1>3. plan \in Plans /\ DOMAIN plan \subseteq Markets
  <2>1. {n \in Markets : DOMAIN of[n] # {}} \in SUBSET Markets
    OBVIOUS
  <2>2. plan \in [{n \in Markets : DOMAIN of[n] # {}} -> Outcomes]
    BY <1>2
  <2> QED
    BY <2>1, <2>2 DEF Plans
<1>4. aggregate' = [aggregate EXCEPT ![r] = plan] /\ runPc[r] = "running"
  BY DEF Aggregate
<1>5. UNCHANGED <<holds, runPc, hour, submission, result, callPc, callInterval, sent, straddled>>
  BY DEF Aggregate, lockVars, callVars
<1>6. LockInv'
  BY <1>5 DEF LockInv, LockTypeOK, OneHolder, Counted, Active
<1>7. AuctionTypes' /\ TimesAgree' /\ ResultIsComplete'
  BY <1>3, <1>4, <1>5 DEF AuctionTypes, TimesAgree, ResultIsComplete
<1>8. PlansComplete'
  BY <1>4, <1>5 DEF AuctionTypes, PlansComplete, IntervalOf
<1>9. \A m \in DOMAIN plan : /\ plan[m].volume = Cardinality(DOMAIN of[m])
                             /\ Cardinality(DOMAIN of[m]) \in Nat
  BY <1>2, BallotSize DEF Aggregated
<1> HIDE DEF plan
<1>10. \A m \in DOMAIN plan : /\ result[h][m].volume <= plan[m].volume
                              /\ plan[m].volume <= Cardinality(DOMAIN of[m])
  BY <1>1, <1>3, <1>9 DEF VolumesGrow
<1>11. VolumesGrow'
  BY <1>4, <1>5, <1>10 DEF AuctionTypes, VolumesGrow, IntervalOf
<1> QED
  BY <1>6, <1>7, <1>8, <1>11

\* A run writes one result; no other run has one for the same hour to write, because
\* it would be of the same worker and have fired at the same time.
LEMMA PersistKeeps ==
    ASSUME AuctionInv, NEW r \in Runs, Persist(r)
    PROVE  /\ AuctionInv'
           /\ \A h \in Hours, m \in Markets : result'[h][m].volume >= result[h][m].volume
<1> USE DEF AuctionInv
<1>1. PICK m \in DOMAIN aggregate[r] :
        /\ result' = [result EXCEPT ![IntervalOf(r)][m] = aggregate[r][m]]
        /\ aggregate' = [aggregate EXCEPT ![r] =
                [n \in DOMAIN aggregate[r] \ {m} |-> aggregate[r][n]]]
  BY DEF Persist
<1>2. IntervalOf(r) \in Hours /\ IntervalOf(r) < hour /\ runPc[r] = "running"
  BY ActiveInterval DEF Persist
<1>3. UNCHANGED <<holds, runPc, hour, submission, callPc, callInterval, sent, straddled>>
  BY DEF Persist, lockVars, callVars
<1>4. m \in Markets /\ aggregate[r][m] \in Outcomes
      /\ DOMAIN aggregate[r] \in SUBSET Markets /\ aggregate[r] \in [DOMAIN aggregate[r] -> Outcomes]
  BY DEF AuctionTypes, Plans
<1>5. [n \in DOMAIN aggregate[r] \ {m} |-> aggregate[r][n]] \in Plans
  <2>1. [n \in DOMAIN aggregate[r] \ {m} |-> aggregate[r][n]]
            \in [DOMAIN aggregate[r] \ {m} -> Outcomes]
    BY <1>4
  <2>2. DOMAIN aggregate[r] \ {m} \in SUBSET Markets
    BY <1>4
  <2> QED
    BY <2>1, <2>2 DEF Plans
<1>6. LockInv'
  BY <1>3 DEF LockInv, LockTypeOK, OneHolder, Counted, Active
<1>7. AuctionTypes'
  BY <1>1, <1>2, <1>3, <1>4, <1>5 DEF AuctionTypes
<1>8. TimesAgree'
  BY <1>1, <1>2, <1>3, <1>4 DEF AuctionTypes, TimesAgree
<1>9. ResultIsComplete'
  BY <1>1, <1>2, <1>3, <1>4 DEF AuctionTypes, ResultIsComplete, PlansComplete
<1>10. PlansComplete'
  BY <1>1, <1>3 DEF AuctionTypes, PlansComplete, IntervalOf
<1>11. \A s \in Runs \ {r} : DOMAIN aggregate[s] # {} => IntervalOf(s) # IntervalOf(r)
  <2> SUFFICES ASSUME NEW s \in Runs \ {r}, DOMAIN aggregate[s] # {}, IntervalOf(s) = IntervalOf(r)
               PROVE  FALSE
    OBVIOUS
  <2>1. r \in Active /\ s \in Active
    BY <1>2 DEF TimesAgree, Active
  <2>2. WorkerOf[r] = WorkerOf[s]
    BY <2>1, InvExcludes DEF WorkersExclude
  <2>3. FiresAt[r] = FiresAt[s]
    BY AuctionAssumption DEF IntervalOf
  <2> QED
    BY <2>2, <2>3, AuctionAssumption
<1>12. \A h \in Hours, n \in Markets :
          result'[h][n] = IF h = IntervalOf(r) /\ n = m THEN aggregate[r][m] ELSE result[h][n]
  BY <1>1, <1>2, <1>4 DEF AuctionTypes
<1>13. VolumesGrow'
  <2>1. \A h \in Hours, n \in Markets :
          result'[h][n].volume <= Cardinality(DOMAIN submission'[h][n])
    BY <1>3, <1>12 DEF VolumesGrow
  <2>2. ASSUME NEW s \in Runs, NEW n \in DOMAIN aggregate'[s]
        PROVE  /\ result'[IntervalOf(s)][n].volume <= aggregate'[s][n].volume
               /\ aggregate'[s][n].volume <= Cardinality(DOMAIN submission'[IntervalOf(s)][n])
    <3>1. n \in DOMAIN aggregate[s] /\ aggregate'[s][n] = aggregate[s][n] /\ (s = r => n # m)
      BY <1>1, <2>2 DEF AuctionTypes
    <3>2. n \in Markets /\ IntervalOf(s) \in Hours
      BY <3>1, ActiveInterval DEF AuctionTypes, Plans, TimesAgree
    <3>3. result'[IntervalOf(s)][n] = result[IntervalOf(s)][n]
      BY <1>11, <1>12, <3>1, <3>2
    <3> QED
      BY <1>3, <3>1, <3>3 DEF VolumesGrow
  <2> QED
    BY <2>1, <2>2 DEF VolumesGrow, IntervalOf
<1>14. \A h \in Hours, n \in Markets : result'[h][n].volume >= result[h][n].volume
  <2>1. \A h \in Hours, n \in Markets : result[h][n].volume \in Nat
    BY OutcomeVolume DEF AuctionTypes
  <2>2. result[IntervalOf(r)][m].volume <= aggregate[r][m].volume /\ aggregate[r][m].volume \in Nat
    BY <1>4, OutcomeVolume DEF VolumesGrow
  <2> QED
    BY <1>12, <2>1, <2>2
<1> QED
  BY <1>6, <1>7, <1>8, <1>9, <1>10, <1>13, <1>14

LEMMA AuctionInvStep ==
    ASSUME AuctionInv, [Next]_vars
    PROVE  AuctionInv'
<1> USE DEF AuctionInv
<1>1. LockInv'
  BY LockStep, AuctionStep
<1>2. ASSUME NEW c \in Calls, SubmitBegin(c) \/ SubmitEnd(c)
      PROVE  AuctionInv'
  <2>1. AuctionTypes' /\ TimesAgree'
    <3>1. hour \in Nat /\ UNCHANGED <<runPc, hour, submission, result, sent, aggregate>>
      BY <1>2, AuctionAssumption
         DEF SubmitBegin, SubmitEnd, AuctionTypes, lockVars, jobVars, Hours
    <3>2. callPc' \in [Calls -> {"new", "sending", "ended"}]
      BY <1>2 DEF SubmitBegin, SubmitEnd, AuctionTypes
    <3>3. callInterval' = callInterval \/ callInterval' = [callInterval EXCEPT ![c] = hour]
      BY <1>2 DEF SubmitBegin, SubmitEnd
    <3>4. callInterval' \in [Calls -> Hours] /\ \A d \in Calls : callInterval'[d] <= hour
      BY <3>1, <3>3 DEF AuctionTypes, TimesAgree
    <3> QED
      BY <3>1, <3>2, <3>4 DEF AuctionTypes, TimesAgree
  <2> QED
    BY <1>1, <1>2, <2>1, QuietKeeps DEF SubmitBegin, SubmitEnd, jobVars
<1>3. Nothing \in Plans /\ DOMAIN Nothing = {}
  <2>1. {} \in SUBSET Markets /\ Nothing \in [{} -> Outcomes]
    BY DEF Nothing
  <2> QED
    BY <2>1 DEF Plans
<1>4. ASSUME NEW r \in Runs, Fire(r) \/ JobEnds(r) \/ Unlock(r)
      PROVE  AuctionInv'
  <2>1. AuctionTypes' /\ (\A s \in Runs : aggregate'[s] = aggregate[s] \/ DOMAIN aggregate'[s] = {})
    BY <1>3, <1>4 DEF Fire, JobEnds, Unlock, AuctionTypes, jobVars, callVars
  <2>2. TimesAgree'
    <3>1. CASE Fire(r)
      BY <3>1, AuctionAssumption
         DEF Fire, TryAcquire, TimesAgree, AuctionTypes, jobVars, callVars, Hours, LockInv, LockTypeOK
    <3>2. CASE JobEnds(r)
      BY <1>3, <3>2 DEF JobEnds, Finish, TimesAgree, AuctionTypes, callVars, LockInv, LockTypeOK
    <3>3. CASE Unlock(r)
      BY <3>3 DEF Unlock, Release, TimesAgree, jobVars, callVars, LockInv, LockTypeOK
    <3> QED
      BY <1>4, <3>1, <3>2, <3>3
  <2>3. UNCHANGED <<submission, result, straddled>>
    BY <1>4 DEF Fire, JobEnds, Unlock
  <2> QED
    BY <1>1, <2>1, <2>2, <2>3, QuietKeeps
<1>5. ASSUME NEW w \in Workers, WorkerStops(w)
      PROVE  AuctionInv'
  <2>1. AuctionTypes' /\ (\A s \in Runs : aggregate'[s] = aggregate[s] \/ DOMAIN aggregate'[s] = {})
    BY <1>3, <1>5 DEF WorkerStops, AuctionTypes, callVars
  <2>2. TimesAgree'
    BY <1>3, <1>5 DEF WorkerStops, SessionsEnd, TimesAgree, AuctionTypes, callVars, Active,
       LockInv, LockTypeOK
  <2> QED
    BY <1>1, <1>5, <2>1, <2>2, QuietKeeps DEF WorkerStops
<1>6. CASE Tick
  <2>1. AuctionTypes' /\ TimesAgree'
    BY <1>6, AuctionAssumption DEF Tick, AuctionTypes, TimesAgree, lockVars, jobVars, callVars, Hours
  <2> QED
    BY <1>1, <1>6, <2>1, QuietKeeps DEF Tick, jobVars
<1>7. CASE UNCHANGED vars
  <2>1. AuctionTypes' /\ TimesAgree'
    BY <1>7 DEF vars, AuctionTypes, TimesAgree, lockVars, jobVars, callVars
  <2> QED
    BY <1>1, <1>7, <2>1, QuietKeeps DEF vars, jobVars
<1> QED
  BY <1>2, <1>4, <1>5, <1>6, <1>7, SubmitKeeps, AggregateKeeps, PersistKeeps DEF Next

LEMMA AuctionInductive == Spec => []AuctionInv
BY AuctionInitial, AuctionInvStep, PTL DEF Spec

\* A published result is the aggregate of everything submitted for its hour, unless a
\* call was still writing to the hour after its end.
THEOREM ResultsAreComplete == Spec => []ResultIsComplete
<1>1. AuctionInv => ResultIsComplete
  BY DEF AuctionInv
<1> QED
  BY <1>1, AuctionInductive, PTL

\* Two workers that aggregate one hour never replace a result by one of fewer
\* submissions: the lock keeps a late writer of an early aggregate out.
THEOREM VolumesNeverShrink == Spec => VolumeNeverShrinks
<1>1. AuctionInv /\ [Next]_vars =>
        [\A h \in Hours, m \in Markets : result'[h][m].volume >= result[h][m].volume]_vars
  <2> SUFFICES ASSUME AuctionInv, Next
               PROVE  \A h \in Hours, m \in Markets : result'[h][m].volume >= result[h][m].volume
    OBVIOUS
  <2>1. ASSUME result' = result
        PROVE  \A h \in Hours, m \in Markets : result'[h][m].volume >= result[h][m].volume
    BY <2>1, OutcomeVolume DEF AuctionInv, AuctionTypes
  <2> QED
    BY <2>1, PersistKeeps DEF Next, SubmitBegin, SubmitItem, SubmitEnd, Fire, Aggregate, JobEnds,
       Unlock, WorkerStops, Tick
<1> QED
  BY <1>1, AuctionInductive, PTL DEF Spec, VolumeNeverShrinks
=============================================================================
