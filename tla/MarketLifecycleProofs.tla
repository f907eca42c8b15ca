------------------------ MODULE MarketLifecycleProofs ------------------------
(***************************************************************************)
(* Whenever a market shows as resolved or settled its result is there.     *)
(***************************************************************************)
EXTENDS MarketLifecycle, TLAPS

\* What makes ResolvedHasResult inductive: a call that is about to record holds a
\* value (which TypeOK says, but for the value an ingestion brings along), and one
\* that has recorded leaves a result behind.
CallsHoldValues ==
    /\ TypeOK
    /\ \A c \in Calls : CallKind[c] = "ingest" /\ callPc[c] = "checked" => callValue[c] \in Values
    /\ \A c \in Calls : callPc[c] = "recorded" => result # NoValue

LifecycleInv == CallsHoldValues /\ ResolvedHasResult

LEMMA LifecycleInit ==
    ASSUME Init
    PROVE  LifecycleInv
BY LifecycleAssumption DEF Init, LifecycleInv, CallsHoldValues, TypeOK, ResolvedHasResult, MarketState

LEMMA CallStepKeeps ==
    ASSUME LifecycleInv, NEW c \in Calls, CallStep(c)
    PROVE  LifecycleInv'
<1> USE LifecycleAssumption DEF LifecycleInv, CallsHoldValues, TypeOK, ResolvedHasResult,
            MarketState, Goto
<1>1. CASE TransitionRead(c)
  BY <1>1 DEF TransitionRead
<1>2. CASE TransitionWrite(c)
  BY <1>2 DEF TransitionWrite, Target
<1>3. CASE ResolveRead(c)
  BY <1>3 DEF ResolveRead
<1>4. CASE ResolveValue(c)
  <2>1. PICK v \in Sources : callValue' = [callValue EXCEPT ![c] = v]
    BY <1>4 DEF ResolveValue
  <2>2. v \in Values
    BY <2>1 DEF Sources
  <2> QED
    BY <1>4, <2>1, <2>2 DEF ResolveValue
<1>5. CASE IngestRead(c)
  <2>1. PICK v \in Values : callValue' = [callValue EXCEPT ![c] = v]
    BY <1>5 DEF IngestRead
  <2> QED
    BY <1>5, <2>1 DEF IngestRead
<1>6. CASE IngestObserve(c)
  BY <1>6 DEF IngestObserve
<1>7. CASE RecordResult(c)
  BY <1>7 DEF RecordResult
<1>8. CASE UpdateResolved(c)
  BY <1>8 DEF UpdateResolved, MayUpdate
<1>9. CASE CallFails(c)
  BY <1>9 DEF CallFails
<1> QED
  BY <1>1, <1>2, <1>3, <1>4, <1>5, <1>6, <1>7, <1>8, <1>9 DEF CallStep

\* Results are overwritten but never deleted.
LEMMA CallStepKeepsResult ==
    ASSUME LifecycleInv, result # NoValue, NEW c \in Calls, CallStep(c)
    PROVE  result' # NoValue
<1>1. CASE RecordResult(c)
  <2>1. result' \in Values
    BY <1>1 DEF LifecycleInv, CallsHoldValues, TypeOK, RecordResult
  <2> QED
    BY <2>1, LifecycleAssumption
<1>2. CASE ~RecordResult(c)
  BY <1>2 DEF CallStep, TransitionRead, TransitionWrite, ResolveRead, ResolveValue,
     IngestRead, IngestObserve, UpdateResolved, CallFails
<1> QED
  BY <1>1, <1>2

LEMMA SettleKeeps ==
    ASSUME LifecycleInv, Settle
    PROVE  LifecycleInv'
BY DEF LifecycleInv, CallsHoldValues, TypeOK, ResolvedHasResult, MarketState, Settle

LEMMA LifecycleStutterKeeps ==
    ASSUME LifecycleInv, UNCHANGED lifecycleVars
    PROVE  LifecycleInv'
BY DEF LifecycleInv, CallsHoldValues, TypeOK, ResolvedHasResult, lifecycleVars

LEMMA LifecycleStep ==
    ASSUME LifecycleInv, [Next]_lifecycleVars
    PROVE  LifecycleInv'
BY CallStepKeeps, SettleKeeps, LifecycleStutterKeeps DEF Next

\* The rows and the calls keep their types, for every set of calls and values.
THEOREM TypeCorrect == Spec => []TypeOK
<1>1. Init => LifecycleInv
  BY LifecycleInit
<1>2. LifecycleInv /\ [Next]_lifecycleVars => LifecycleInv'
  BY LifecycleStep
<1>3. LifecycleInv => TypeOK
  BY DEF LifecycleInv, CallsHoldValues
<1> QED
  BY <1>1, <1>2, <1>3, PTL DEF Spec

\* A market that shows as resolved or settled has a recorded result, for every set
\* of operator calls and ingestions and every interleaving of their statements.
THEOREM ResolvedIsBacked == Spec => []ResolvedHasResult
<1>1. Init => LifecycleInv
  BY LifecycleInit
<1>2. LifecycleInv /\ [Next]_lifecycleVars => LifecycleInv'
  BY LifecycleStep
<1>3. LifecycleInv => ResolvedHasResult
  BY DEF LifecycleInv
<1> QED
  BY <1>1, <1>2, <1>3, PTL DEF Spec

-----------------------------------------------------------------------------
\* Calls that have ended stay so: they witness that the market was opened and locked.
Ended(kind) == \E c \in Calls : CallKind[c] = kind /\ callPc[c] = "ended"
Closed == Ended("open") /\ Ended("lock")

\* Whatever a call goes on from was preceded by the calls it takes to get there.
HistoryInv ==
    /\ state # "DRAFT" => Ended("open")
    /\ state \in {"LOCKED", "RESOLVED", "SETTLED"} \/ result # NoValue => Closed
    /\ \A c \in Calls :
        /\ CallKind[c] = "lock" /\ callPc[c] = "checked" => Ended("open")
        /\ CallKind[c] = "resolve" /\ callPc[c] = "checked" => Closed
        /\ callSaw[c] = "LOCKED" => Closed
        /\ callPc[c] \in {"valued", "recorded"} => Closed

LEMMA HistoryInit ==
    ASSUME Init
    PROVE  HistoryInv
BY DEF Init, HistoryInv

LEMMA EndedStays ==
    ASSUME LifecycleInv, NEW kind, Ended(kind), [Next]_lifecycleVars
    PROVE  Ended(kind)'
<1>1. PICK e \in Calls : CallKind[e] = kind /\ callPc[e] = "ended"
  BY DEF Ended
<1>2. callPc'[e] = "ended"
  BY <1>1 DEF Next, CallStep, TransitionRead, TransitionWrite, ResolveRead, ResolveValue,
     IngestRead, IngestObserve, RecordResult, UpdateResolved, MayUpdate, CallFails, Settle, Goto,
     lifecycleVars, LifecycleInv, CallsHoldValues, TypeOK
<1> QED
  BY <1>1, <1>2 DEF Ended

LEMMA HistoryStep ==
    ASSUME LifecycleInv, HistoryInv, [Next]_lifecycleVars
    PROVE  HistoryInv'
<1>1. (Ended("open") => Ended("open")') /\ (Closed => Closed')
  BY EndedStays DEF Closed
<1>2. ASSUME NEW c \in Calls, CallStep(c)
      PROVE  HistoryInv'
  <2> USE <1>1 DEF HistoryInv, LifecycleInv, CallsHoldValues, TypeOK, Goto
  <2>1. CASE TransitionRead(c)
    BY <2>1 DEF TransitionRead, canTransition, Target
  <2>2. CASE TransitionWrite(c)
    <3>1. Ended(CallKind[c])'
      BY <2>2 DEF TransitionWrite, Ended
    <3>2. CASE CallKind[c] = "open"
      BY <2>2, <3>1, <3>2 DEF TransitionWrite, Target
    <3>3. CASE CallKind[c] = "lock"
      BY <2>2, <3>1, <3>3 DEF TransitionWrite, Target, Closed
    <3> QED
      BY <2>2, <3>2, <3>3 DEF TransitionWrite
  <2>3. CASE ResolveRead(c)
    BY <2>3 DEF ResolveRead, canResolve
  <2>4. CASE ResolveValue(c)
    BY <2>4 DEF ResolveValue
  <2>5. CASE IngestRead(c)
    BY <2>5 DEF IngestRead
  <2>6. CASE IngestObserve(c)
    BY <2>6 DEF IngestObserve, TriggersResolve
  <2>7. CASE RecordResult(c)
    BY <2>7 DEF RecordResult, Closed
  <2>8. CASE UpdateResolved(c)
    BY <2>8 DEF UpdateResolved, MayUpdate, Closed
  <2>9. CASE CallFails(c)
    BY <2>9 DEF CallFails
  <2> QED
    BY <1>2, <2>1, <2>2, <2>3, <2>4, <2>5, <2>6, <2>7, <2>8, <2>9 DEF CallStep
<1>3. CASE Settle
  BY <1>1, <1>3 DEF Settle, HistoryInv, Closed
<1>4. CASE UNCHANGED lifecycleVars
  BY <1>1, <1>4 DEF lifecycleVars, HistoryInv
<1> QED
  BY <1>2, <1>3, <1>4 DEF Next

\* A result is recorded only once a lock call has ended, although both handlers that
\* record one go by a state they read earlier.
THEOREM ResultIsAfterLock == Spec => []ResultNeedsLock
<1>1. Init => LifecycleInv /\ HistoryInv
  BY LifecycleInit, HistoryInit
<1>2. LifecycleInv /\ HistoryInv /\ [Next]_lifecycleVars => (LifecycleInv /\ HistoryInv)'
  BY LifecycleStep, HistoryStep
<1>3. HistoryInv => ResultNeedsLock
  BY DEF HistoryInv, ResultNeedsLock, Closed, Ended
<1> QED
  BY <1>1, <1>2, <1>3, PTL DEF Spec

\* With one open call trading never begins again, whatever stale writes the other
\* calls make.
THEOREM TradingEndsForGood == Spec => OneOpenNeverReopens
<1> DEFINE Reopens == ~( (\A c, d \in OpenCalls : c = d) /\ state # "DRAFT" /\ state' = "OPEN"
                            => state = "OPEN" )
<1>1. Init => LifecycleInv /\ HistoryInv
  BY LifecycleInit, HistoryInit
<1>2. LifecycleInv /\ HistoryInv /\ [Next]_lifecycleVars => (LifecycleInv /\ HistoryInv)'
  BY LifecycleStep, HistoryStep
<1>3. HistoryInv /\ [Next]_lifecycleVars => ~Reopens
  <2> SUFFICES ASSUME HistoryInv, [Next]_lifecycleVars, Reopens
               PROVE  FALSE
    OBVIOUS
  <2>1. PICK c \in Calls : TransitionWrite(c) /\ CallKind[c] = "open"
    BY DEF Next, CallStep, TransitionRead, TransitionWrite, ResolveRead, ResolveValue, IngestRead,
       IngestObserve, RecordResult, UpdateResolved, CallFails, Settle, lifecycleVars, Target
  <2>2. PICK d \in Calls : CallKind[d] = "open" /\ callPc[d] = "ended"
    BY DEF HistoryInv, Ended
  <2>3. c = d
    BY <2>1, <2>2 DEF OpenCalls
  <2> QED
    BY <2>1, <2>2, <2>3 DEF TransitionWrite
<1> QED
  BY <1>1, <1>2, <1>3, PTL DEF Spec, OneOpenNeverReopens
=============================================================================
