-------------------------- MODULE MarketLifecycle --------------------------
(***************************************************************************)
(* The life cycle of one market as the operator's HTTP calls and the       *)
(* oracle ingestion drive it: open, lock, resolve, ingest.  Every handler  *)
(* reads the market row, checks it, and later writes the new state without *)
(* looking again; nothing serializes two handlers.  Settle stands for the  *)
(* commit of settleMarket, which module Settlement has in detail.          *)
(***************************************************************************)
EXTENDS Integers

CONSTANTS
    Calls,      \* calls of the handlers
    CallKind,   \* CallKind[c]: "open", "lock", "resolve" or "ingest"
    Values,     \* settlement values of one contract the sources may report
    NoValue,    \* no row in oracle_results or oracle_observations
    Futures     \* TRUE for an index future, FALSE for a binary market

ASSUME LifecycleAssumption ==
    /\ CallKind \in [Calls -> {"open", "lock", "resolve", "ingest"}]
    /\ Values \subseteq Int
    /\ NoValue \in Int \ Values
    /\ Futures \in BOOLEAN

VARIABLES
    state,        \* column markets.state
    result,       \* table oracle_results: the value recorded for the market
    observation,  \* table oracle_observations
    callPc,       \* where each call is
    callSaw,      \* the market state an ingest call has read
    callValue     \* the value a resolve or ingest call works with

lifecycleVars == <<state, result, observation, callPc, callSaw, callValue>>

MarketState == {"DRAFT", "OPEN", "LOCKED", "RESOLVED", "SETTLED"}

\* Mutant of canTransition: a draft can be locked.
canTransitionDraft(current, next) ==
    \/ current \in {"DRAFT", "OPEN"} /\ next = "LOCKED"
    \/ current = "DRAFT" /\ next = "OPEN"

canTransition(current, next) ==
    <<current, next>> \in {<<"DRAFT", "OPEN">>, <<"OPEN", "LOCKED">>,
                           <<"LOCKED", "RESOLVED">>, <<"LOCKED", "SETTLED">>,
                           <<"RESOLVED", "SETTLED">>}

canResolve(current) == current = "LOCKED"

Init ==
    /\ state = "DRAFT"
    /\ result = NoValue
    /\ observation = NoValue
    /\ callPc = [c \in Calls |-> "idle"]
    /\ callSaw = [c \in Calls |-> "DRAFT"]
    /\ callValue = [c \in Calls |-> NoValue]

Goto(c, label) == callPc' = [callPc EXCEPT ![c] = label]

-----------------------------------------------------------------------------
(* POST /markets/:id/open and POST /markets/:id/lock *)

Target(c) == IF CallKind[c] = "open" THEN "OPEN" ELSE "LOCKED"

TransitionRead(c) ==
    /\ CallKind[c] \in {"open", "lock"}
    /\ callPc[c] = "idle"
    /\ Goto(c, IF canTransition(state, Target(c)) THEN "checked" ELSE "ended")
    /\ UNCHANGED <<state, result, observation, callSaw, callValue>>

TransitionWrite(c) ==
    /\ CallKind[c] \in {"open", "lock"}
    /\ callPc[c] = "checked"
    /\ state' = Target(c)
    /\ Goto(c, "ended")
    /\ UNCHANGED <<result, observation, callSaw, callValue>>

-----------------------------------------------------------------------------
(* POST /markets/:id/resolve *)

ResolveRead(c) ==
    /\ CallKind[c] = "resolve"
    /\ callPc[c] = "idle"
    /\ Goto(c, IF canResolve(state) THEN "checked" ELSE "ended")
    /\ UNCHANGED <<state, result, observation, callSaw, callValue>>

\* A recorded observation of a future comes before the operator's or the
\* provider's value; a binary market asks its oracle.
Sources == IF Futures /\ observation # NoValue THEN {observation} ELSE Values

ResolveValue(c) ==
    /\ CallKind[c] = "resolve"
    /\ callPc[c] = "checked"
    /\ \E v \in Sources : callValue' = [callValue EXCEPT ![c] = v]
    /\ Goto(c, "valued")
    /\ UNCHANGED <<state, result, observation, callSaw>>

-----------------------------------------------------------------------------
(* OracleIngestor.ingestFromFiles, for one file *)

IngestRead(c) ==
    /\ CallKind[c] = "ingest"
    /\ callPc[c] = "idle"
    /\ \E v \in Values : callValue' = [callValue EXCEPT ![c] = v]
    /\ callSaw' = [callSaw EXCEPT ![c] = state]
    /\ Goto(c, "checked")
    /\ UNCHANGED <<state, result, observation>>

\* Mutant of TriggersResolve: the state the file's market was in is not looked at.
TriggersResolveAlways(c) == Futures

\* The state tested is the one read before the observation was written.
TriggersResolve(c) == Futures /\ callSaw[c] = "LOCKED"

IngestObserve(c) ==
    /\ CallKind[c] = "ingest"
    /\ callPc[c] = "checked"
    /\ observation' = callValue[c]
    /\ Goto(c, IF TriggersResolve(c) THEN "valued" ELSE "ended")
    /\ UNCHANGED <<state, result, callSaw, callValue>>

-----------------------------------------------------------------------------
(* The two statements that resolve and triggerResolve end with *)

\* The upsert overwrites a result that is there.
RecordResult(c) ==
    /\ callPc[c] = "valued"
    /\ result' = callValue[c]
    /\ Goto(c, "recorded")
    /\ UNCHANGED <<state, observation, callSaw, callValue>>

\* Mutant of MayUpdate: the two statements are started together.
MayUpdateEarly(c) == callPc[c] \in {"valued", "recorded"}

\* The market row is written when the upsert has been awaited.
MayUpdate(c) == callPc[c] = "recorded"

UpdateResolved(c) ==
    /\ MayUpdate(c)
    /\ state' = "RESOLVED"
    /\ Goto(c, "ended")
    /\ UNCHANGED <<result, observation, callSaw, callValue>>

\* The process stops or a statement fails between two statements of a call.
CallFails(c) ==
    /\ callPc[c] \notin {"idle", "ended"}
    /\ Goto(c, "ended")
    /\ UNCHANGED <<state, result, observation, callSaw, callValue>>

\* settleMarket found a result and commits.
Settle ==
    /\ result # NoValue
    /\ state' = "SETTLED"
    /\ UNCHANGED <<result, observation, callPc, callSaw, callValue>>

CallStep(c) ==
    \/ TransitionRead(c)
    \/ TransitionWrite(c)
    \/ ResolveRead(c)
    \/ ResolveValue(c)
    \/ IngestRead(c)
    \/ IngestObserve(c)
    \/ RecordResult(c)
    \/ UpdateResolved(c)
    \/ CallFails(c)

Next == Settle \/ \E c \in Calls : CallStep(c)

Spec == Init /\ [][Next]_lifecycleVars

-----------------------------------------------------------------------------
(* Properties that hold *)

\* Types of the rows and of the calls; a call about to record has a value to record.
TypeOK ==
    /\ state \in MarketState
    /\ result \in Values \cup {NoValue}
    /\ observation \in Values \cup {NoValue}
    /\ callPc \in [Calls -> {"idle", "checked", "valued", "recorded", "ended"}]
    /\ callSaw \in [Calls -> MarketState]
    /\ callValue \in [Calls -> Values \cup {NoValue}]
    /\ \A c \in Calls : callPc[c] \in {"valued", "recorded"} => callValue[c] \in Values

\* The result and the market row are written by two statements outside any
\* transaction, and the process may stop between them: a market that shows as
\* resolved or settled nevertheless has a recorded result to be settled by.
ResolvedHasResult == state \in {"RESOLVED", "SETTLED"} => result # NoValue

\* Both ways to record a result test a state that may be stale when they write; a
\* result is still recorded only after some lock call has closed the market.
ResultNeedsLock ==
    result # NoValue => \E c \in Calls : CallKind[c] = "lock" /\ callPc[c] = "ended"

OpenCalls == {c \in Calls : CallKind[c] = "open"}

\* When the operator opens the market once, no interleaving of the other handlers
\* opens it for trading again after it was locked.
OneOpenNeverReopens ==
    [][ (\A c, d \in OpenCalls : c = d) /\ state # "DRAFT" /\ state' = "OPEN"
            => state = "OPEN" ]_lifecycleVars
=============================================================================
