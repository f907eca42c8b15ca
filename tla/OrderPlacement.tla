--------------------------- MODULE OrderPlacement ---------------------------
(***************************************************************************)
(* Placing and cancelling orders in futures markets: ExchangeService, the  *)
(* pre-trade risk engine, the matching adapter, the trade handlers and the *)
(* ledger, as concurrent requests against one PostgreSQL database.         *)
(*                                                                         *)
(* One element of Orders is one call of placeOrder (the id of the order it *)
(* creates).  A call validates outside any transaction, then opens a       *)
(* transaction that takes the market's advisory lock, loads the book,      *)
(* matches, writes the order rows, posts one journal, upserts positions,   *)
(* broadcasts the trades, and commits.  Isolation is READ COMMITTED: what  *)
(* a transaction writes is seen by others when it commits, each statement  *)
(* of it reads what is committed at that moment, and a row it has written  *)
(* stays locked until it ends.                                             *)
(***************************************************************************)
EXTENDS Integers, FiniteSetsExt, Functions

CONSTANTS
    Markets,              \* market ids
    Accounts,             \* account ids
    Orders,               \* calls of placeOrder
    Requests,             \* Requests[o]: what call o may ask for
    OpeningBalance,       \* OpeningBalance[a]: balance the account is created with
    PriceGrid,            \* limit prices within the market's bounds and on its tick
    MaxPrice,             \* market.maxPrice, the price a MARKET order is risked at
    MaxOrderNotional,     \* MAX_ORDER_NOTIONAL
    MaxPositionNotional,  \* MAX_POSITION_NOTIONAL
    ContractMultiplier,   \* market.contractMultiplier
    MaxRestingPerSide     \* MAX_RESTING_PER_SIDE

Side == {"BUY", "SELL", "BUY_YES", "BUY_NO"}
OrderType == {"LIMIT", "MARKET"}
OrderStatus == {"PENDING", "PARTIALLY_FILLED", "FILLED", "CANCELLED"}

\* A market order carries no price; 0 stands for null.
Request == [account : Accounts, market : Markets, side : Side,
            type : OrderType, price : Nat, quantity : Nat]

ASSUME RequestsAssumption ==
    /\ Requests \in [Orders -> SUBSET Request]
    /\ OpeningBalance \in [Accounts -> Int]
    /\ PriceGrid \subseteq Nat \ {0}

VARIABLES
    market,      \* [Markets -> state], column markets.state
    request,     \* what each call asks for
    status,      \* column orders.status, "NONE" while the row does not exist
    filled,      \* column orders.filledQuantity
    createdAt,   \* column orders.createdAt
    balance,     \* column accounts.balance
    ledger,      \* per account, credits minus debits of its committed journal lines
    position,    \* column positions.quantity, per market and account
    trades,      \* table trades
    executed,    \* history: per order, the quantity of the rows of trades naming it
    announced,   \* trades broadcast to WebSocket clients
    clock,       \* the database clock that stamps createdAt
    pc,          \* where each call is
    cancelling,  \* orders a cancelOrder call has read as cancellable and not yet written
    left,        \* left[o][r]: what transaction o still sees available of r on its book
    got,         \* got[o][r]: what transaction o matched against r
    rest,        \* rest[o]: what is still unmatched of the incoming order o
    cash,        \* cash[o]: balanceDeltaByAccount of transaction o
    move,        \* move[o]: positionDeltaByKey of transaction o
    seen,        \* seen[o]: account balances postJournal has read
    newPos       \* newPos[o]: position quantities transaction o will have written

rowVars == <<status, filled, createdAt, executed, trades, clock>>
moneyVars == <<balance, ledger, position>>
localVars == <<left, got, rest, cash, move, seen, newPos>>
vars == <<market, request, rowVars, moneyVars, announced, pc, cancelling, localVars>>

\* Transactions hold their market's lock from "matching" until they end.
InTransaction == {"matching", "written", "posted"}
Ended == {"rejected", "committed", "aborted"}

-----------------------------------------------------------------------------
(* Orders and the book *)

\* The side an order takes on the book of the matching library.
LibSide(o) == IF request[o].side \in {"BUY", "BUY_YES"} THEN "buy" ELSE "sell"

IsResting(o) == status[o] \in {"PENDING", "PARTIALLY_FILLED"}

\* Mutants of StatusFor.
StatusForNew(o, amount) == IF amount >= request[o].quantity THEN "FILLED" ELSE "NEW"
StatusForOver(o, amount) == IF amount > request[o].quantity THEN "FILLED" ELSE "PENDING"

\* PENDING, PARTIALLY_FILLED or FILLED, as the matcher derives it.
StatusFor(o, amount) ==
    CASE amount >= request[o].quantity -> "FILLED"
      [] amount < request[o].quantity /\ amount > 0 -> "PARTIALLY_FILLED"
      [] OTHER -> "PENDING"

\* Mutant of WithinLimit: equal prices do not match.
WithinLimitStrict(o, r) ==
    \/ request[o].type = "MARKET"
    \/ LibSide(o) = "buy" /\ request[r].price < request[o].price
    \/ LibSide(o) = "sell" /\ request[r].price > request[o].price

\* Would incoming order o trade at the price of resting order r?
WithinLimit(o, r) ==
    \/ request[o].type = "MARKET"
    \/ LibSide(o) = "buy" /\ request[r].price <= request[o].price
    \/ LibSide(o) = "sell" /\ request[r].price >= request[o].price

\* Resting order q has price-time priority over resting order r of the same side.
Ahead(q, r) ==
    \/ LibSide(q) = "sell" /\ request[q].price < request[r].price
    \/ LibSide(q) = "buy" /\ request[q].price > request[r].price
    \/ request[q].price = request[r].price /\ createdAt[q] < createdAt[r]

\* The book of market m as findRestingForMatching and the rehydration loop leave
\* it: remaining quantity per order, orders without a positive price skipped.
BookOf(m) ==
    [r \in Orders |->
        IF IsResting(r) /\ request[r].market = m /\ request[r].price > 0
        THEN request[r].quantity - filled[r] ELSE 0]

Crossing(o) ==
    {r \in Orders : left[o][r] > 0 /\ LibSide(r) # LibSide(o) /\ WithinLimit(o, r)}

\* Mutant of Best: the first order found, whatever its priority.
BestAny(o) == Crossing(o)

\* The order the library matches next.
Best(o) == {r \in Crossing(o) : \A s \in Crossing(o) \ {r} : Ahead(r, s)}

Hit(o) == {r \in Orders : got[o][r] > 0}

CanMatch(o) == rest[o] > 0 /\ Crossing(o) # {}

NoAmounts == [r \in Orders |-> 0]
NoDeltas == [a \in Accounts |-> 0]

-----------------------------------------------------------------------------
(* Pre-trade checks *)

RestingCount(a, m, buys) ==
    Cardinality({o \in Orders : /\ IsResting(o)
                                /\ request[o].account = a
                                /\ request[o].market = m
                                /\ (request[o].side # "SELL") = buys})

Abs(n) == IF n < 0 THEN -n ELSE n

RiskPrice(r) == IF r.type = "LIMIT" THEN r.price ELSE MaxPrice

WellFormed(r) ==
    /\ r.quantity > 0
    /\ r.type = "LIMIT" =>
            /\ r.price \in PriceGrid
            /\ r.side \in {"BUY_YES", "BUY_NO"} => r.price <= 1
    /\ r.type = "MARKET" => r.price = 0

HasBalance(r) ==
    r.side # "SELL" =>
        balance[r.account] >= (IF r.type = "LIMIT" THEN r.price ELSE 1) * r.quantity

PositionAfter(r) ==
    position[r.market][r.account] + (IF r.side = "BUY" THEN r.quantity ELSE -r.quantity)

validateOrder(r) ==
    /\ WellFormed(r)
    /\ market[r.market] = "OPEN"
    /\ RiskPrice(r) * r.quantity <= MaxOrderNotional
    /\ HasBalance(r)
    /\ RiskPrice(r) * Abs(PositionAfter(r)) * ContractMultiplier <= MaxPositionNotional
    /\ RestingCount(r.account, r.market, r.side # "SELL") < MaxRestingPerSide

-----------------------------------------------------------------------------
Init ==
    /\ market = [m \in Markets |-> "OPEN"]
    /\ request \in {f \in [Orders -> UNION {Requests[o] : o \in Orders}] :
                        \A o \in Orders : f[o] \in Requests[o]}
    /\ status = [o \in Orders |-> "NONE"]
    /\ filled = NoAmounts
    /\ createdAt = NoAmounts
    /\ balance = OpeningBalance
    /\ ledger = NoDeltas
    /\ position = [m \in Markets |-> NoDeltas]
    /\ trades = {}
    /\ executed = NoAmounts
    /\ announced = {}
    /\ clock = 0
    /\ pc = [o \in Orders |-> "new"]
    /\ cancelling = {}
    /\ left = [o \in Orders |-> NoAmounts]
    /\ got = [o \in Orders |-> NoAmounts]
    /\ rest = NoAmounts
    /\ cash = [o \in Orders |-> NoDeltas]
    /\ move = [o \in Orders |-> NoDeltas]
    /\ seen = [o \in Orders |-> NoDeltas]
    /\ newPos = [o \in Orders |-> NoDeltas]

-----------------------------------------------------------------------------
(* placeOrder *)

\* The reads that placeOrder makes in parallel, and validateOrder on them.
Admit(o) ==
    /\ pc[o] = "new"
    /\ validateOrder(request[o])
    /\ pc' = [pc EXCEPT ![o] = "admitted"]
    /\ UNCHANGED <<market, request, rowVars, moneyVars, announced, cancelling, localVars>>

Reject(o) ==
    /\ pc[o] = "new"
    /\ ~validateOrder(request[o])
    /\ pc' = [pc EXCEPT ![o] = "rejected"]
    /\ UNCHANGED <<market, request, rowVars, moneyVars, announced, cancelling, localVars>>

\* Mutants of LockIsFree: a lock taken only around the writes, a session lock that
\* a failed transaction does not give back.
LockIsFreeLate(m) ==
    \A p \in Orders : pc[p] \in {"written", "posted"} => request[p].market # m
LockIsFreeSession(m) ==
    \A p \in Orders : pc[p] \in InTransaction \cup {"aborted"} => request[p].market # m

\* No open transaction holds the advisory lock of market m.
LockIsFree(m) ==
    \A p \in Orders : pc[p] \in InTransaction => request[p].market # m

\* pg_advisory_xact_lock, then findRestingForMatching and the rehydrated book.
LockAndLoadBook(o) ==
    /\ pc[o] = "admitted"
    /\ LockIsFree(request[o].market)
    /\ pc' = [pc EXCEPT ![o] = "matching"]
    /\ left' = [left EXCEPT ![o] = BookOf(request[o].market)]
    /\ rest' = [rest EXCEPT ![o] = request[o].quantity]
    /\ UNCHANGED <<market, request, rowVars, moneyVars, announced, cancelling,
                   got, cash, move, seen, newPos>>

Smaller(i, j) == IF i < j THEN i ELSE j

\* What one trade of quantity q between o and resting order r adds to the balance
\* of account a: the buyer pays, the seller receives, at the resting price.
CashOf(o, r, q, a) ==
    LET cost == request[r].price * q
        buyer == IF LibSide(o) = "buy" THEN o ELSE r
        seller == IF LibSide(o) = "buy" THEN r ELSE o
    IN  (IF a = request[seller].account THEN cost ELSE 0)
            - (IF a = request[buyer].account THEN cost ELSE 0)

\* Mutant of MoveOf: the seller's quantity is not negated.
MoveOfGross(o, r, q, a) == IF a \in {request[o].account, request[r].account} THEN q ELSE 0

\* What it adds to the account's position delta.  When buyer and seller are one
\* account, the handler keeps two entries under one key: the first trade leaves
\* only the seller's, a later one finds a shared entry and nets to nothing.
MoveOf(o, r, q, a) ==
    LET buyer == IF LibSide(o) = "buy" THEN o ELSE r
        seller == IF LibSide(o) = "buy" THEN r ELSE o
        firstTrade == Hit(o) = {}
    IN  CASE a = request[buyer].account /\ a = request[seller].account
                -> IF firstTrade THEN -q ELSE 0
          [] a = request[buyer].account /\ a # request[seller].account -> q
          [] a # request[buyer].account /\ a = request[seller].account -> -q
          [] OTHER -> 0

\* One trade of matchOrderWithOss and the deltas the trade handler nets for it.
\* Both loops visit the trades in the same order and touch only local state.
MatchNext(o) ==
    /\ pc[o] = "matching"
    /\ rest[o] > 0
    /\ \E r \in Best(o) :
        LET q == Smaller(rest[o], left[o][r])
        IN  /\ left' = [left EXCEPT ![o][r] = @ - q]
            /\ got' = [got EXCEPT ![o][r] = @ + q]
            /\ rest' = [rest EXCEPT ![o] = @ - q]
            /\ cash' = [cash EXCEPT ![o] = [a \in Accounts |-> @[a] + CashOf(o, r, q, a)]]
            /\ move' = [move EXCEPT ![o] = [a \in Accounts |-> @[a] + MoveOf(o, r, q, a)]]
    /\ UNCHANGED <<market, request, rowVars, moneyVars, announced, pc, cancelling,
                   seen, newPos>>

\* Mutant of AfterPersist: the handlers run for completely filled orders only.
AfterPersistFilled(o) == IF rest[o] # 0 THEN "posted" ELSE "written"

\* Without trades the handlers return early.
AfterPersist(o) == IF Hit(o) = {} THEN "posted" ELSE "written"

\* order.create, trade.createMany and the counterparty updates, all pending until
\* the commit; then postJournal reads the accounts whose balance moves.
PersistFills(o) ==
    /\ pc[o] = "matching"
    /\ ~CanMatch(o)
    /\ pc' = [pc EXCEPT ![o] = AfterPersist(o)]
    /\ seen' = [seen EXCEPT ![o] =
                    [a \in Accounts |-> IF cash[o][a] # 0 THEN balance[a] ELSE 0]]
    /\ UNCHANGED <<market, request, rowVars, moneyVars, announced, cancelling,
                   left, got, rest, cash, move, newPos>>

Parties(o) == {request[o].account} \cup {request[r].account : r \in Hit(o)}

Deals(o) ==
    {[taker |-> o, maker |-> r, price |-> request[r].price, quantity |-> got[o][r]] :
        r \in Hit(o)}

\* Account rows o has to update are not row-locked by another transaction.
AccountRowsFree(o) ==
    \A p \in Orders \ {o} : pc[p] = "posted" =>
        \A a \in Accounts : cash[o][a] = 0 \/ cash[p][a] = 0

\* The rest of the trade handler: account updates, positions read and upserted,
\* trades broadcast, all before the transaction commits.
PostTradeEvent(o) ==
    /\ pc[o] = "written"
    /\ AccountRowsFree(o)
    /\ pc' = [pc EXCEPT ![o] = "posted"]
    /\ newPos' = [newPos EXCEPT ![o] =
            [a \in Accounts |-> IF a \in Parties(o)
                                THEN position[request[o].market][a] + move[o][a] ELSE 0]]
    /\ announced' = announced \cup Deals(o)
    /\ UNCHANGED <<market, request, rowVars, moneyVars, cancelling,
                   left, got, rest, cash, move, seen>>

\* Mutant of FilledAfter: what was filled before is not added.
FilledAfterAfresh(o, r) == IF r = o THEN request[o].quantity - rest[o] ELSE got[o][r]

\* filledQuantity that transaction o writes to order r: an absolute value computed
\* from the book it loaded.
FilledAfter(o, r) ==
    request[r].quantity - (IF r = o THEN rest[o] ELSE left[o][r])

\* Mutant of NewBalance: debits are not written to the account.
NewBalanceCredits(o, a) == IF cash[o][a] > 0 THEN seen[o][a] + cash[o][a] ELSE balance[a]

\* The absolute balance postJournal writes, from the balance it has read.
NewBalance(o, a) == IF cash[o][a] # 0 THEN seen[o][a] + cash[o][a] ELSE balance[a]

ForgetLocals(o) ==
    /\ left' = [left EXCEPT ![o] = NoAmounts]
    /\ got' = [got EXCEPT ![o] = NoAmounts]
    /\ rest' = [rest EXCEPT ![o] = 0]
    /\ cash' = [cash EXCEPT ![o] = NoDeltas]
    /\ move' = [move EXCEPT ![o] = NoDeltas]
    /\ seen' = [seen EXCEPT ![o] = NoDeltas]
    /\ newPos' = [newPos EXCEPT ![o] = NoDeltas]

\* COMMIT makes every row the transaction wrote visible and releases its locks.
Commit(o) ==
    /\ pc[o] = "posted"
    /\ pc' = [pc EXCEPT ![o] = "committed"]
    /\ filled' = [r \in Orders |->
            IF r \in Hit(o) \cup {o} THEN FilledAfter(o, r) ELSE filled[r]]
    /\ status' = [r \in Orders |->
            IF r \in Hit(o) \cup {o} THEN StatusFor(r, FilledAfter(o, r)) ELSE status[r]]
    /\ clock' = clock + 1
    /\ createdAt' = [createdAt EXCEPT ![o] = clock']
    /\ trades' = trades \cup Deals(o)
    /\ executed' = [r \in Orders |-> executed[r] +
            (IF r = o THEN request[o].quantity - rest[o] ELSE got[o][r])]
    /\ balance' = [a \in Accounts |-> NewBalance(o, a)]
    /\ ledger' = [a \in Accounts |-> ledger[a] + cash[o][a]]
    /\ position' = [position EXCEPT ![request[o].market] = [a \in Accounts |->
            IF Hit(o) # {} /\ a \in Parties(o) THEN newPos[o][a] ELSE @[a]]]
    /\ ForgetLocals(o)
    /\ UNCHANGED <<market, request, announced, cancelling>>

\* The transaction fails (deadlock victim, timeout, crash of the server): nothing
\* it wrote is kept, what it broadcast is not taken back.
Abort(o) ==
    /\ pc[o] \in InTransaction \cup {"admitted"}
    /\ pc' = [pc EXCEPT ![o] = "aborted"]
    /\ ForgetLocals(o)
    /\ UNCHANGED <<market, request, rowVars, moneyVars, announced, cancelling>>

-----------------------------------------------------------------------------
(* cancelOrder: a read and a check, then an unconditional update *)

CancelRead(o) ==
    /\ IsResting(o)
    /\ cancelling' = cancelling \cup {o}
    /\ UNCHANGED <<market, request, rowVars, moneyVars, announced, pc, localVars>>

\* The UPDATE waits while a transaction that has written the row is open.
OrderRowFree(r) ==
    \A p \in Orders : pc[p] \in {"written", "posted"} => r \notin Hit(p)

CancelWrite(o) ==
    /\ o \in cancelling
    /\ OrderRowFree(o)
    /\ status' = [status EXCEPT ![o] = "CANCELLED"]
    /\ cancelling' = cancelling \ {o}
    /\ UNCHANGED <<market, request, filled, createdAt, executed, trades, clock,
                   moneyVars, announced, pc, localVars>>

\* An operator locks the market; MarketLifecycle has the whole life cycle.
LockMarket(m) ==
    /\ market[m] = "OPEN"
    /\ market' = [market EXCEPT ![m] = "LOCKED"]
    /\ UNCHANGED <<request, rowVars, moneyVars, announced, pc, cancelling, localVars>>

-----------------------------------------------------------------------------
Place(o) ==
    \/ Admit(o)
    \/ Reject(o)
    \/ LockAndLoadBook(o)
    \/ MatchNext(o)
    \/ PersistFills(o)
    \/ PostTradeEvent(o)
    \/ Commit(o)
    \/ Abort(o)

Next ==
    \/ \E o \in Orders : Place(o) \/ CancelRead(o) \/ CancelWrite(o)
    \/ \E m \in Markets : LockMarket(m)

Spec == Init /\ [][Next]_vars

\* The server keeps executing a call it has started.  PostgreSQL grants locks in
\* the order they are asked for, so a waiter that keeps finding the lock free in
\* turn gets it: strong fairness on the two steps that wait.
Fairness ==
    \A o \in Orders :
        /\ SF_vars(LockAndLoadBook(o))
        /\ WF_vars(MatchNext(o) \/ PersistFills(o) \/ Commit(o))
        /\ SF_vars(PostTradeEvent(o))

FairSpec == Spec /\ Fairness

-----------------------------------------------------------------------------
(* Properties that hold *)

\* Types; the database and the local state of every call keep their shape.
TypeOK ==
    /\ market \in [Markets -> {"OPEN", "LOCKED"}]
    /\ request \in [Orders -> Request]
    /\ status \in [Orders -> OrderStatus \cup {"NONE"}]
    /\ filled \in [Orders -> Int]
    /\ createdAt \in [Orders -> Nat]
    /\ balance \in [Accounts -> Int]
    /\ ledger \in [Accounts -> Int]
    /\ position \in [Markets -> [Accounts -> Int]]
    /\ trades \subseteq [taker : Orders, maker : Orders, price : Nat, quantity : Int]
    /\ executed \in [Orders -> Int]
    /\ announced \subseteq [taker : Orders, maker : Orders, price : Nat, quantity : Int]
    /\ clock \in Nat
    /\ pc \in [Orders -> {"new", "admitted"} \cup InTransaction \cup Ended]
    /\ cancelling \subseteq Orders
    /\ left \in [Orders -> [Orders -> Int]]
    /\ got \in [Orders -> [Orders -> Int]]
    /\ rest \in [Orders -> Int]
    /\ cash \in [Orders -> [Accounts -> Int]]
    /\ move \in [Orders -> [Accounts -> Int]]
    /\ seen \in [Orders -> [Accounts -> Int]]
    /\ newPos \in [Orders -> [Accounts -> Int]]

\* Placements write absolute filled quantities computed from the book they loaded,
\* while other placements and cancellations run: no fill is lost or counted twice.
\* filledQuantity of an order is the sum of the trades that name it.
FilledMatchesTrades ==
    \A o \in Orders :
        filled[o] = SumFunctionOnSet([t \in trades |-> t.quantity],
                                     {t \in trades : o \in {t.taker, t.maker}})

\* The same against the running total of the trade table.
FilledIsExecuted == \A o \in Orders : filled[o] = executed[o]

\* No order is filled beyond its quantity, and the status a placement writes agrees
\* with the quantity filled whatever a racing cancellation did in between.
StatusMatchesFill ==
    \A o \in Orders :
        /\ filled[o] >= 0
        /\ status[o] # "NONE" => filled[o] <= request[o].quantity
        /\ status[o] \in {"NONE", "PENDING"} => filled[o] = 0
        /\ status[o] = "PARTIALLY_FILLED" => 0 < filled[o] /\ filled[o] < request[o].quantity
        /\ status[o] = "FILLED" => filled[o] = request[o].quantity

\* Two resting limit orders of one market never overlap in price: whatever could
\* trade has traded, under concurrent placements, cancellations and failures.
BookNotCrossed ==
    \A b, s \in Orders :
        /\ IsResting(b) /\ request[b].type = "LIMIT" /\ LibSide(b) = "buy"
        /\ IsResting(s) /\ request[s].type = "LIMIT" /\ LibSide(s) = "sell"
        /\ request[b].market = request[s].market
        => request[b].price < request[s].price

\* Price-time priority: an incoming order never trades with a resting order while
\* another of better price, or of the same price and earlier, could still trade.
PriceTimePriority ==
    \A o \in Orders : \A r \in Hit(o), s \in Crossing(o) : ~Ahead(s, r)

AccountsOf(t) == {request[t.taker].account, request[t.maker].account}

Bought(t, a) ==
    LET buyer == IF LibSide(t.taker) = "buy" THEN t.taker ELSE t.maker
        seller == IF LibSide(t.taker) = "buy" THEN t.maker ELSE t.taker
    IN  (IF request[buyer].account = a THEN t.quantity ELSE 0)
            - (IF request[seller].account = a THEN t.quantity ELSE 0)

TradesIn(m) == {t \in trades : request[t.taker].market = m}

NetContracts(a, m) == SumFunctionOnSet([t \in trades |-> Bought(t, a)], TradesIn(m))

\* Positions are written as absolute values too: an account that never traded with
\* itself in a market holds exactly the contracts its trades there add up to.
PositionsMatchTrades ==
    \A a \in Accounts, m \in Markets :
        (\A t \in TradesIn(m) : AccountsOf(t) # {a})
            => position[m][a] = NetContracts(a, m)

LedgerBalance(a) == OpeningBalance[a] + ledger[a]

\* The market lock makes postJournal's read-modify-write safe inside one market: an
\* account whose trades are all in one market has the balance its journal lines give.
OneMarketBalanceIsLedger ==
    \A a \in Accounts :
        Cardinality({request[t.taker].market : t \in {u \in trades : a \in AccountsOf(u)}}) <= 1
            => balance[a] = LedgerBalance(a)

\* Trades are broadcast before the commit: a client that listens misses none.
CommittedTradesAnnounced == trades \subseteq announced

\* A committed fill is never taken back by a placement that started earlier.
FilledNeverShrinks == [][\A o \in Orders : filled'[o] >= filled[o]]_vars

\* What another request can see of the order rows.
Rows == [o \in Orders |-> [status |-> status[o], filled |-> filled[o], at |-> createdAt[o]]]

Atomic == INSTANCE Exchange WITH order <- Rows, deals <- trades

\* However the statements of placements and cancellations interleave, and whichever of
\* them fail, the committed rows change as if each placement were a single step that
\* matches by price-time priority against the orders then resting.
ImplementsExchange == Atomic!Spec

\* Locks are waited for, rows are waited for, and no call waits for ever: every
\* admitted placement commits or is aborted.
PlacementEnds == \A o \in Orders : pc[o] = "admitted" ~> pc[o] \in Ended

-----------------------------------------------------------------------------
(* Statements of the documentation that the code does not keep *)

\* ledgerService.ts: an account's balance is its credits minus its debits.
BalanceIsLedger == \A a \in Accounts : balance[a] = LedgerBalance(a)
=============================================================================
