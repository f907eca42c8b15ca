------------------------------ MODULE Portfolio ------------------------------
(***************************************************************************)
(* What accounts hold and what the read models say of it: binary markets,  *)
(* futures positions with their cost basis, profit and loss and exposure,  *)
(* the deletion of accounts, and the administrator's list of agents.       *)
(*                                                                         *)
(* Futures trades come from OrderPlacement, one event per placement.       *)
(* Prices and averages are on one grid, as in a column of fixed scale: an  *)
(* average between two of its points is rounded, half of the way upwards.  *)
(***************************************************************************)
EXTENDS BinaryMarket

CONSTANTS
    Workloads,       \* settings: what this behaviour may ask for
    PlainAccounts,   \* accounts that no agent has
    Agents,          \* agents the administrator may create while a list is read
    FirstAgents,     \* agents there are, the oldest first
    PageSize,        \* limit of GET /admin/agents
    Multiplier,      \* markets.contractMultiplier
    MaxPrice,        \* markets.maxPrice of the futures market
    Values,          \* values its index may take, within that price
    MaxTrades,       \* bound of the futures trades
    LastDay          \* bound of the clock

\* An event of the futures market: the trades of one placement.
FuturesTrade == [buyer : Accounts, seller : Accounts, price : Nat, quantity : Nat \ {0}]

ASSUME PortfolioAssumption ==
    /\ Workloads \subseteq [inputs : [Orders -> SUBSET Input], admin : SUBSET {"create", "delete", "list"},
                       events : SUBSET Seq(FuturesTrade)]
    /\ PlainAccounts \subseteq Accounts
    /\ FirstAgents \in Seq(Agents)
    /\ {PageSize, Multiplier, MaxPrice} \subseteq Nat \ {0}
    /\ Values \subseteq 0..MaxPrice

VARIABLES
    workload,   \* the setting of this behaviour
    holding,    \* columns positions.quantity, averagePrice and realizedPnl
    turned,     \* history: accounts that went from long to short or back in one trade
    rounded,    \* history: accounts whose average price was not on the grid and was rounded
    exists,     \* accounts there are
    deleting,   \* accounts whose history was counted as empty: the time of the counts
    agents,     \* table agent_profiles, the oldest first
    list        \* a client that reads GET /admin/agents page by page

vars == <<workload, marketVars, now, holding, turned, rounded, exists, deleting, agents, list>>

-----------------------------------------------------------------------------
(* computeCostBasis *)

Flat == [quantity |-> 0, average |-> 0, realized |-> 0]
Size(n) == IF n < 0 THEN -n ELSE n
SameSide(p, q) == (p > 0 /\ q > 0) \/ (p < 0 /\ q < 0)
Quotient(x, n) == IF 2 * (x % n) < n THEN x \div n ELSE x \div n + 1

\* Mutant of AverageAfter: the average moves when a position is reduced too.
AverageAfterReduced(h, price, q) ==
    IF h.quantity + q = 0 THEN 0 ELSE Quotient(Size(h.quantity) * h.average + Size(q) * price, Size(h.quantity + q))

\* An addition is averaged in; a reduction keeps the average, also past zero.
AverageAfter(h, price, q) ==
    CASE h.quantity + q = 0 -> 0
      [] h.quantity = 0 -> price
      [] SameSide(h.quantity, q) -> Quotient(Size(h.quantity) * h.average + Size(q) * price, Size(h.quantity + q))
      [] OTHER -> h.average

\* What the closed part of a position has earned.
Earned(h, price, q) ==
    IF h.quantity = 0 \/ SameSide(h.quantity, q) THEN 0
    ELSE LET closed == Lesser(Size(h.quantity), Size(q))
         IN  closed * (IF h.quantity > 0 THEN price - h.average ELSE h.average - price)

Booked(h, price, q) ==
    [quantity |-> h.quantity + q, average |-> AverageAfter(h, price, q),
     realized |-> h.realized + Earned(h, price, q)]

\* A holding of account a after each of the trades of one event.
CostBasis(h, a, deals) ==
    LET after[n \in 0..Len(deals)] ==
            IF n = 0 THEN h
            ELSE LET t == deals[n]
                     b == IF Keeps(deals, a, n) THEN Booked(after[n - 1], t.price, t.quantity)
                          ELSE after[n - 1]
                 IN  IF t.seller = a THEN Booked(b, t.price, -t.quantity) ELSE b
    IN  after

Turns(after) == \E n \in DOMAIN after \ {0} : after[n - 1].quantity * after[n].quantity < 0

\* An addition whose average the column cannot hold.
Rounds(after, deals) ==
    \E n \in DOMAIN after \ {0} :
        LET h == after[n - 1]
            q == after[n].quantity - h.quantity
        IN  /\ SameSide(h.quantity, q)
            /\ (Size(h.quantity) * h.average + Size(q) * deals[n].price) % Size(h.quantity + q) # 0

-----------------------------------------------------------------------------
(* The read models *)

Recent == {i \in DOMAIN trades : now - trades[i].at <= 1}

\* Mutant of Pnl24h: what was paid is left out.
Pnl24hGross(a) == BalanceDelta(trades, a, {i \in Recent : trades[i].seller = a})

\* One account: the case of the seller comes first.
Pnl24h(a) ==
    SumFunctionOnSet([i \in DOMAIN trades |->
                        LET cost == trades[i].price * trades[i].quantity
                        IN  CASE trades[i].seller = a -> cost
                              [] trades[i].seller # a /\ trades[i].buyer = a -> -cost
                              [] OTHER -> 0], Recent)

\* Many accounts: the union of what was received and what was paid.
Pnl24hBatch(a) == BalanceDelta(trades, a, Recent)

\* startingBalance is what the account was opened with, here 0.
PnlOfLeaderboard(a) == balance[a]

\* Mutant of Exposure: short and long are not told apart.
ExposureNet(a) == (holding[a].quantity * MaxPrice + share[a].yes + share[a].no) * Multiplier

Exposure(a) ==
    (Size(holding[a].quantity) * MaxPrice + share[a].yes + share[a].no) * Multiplier

\* What a position is settled at, of settlement.ts.
FuturesPayout(a, value) == holding[a].quantity * value * Multiplier
BinaryPayout(a, outcome) ==
    (share[a].yes - share[a].no) * (IF outcome = "YES" THEN Multiplier ELSE -Multiplier)

-----------------------------------------------------------------------------
Idle == [page |-> 0, seen |-> {}, from |-> {}]

Init ==
    /\ workload \in Workloads
    /\ MarketInit
    /\ holding = [a \in Accounts |-> Flat]
    /\ turned = {}
    /\ rounded = {}
    /\ exists = Accounts
    /\ deleting = <<>>
    /\ agents = FirstAgents
    /\ list = Idle

\* A row names an account that is there, or the statement fails.
Place(o) ==
    \E q \in workload.inputs[o] :
        /\ q.account \in exists
        /\ PlaceBinary(o, q)
        /\ UNCHANGED <<workload, holding, turned, rounded, exists, deleting, agents, list>>

Cancel(o) ==
    /\ CancelBinary(o)
    /\ UNCHANGED <<workload, holding, turned, rounded, exists, deleting, agents, list>>

\* The trade handler for an event of the futures market.
TradeFutures(event) ==
    LET deals == [i \in DOMAIN event |->
            [taker |-> NoOrder, maker |-> NoOrder, buyer |-> event[i].buyer,
             seller |-> event[i].seller, outcome |-> "YES", price |-> event[i].price,
             quantity |-> event[i].quantity, at |-> now]]
    IN  /\ Len(trades) + Len(event) <= MaxTrades
        /\ \A i \in DOMAIN event : {event[i].buyer, event[i].seller} \subseteq exists
        /\ trades' = trades \o deals
        /\ balance' = [a \in Accounts |-> balance[a] + BalanceDelta(deals, a, DOMAIN deals)]
        /\ holding' = [a \in Accounts |-> CostBasis(holding[a], a, deals)[Len(deals)]]
        /\ turned' = turned \cup {a \in Accounts : Turns(CostBasis(holding[a], a, deals))}
        /\ rounded' = rounded \cup {a \in Accounts : Rounds(CostBasis(holding[a], a, deals), deals)}
        /\ UNCHANGED <<workload, order, stamp, share, now, exists, deleting, agents, list>>

-----------------------------------------------------------------------------
(* DELETE /accounts/:id *)

\* Mutant of HasHistory: orders are not counted.
HasHistoryTraded(a) == \E i \in DOMAIN trades : a \in {trades[i].buyer, trades[i].seller}

\* The three counts; a position comes only from a trade.
HasHistory(a) ==
    \/ \E o \in Placed : order[o].account = a
    \/ \E i \in DOMAIN trades : a \in {trades[i].buyer, trades[i].seller}

DeleteRead(a) ==
    /\ "delete" \in workload.admin
    /\ a \in exists \cap PlainAccounts /\ a \notin DOMAIN deleting
    /\ ~HasHistory(a)
    /\ deleting' = [b \in DOMAIN deleting \cup {a} |->
            IF b = a THEN stamp ELSE deleting[b]]
    /\ UNCHANGED <<workload, marketVars, now, holding, turned, rounded, exists, agents, list>>

\* Orders of the account go with it; a trade of it makes the statement fail.
DeleteWrite(a) ==
    LET traded == \E i \in DOMAIN trades : a \in {trades[i].buyer, trades[i].seller}
    IN  /\ a \in DOMAIN deleting
        /\ deleting' = Restrict(deleting, DOMAIN deleting \ {a})
        /\ exists' = IF traded THEN exists ELSE exists \ {a}
        /\ order' = [o \in Orders |->
                IF ~traded /\ o \in Placed /\ order[o].account = a THEN NoRow ELSE order[o]]
        /\ UNCHANGED <<workload, stamp, trades, share, balance, now, holding, turned, rounded, agents, list>>

-----------------------------------------------------------------------------
(* GET /admin/agents *)

CreateAgent(g) ==
    /\ "create" \in workload.admin
    /\ g \notin Range(agents)
    /\ agents' = Append(agents, g)
    /\ UNCHANGED <<workload, marketVars, now, holding, turned, rounded, exists, deleting, list>>

\* Mutant of PageItems: the page number is not made zero based.
PageItemsShifted(page) ==
    {agents[Len(agents) + 1 - i] :
        i \in page * PageSize + 1 .. Lesser((page + 1) * PageSize, Len(agents))}

\* Skip and take on the agents, the newest first.
PageItems(page) ==
    {agents[Len(agents) + 1 - i] :
        i \in (page - 1) * PageSize + 1 .. Lesser(page * PageSize, Len(agents))}

\* A client goes on to the next page until one is empty.
ListPage ==
    LET items == PageItems(list.page + 1)
    IN  /\ "list" \in workload.admin
        /\ list' = IF list.page > 0 /\ items = {} THEN Idle
                   ELSE [page |-> list.page + 1, seen |-> list.seen \cup items,
                         from |-> IF list.page = 0 THEN Range(agents) ELSE list.from]
        /\ UNCHANGED <<workload, marketVars, now, holding, turned, rounded, exists, deleting, agents>>

-----------------------------------------------------------------------------
Tick ==
    /\ now < LastDay
    /\ now' = now + 1
    /\ UNCHANGED <<workload, marketVars, holding, turned, rounded, exists, deleting, agents, list>>

Next ==
    \/ \E o \in Orders : Place(o) \/ Cancel(o)
    \/ \E event \in workload.events : TradeFutures(event)
    \/ \E a \in Accounts : DeleteRead(a) \/ DeleteWrite(a)
    \/ \E g \in Agents : CreateAgent(g)
    \/ ListPage
    \/ Tick

Spec == Init /\ [][Next]_vars

-----------------------------------------------------------------------------
(* Properties that hold *)

\* An account whose position has never gone through zero within one trade, whose average
\* was never rounded, and that never traded with itself: what computeCostBasis has booked
\* as earned is what the trades brought, with the open contracts at their average price.
RealizedIsCash ==
    \A a \in Accounts : a \notin turned \cup rounded /\ ~SelfTraded(a) =>
        LET cash == BalanceDelta(trades, a, {i \in DOMAIN trades : trades[i].taker = NoOrder})
        IN  holding[a].realized = cash + holding[a].quantity * holding[a].average

\* The read models that tell profit in three ways agree while nothing is older than a
\* day, for accounts that never traded with themselves.
PnlAgrees ==
    \A a \in Accounts : ~SelfTraded(a) =>
        /\ Pnl24h(a) = Pnl24hBatch(a)
        /\ Recent = DOMAIN trades => Pnl24h(a) = PnlOfLeaderboard(a)

\* Exposure is a bound: no settlement within the price bounds moves an account by more.
ExposureCoversPayout ==
    \A a \in Accounts, value \in Values, outcome \in Outcome :
        Size(FuturesPayout(a, value) + BinaryPayout(a, outcome)) <= Exposure(a)

\* The counts of a deletion may be stale when the account is deleted.  No trade loses a
\* party or an order, and an order that goes with its account was placed after the counts.
DeletionSparesHistory ==
    [][/\ \A o \in Placed : order'[o] = NoRow => order[o].at > deleting[order[o].account]
       /\ \A i \in DOMAIN trades' : /\ {trades'[i].buyer, trades'[i].seller} \subseteq exists'
                                    /\ {trades'[i].taker, trades'[i].maker} \cap Orders
                                          \subseteq {o \in Orders : order'[o] # NoRow}]_vars

\* Agents that are created while the list is read push others to later pages: some are
\* listed twice, none of those that were there at the start is left out.
ListMissesNone == [][list.page > 0 /\ list' = Idle => list.from \subseteq list.seen]_vars
=============================================================================
