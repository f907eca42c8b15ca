---------------------------- MODULE BinaryMarket ----------------------------
(***************************************************************************)
(* A binary market: the matching engine of matching.ts on the book that    *)
(* placeOrder rebuilds from the resting rows, and the trade handler for    *)
(* the trades it returns.  placeOrder holds the market's advisory lock     *)
(* from the load of the book to the commit (OrderPlacement has those       *)
(* steps), so a placement is one step here.                                *)
(***************************************************************************)
EXTENDS Integers, Sequences, FiniteSets, Functions

CONSTANTS
    Accounts,        \* account ids
    Orders, NoOrder, \* order ids; the order of a trade of another market
    FullPrice        \* the price 1.0 of a share that certainly pays, in units of the grid

NoPrice == 0         \* the null price of a MARKET order
Outcome == {"YES", "NO"}

\* What a placement asks for; side is the outcome bought.
Input == [account : Accounts, side : Outcome, price : 0..FullPrice, quantity : Nat \ {0}]

ASSUME BinaryAssumption ==
    /\ IsFiniteSet(Accounts) /\ IsFiniteSet(Orders) /\ NoOrder \notin Orders
    /\ FullPrice \in Nat \ {0}

VARIABLES
    order,      \* table orders: [Orders -> row], NoRow where there is none
    stamp,      \* the clock that stamps orders.createdAt: placements so far
    trades,     \* table trades, in the order of creation
    share,      \* columns positions.yesShares and noShares
    balance,    \* column accounts.balance
    now         \* the time of day stamps, in days

marketVars == <<order, stamp, trades, share, balance>>

NoRow == [status |-> "NONE"]
Placed == {o \in Orders : order[o] # NoRow}
Resting == {o \in Placed : order[o].status \in {"PENDING", "PARTIALLY_FILLED"}}
Open(o) == order[o].quantity - order[o].filled

-----------------------------------------------------------------------------
(* OrderBook *)

\* Market orders are sorted as if they bid 1 for YES, 0 for NO.
SortPrice(o) ==
    IF order[o].price # NoPrice THEN order[o].price
    ELSE IF order[o].side = "YES" THEN FullPrice ELSE 0

\* Mutant of Before: time is not looked at.
BeforeTimeless(o, r) ==
    IF SortPrice(o) = SortPrice(r) THEN order[o].at > order[r].at
    ELSE IF order[o].side = "YES" THEN SortPrice(o) > SortPrice(r)
    ELSE SortPrice(o) < SortPrice(r)

\* YES by descending, NO by ascending price, then the oldest first.
Before(o, r) ==
    IF SortPrice(o) = SortPrice(r) THEN order[o].at < order[r].at
    ELSE IF order[o].side = "YES" THEN SortPrice(o) > SortPrice(r)
    ELSE SortPrice(o) < SortPrice(r)

Book(side) ==
    LET S == {o \in Resting : order[o].side = side}
    IN  CHOOSE b \in [1..Cardinality(S) -> S] : \A i, j \in DOMAIN b : i < j => Before(b[i], b[j])

Opposite(side) == IF side = "YES" THEN "NO" ELSE "YES"

-----------------------------------------------------------------------------
(* MatchingEngine *)

\* Two prices match when together they pay for both outcomes.
CanMatch(q, r) ==
    \/ NoPrice \in {q.price, order[r].price}
    \/ q.price + order[r].price >= FullPrice

MatchPrice(q, r) ==
    IF order[r].price # NoPrice THEN order[r].price
    ELSE IF q.price # NoPrice THEN q.price ELSE FullPrice \div 2

Lesser(i, j) == IF i < j THEN i ELSE j

\* What the first n orders of a book have left.
Amount(b, n) == SumFunctionOnSet([i \in DOMAIN b |-> Open(b[i])], 1..n)

\* The loop stops at the first order that does not match, or when nothing remains.
Reached(q) ==
    LET b == Book(Opposite(q.side))
    IN  CHOOSE n \in 0..Len(b) :
            /\ \A i \in 1..n : CanMatch(q, b[i]) /\ Amount(b, i - 1) < q.quantity
            /\ n < Len(b) => ~CanMatch(q, b[n + 1]) \/ Amount(b, n) >= q.quantity

\* Mutant of Fill: what earlier counterparties took is not subtracted.
FillAll(q, i) ==
    LET b == Book(Opposite(q.side))
    IN  Lesser(Open(b[i]), q.quantity)

\* What the i-th counterparty reached is filled with.
Fill(q, i) ==
    LET b == Book(Opposite(q.side))
    IN  Lesser(Open(b[i]), q.quantity - Amount(b, i - 1))

\* The trades: createTrade names the incoming order as buyer.
Deals(o, q) ==
    LET b == Book(Opposite(q.side))
    IN  [i \in 1..Reached(q) |->
            [taker |-> o, maker |-> b[i], buyer |-> q.account, seller |-> order[b[i]].account,
             outcome |-> q.side, price |-> MatchPrice(q, b[i]), quantity |-> Fill(q, i), at |-> now]]

Quantity(deals, I) == SumFunctionOnSet([i \in DOMAIN deals |-> deals[i].quantity], I)
Of(deals, r) == {i \in DOMAIN deals : r \in {deals[i].taker, deals[i].maker}}

StatusFor(filled, quantity) ==
    CASE filled >= quantity -> "FILLED"
      [] filled < quantity /\ filled > 0 -> "PARTIALLY_FILLED"
      [] OTHER -> "PENDING"

Filled(r, quantity) ==
    LET f == r.filled + quantity
    IN  [r EXCEPT !.filled = f, !.status = StatusFor(f, r.quantity)]

-----------------------------------------------------------------------------
(* The trade handler *)

\* positionDeltaByKey has one entry per account.  A trade of an account with itself makes
\* two when there is none yet, and the seller's replaces the buyer's: what was bought
\* is lost.  Later ones share the entry.
Keeps(deals, a, i) ==
    /\ deals[i].buyer = a
    /\ deals[i].seller = a => \E j \in 1..(i - 1) : a \in {deals[j].buyer, deals[j].seller}

\* Mutant of Acquired: the seller of a trade gets no shares.
AcquiredBought(deals, a, outcome) ==
    Quantity(deals, {i \in DOMAIN deals : deals[i].outcome = outcome /\ Keeps(deals, a, i)})

\* Who sells one outcome of a binary market buys the other.
Acquired(deals, a, outcome) ==
    Quantity(deals, {i \in DOMAIN deals : IF deals[i].outcome = outcome THEN Keeps(deals, a, i)
                                                                     ELSE deals[i].seller = a})

\* balanceDeltaByAccount: the buyer pays the price of the trade to the seller.
CashFlow(t, a) ==
    (IF a = t.seller THEN t.price * t.quantity ELSE 0) - (IF a = t.buyer THEN t.price * t.quantity ELSE 0)

BalanceDelta(deals, a, I) == SumFunctionOnSet([i \in DOMAIN deals |-> CashFlow(deals[i], a)], I)

MarketInit ==
    /\ order = [o \in Orders |-> NoRow]
    /\ stamp = 0
    /\ trades = <<>>
    /\ share = [a \in Accounts |-> [yes |-> 0, no |-> 0]]
    /\ balance = [a \in Accounts |-> 0]
    /\ now = 0

\* A placement: match, write the orders and trades, post the journal, move the shares.
PlaceBinary(o, q) ==
    LET deals == Deals(o, q)
        row == [account |-> q.account, side |-> q.side, price |-> q.price, quantity |-> q.quantity,
                filled |-> 0, status |-> "PENDING", at |-> stamp + 1]
    IN  /\ order[o] = NoRow
        /\ stamp' = stamp + 1
        /\ order' = [r \in Orders |->
                IF r = o THEN Filled(row, Quantity(deals, DOMAIN deals))
                ELSE IF Of(deals, r) # {} THEN Filled(order[r], Quantity(deals, Of(deals, r)))
                ELSE order[r]]
        /\ trades' = trades \o deals
        /\ share' = [a \in Accounts |->
                [yes |-> share[a].yes + Acquired(deals, a, "YES"),
                 no |-> share[a].no + Acquired(deals, a, "NO")]]
        /\ balance' = [a \in Accounts |-> balance[a] + BalanceDelta(deals, a, DOMAIN deals)]
        /\ UNCHANGED now

CancelBinary(o) ==
    /\ o \in Resting
    /\ order' = [order EXCEPT ![o].status = "CANCELLED"]
    /\ UNCHANGED <<stamp, trades, share, balance, now>>

-----------------------------------------------------------------------------
(* Properties that hold *)

SelfTraded(a) == \E i \in DOMAIN trades : trades[i].buyer = a /\ trades[i].seller = a

\* The rows and the trades of several placements agree: filled quantities are the
\* sums of the trades, statuses follow them, and nobody is filled beyond the order.
BinaryFillsAreTrades ==
    \A o \in Placed :
        /\ order[o].filled = Quantity(trades, Of(trades, o))
        /\ order[o].filled <= order[o].quantity
        /\ order[o].status # "CANCELLED" => order[o].status = StatusFor(order[o].filled, order[o].quantity)
        /\ order[o].status = "PENDING" => order[o].filled = 0

\* Every share of an outcome has a share of the other one against it: what settlement
\* pays out it takes in.  An account that traded with itself breaks this.
SharesBalanced ==
    (\A a \in Accounts : ~SelfTraded(a)) =>
        SumFunctionOnSet([a \in Accounts |-> share[a].yes - share[a].no], Accounts) = 0

\* Who buys NO meets the YES orders in price-time priority: when a YES order has been
\* filled by a placement, no better or equally good and older one is still open
\* if it was there before.
YesInPriority ==
    \A i \in DOMAIN trades, r \in Resting :
        LET m == trades[i].maker
        IN  /\ m \in Orders
            /\ order[m].side = "YES" /\ order[r].side = "YES"
            /\ order[r].at < order[trades[i].taker].at
            => \/ order[r].price < order[m].price /\ order[r].price # NoPrice
               \/ order[m].price = NoPrice \/ order[m].price = FullPrice
               \/ order[r].price = order[m].price /\ order[r].at >= order[m].at
=============================================================================
