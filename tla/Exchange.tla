------------------------------ MODULE Exchange ------------------------------
(***************************************************************************)
(* What order placement promises: an exchange in which a placement is one  *)
(* step.  It trades with the orders that rest, best price and earliest     *)
(* first, until it is filled or nothing suits, and the rest of it rests.   *)
(* A cancellation is one step too, and may lose: an order cancelled while  *)
(* a placement is under way may still be traded with.                      *)
(*                                                                         *)
(* The step does not say that what is taken is the sum of what is given;   *)
(* OrderPlacement's FilledMatchesTrades does.                              *)
(***************************************************************************)
EXTENDS Integers

CONSTANTS Orders, Requests

VARIABLES
    request,  \* what each order asks for
    order,    \* order[o]: its status, filled quantity and time of entry
    deals,    \* the trades
    clock

vars == <<request, order, deals, clock>>

Buys(o) == request[o].side \in {"BUY", "BUY_YES"}
Rests(o) == order[o].status \in {"PENDING", "PARTIALLY_FILLED"}
Remaining(o) == request[o].quantity - order[o].filled

\* The price of resting order r suits order o, which is on the other side.
Suits(o, r) ==
    /\ Buys(o) # Buys(r)
    /\ \/ request[o].type = "MARKET"
       \/ Buys(o) /\ request[r].price <= request[o].price
       \/ ~Buys(o) /\ request[r].price >= request[o].price

\* Resting order q has priority over r, an order of its side.
Prior(q, r) ==
    \/ ~Buys(q) /\ request[q].price < request[r].price
    \/ Buys(q) /\ request[q].price > request[r].price
    \/ request[q].price = request[r].price /\ order[q].at < order[r].at

Limits(m) == {r \in Orders : request[r].market = m /\ request[r].price > 0}

\* The orders a placement in market m may find: all that rest, and cancelled ones
\* whose cancellation came while it was under way.
Books(m) ==
    LET resting == {r \in Limits(m) : Rests(r)}
        lost == {r \in Limits(m) : order[r].status = "CANCELLED"}
    IN  {resting \cup late : late \in SUBSET lost}

StatusOf(o, amount) ==
    CASE amount = request[o].quantity -> "FILLED"
      [] amount \in 1..(request[o].quantity - 1) -> "PARTIALLY_FILLED"
      [] OTHER -> "PENDING"

Row(o, amount, at) == [status |-> StatusOf(o, amount), filled |-> amount, at |-> at]

\* Order o takes taken from the book, fill[r] of it from each order r.
Matches(o, book, fill, taken) ==
    /\ \A r \in Orders :
        /\ fill[r] <= taken
        /\ fill[r] > 0 => r \in book /\ Suits(o, r) /\ fill[r] <= Remaining(r)
    /\ \A r, s \in book :
        fill[r] > 0 /\ Suits(o, s) /\ Prior(s, r) => fill[s] = Remaining(s)
    /\ taken < request[o].quantity =>
        \A r \in book : Suits(o, r) => fill[r] = Remaining(r)

Place(o) ==
    /\ order[o].status = "NONE"
    /\ request[o].quantity > 0
    /\ clock' = clock + 1
    /\ \E book \in Books(request[o].market), fill \in [Orders -> 0..request[o].quantity],
          taken \in 0..request[o].quantity :
        /\ Matches(o, book, fill, taken)
        /\ order' = [r \in Orders |->
                IF r = o THEN Row(o, taken, clock')
                ELSE IF fill[r] > 0 THEN Row(r, order[r].filled + fill[r], order[r].at)
                ELSE order[r]]
        /\ deals' = deals \cup
                {[taker |-> o, maker |-> r, price |-> request[r].price, quantity |-> fill[r]] :
                    r \in {s \in Orders : fill[s] > 0}}
    /\ UNCHANGED request

Cancel(o) ==
    /\ order[o].status # "NONE"
    /\ order' = [order EXCEPT ![o] =
            [status |-> "CANCELLED", filled |-> order[o].filled, at |-> order[o].at]]
    /\ UNCHANGED <<request, deals, clock>>

Init ==
    /\ request \in {f \in [Orders -> UNION {Requests[o] : o \in Orders}] :
                        \A o \in Orders : f[o] \in Requests[o]}
    /\ order = [o \in Orders |-> [status |-> "NONE", filled |-> 0, at |-> 0]]
    /\ deals = {}
    /\ clock = 0

Next == \E o \in Orders : Place(o) \/ Cancel(o)

Spec == Init /\ [][Next]_vars
=============================================================================
