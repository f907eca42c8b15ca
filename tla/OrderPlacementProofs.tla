------------------------ MODULE OrderPlacementProofs ------------------------
(***************************************************************************)
(* Safety of order placement for any set of markets, accounts, calls and   *)
(* requests.                                                               *)
(***************************************************************************)
EXTENDS OrderPlacement, Sums, TLAPS

LEMMA InitTypeOK == Init => TypeOK
<1> SUFFICES ASSUME Init PROVE TypeOK
  OBVIOUS
<1>1. request \in [Orders -> Request]
  BY RequestsAssumption DEF Init
<1>2. QED
  BY <1>1, RequestsAssumption DEF Init, TypeOK, NoAmounts, NoDeltas

LEMMA DealsType ==
  ASSUME TypeOK, NEW o \in Orders
  PROVE  Deals(o) \subseteq [taker : Orders, maker : Orders, price : Nat, quantity : Int]
BY DEF TypeOK, Deals, Hit, Request

LEMMA BookOfType ==
  ASSUME TypeOK, NEW m \in Markets
  PROVE  BookOf(m) \in [Orders -> Int]
BY DEF TypeOK, BookOf, Request

LEMMA StatusForType ==
  ASSUME NEW r \in Orders, NEW n \in Int, TypeOK
  PROVE  StatusFor(r, n) \in OrderStatus
BY DEF TypeOK, StatusFor, OrderStatus, Request

LEMMA FilledAfterType ==
  ASSUME TypeOK, NEW o \in Orders, NEW r \in Orders
  PROVE  FilledAfter(o, r) \in Int
BY DEF TypeOK, FilledAfter, Request

LEMMA DeltaTypes ==
  ASSUME TypeOK, NEW o \in Orders, NEW r \in Orders, NEW q \in Int, NEW a \in Accounts
  PROVE  CashOf(o, r, q, a) \in Int /\ MoveOf(o, r, q, a) \in Int
<1>1. request[r].price * q \in Int
  BY DEF TypeOK, Request
<1> DEFINE cost == request[r].price * q
<1>2. cost \in Int
  BY <1>1
<1>3. CashOf(o, r, q, a) \in Int
  <2> HIDE DEF cost
  <2>1. CashOf(o, r, q, a) =
          (IF a = request[IF LibSide(o) = "buy" THEN r ELSE o].account THEN cost ELSE 0)
            - (IF a = request[IF LibSide(o) = "buy" THEN o ELSE r].account THEN cost ELSE 0)
    BY DEF CashOf, cost
  <2>2. QED
    BY <2>1, <1>2
<1>4. MoveOf(o, r, q, a) \in Int
  BY DEF MoveOf
<1>5. QED
  BY <1>3, <1>4

LEMMA ForgetType ==
  ASSUME TypeOK, NEW o \in Orders, ForgetLocals(o)
  PROVE  /\ left' \in [Orders -> [Orders -> Int]]
         /\ got' \in [Orders -> [Orders -> Int]]
         /\ rest' \in [Orders -> Int]
         /\ cash' \in [Orders -> [Accounts -> Int]]
         /\ move' \in [Orders -> [Accounts -> Int]]
         /\ seen' \in [Orders -> [Accounts -> Int]]
         /\ newPos' \in [Orders -> [Accounts -> Int]]
BY DEF TypeOK, ForgetLocals, NoAmounts, NoDeltas

LEMMA NextTypeOK == TypeOK /\ [Next]_vars => TypeOK'
<1> SUFFICES ASSUME TypeOK, [Next]_vars PROVE TypeOK'
  OBVIOUS
<1> USE DEF rowVars, moneyVars, localVars
<1>1. ASSUME NEW o \in Orders, Admit(o) PROVE TypeOK'
  BY <1>1 DEF TypeOK, Admit
<1>2. ASSUME NEW o \in Orders, Reject(o) PROVE TypeOK'
  BY <1>2 DEF TypeOK, Reject, Ended
<1>3. ASSUME NEW o \in Orders, LockAndLoadBook(o) PROVE TypeOK'
  <2>1. request[o].market \in Markets /\ request[o].quantity \in Nat
    BY DEF TypeOK, Request
  <2>2. BookOf(request[o].market) \in [Orders -> Int]
    BY <2>1, BookOfType
  <2>3. QED
    BY <1>3, <2>1, <2>2 DEF TypeOK, LockAndLoadBook, InTransaction
<1>4. ASSUME NEW o \in Orders, MatchNext(o) PROVE TypeOK'
  <2>1. PICK r \in Crossing(o) :
          /\ left' = [left EXCEPT ![o][r] = @ - Smaller(rest[o], left[o][r])]
          /\ got' = [got EXCEPT ![o][r] = @ + Smaller(rest[o], left[o][r])]
          /\ rest' = [rest EXCEPT ![o] = @ - Smaller(rest[o], left[o][r])]
          /\ cash' = [cash EXCEPT ![o] = [a \in Accounts |->
                        @[a] + CashOf(o, r, Smaller(rest[o], left[o][r]), a)]]
          /\ move' = [move EXCEPT ![o] = [a \in Accounts |->
                        @[a] + MoveOf(o, r, Smaller(rest[o], left[o][r]), a)]]
    BY <1>4 DEF MatchNext, Best
  <2> DEFINE q == Smaller(rest[o], left[o][r])
  <2>2. r \in Orders /\ q \in Int
    BY <2>1 DEF Crossing, Smaller, TypeOK
  <2>3. \A a \in Accounts : CashOf(o, r, q, a) \in Int /\ MoveOf(o, r, q, a) \in Int
    <3> HIDE DEF q
    <3> QED  BY <2>2, DeltaTypes
  <2> HIDE DEF q
  <2>4. /\ left' = [left EXCEPT ![o][r] = @ - q]
        /\ got' = [got EXCEPT ![o][r] = @ + q]
        /\ rest' = [rest EXCEPT ![o] = @ - q]
        /\ cash' = [cash EXCEPT ![o] = [a \in Accounts |-> @[a] + CashOf(o, r, q, a)]]
        /\ move' = [move EXCEPT ![o] = [a \in Accounts |-> @[a] + MoveOf(o, r, q, a)]]
    BY <2>1 DEF q
  <2>5. left' \in [Orders -> [Orders -> Int]] /\ got' \in [Orders -> [Orders -> Int]]
    BY <2>2, <2>4 DEF TypeOK
  <2>6. rest' \in [Orders -> Int]
    BY <2>2, <2>4 DEF TypeOK
  <2>7. cash' \in [Orders -> [Accounts -> Int]] /\ move' \in [Orders -> [Accounts -> Int]]
    BY <2>3, <2>4 DEF TypeOK
  <2>8. QED
    BY <1>4, <2>5, <2>6, <2>7 DEF TypeOK, MatchNext
<1>5. ASSUME NEW o \in Orders, PersistFills(o) PROVE TypeOK'
  BY <1>5 DEF TypeOK, PersistFills, AfterPersist, InTransaction
<1>6. ASSUME NEW o \in Orders, PostTradeEvent(o) PROVE TypeOK'
  <2>1. announced' \subseteq [taker : Orders, maker : Orders, price : Nat, quantity : Int]
    BY <1>6, DealsType DEF TypeOK, PostTradeEvent
  <2>2. ASSUME NEW a \in Accounts
        PROVE  position[request[o].market][a] + move[o][a] \in Int
    <3>1. request[o].market \in Markets
      BY DEF TypeOK, Request
    <3>2. position[request[o].market][a] \in Int
      BY <3>1 DEF TypeOK
    <3>3. move[o][a] \in Int
      BY DEF TypeOK
    <3>4. QED
      BY <3>2, <3>3
  <2>3. newPos' \in [Orders -> [Accounts -> Int]]
    <3> DEFINE f == [a \in Accounts |-> IF a \in Parties(o)
                        THEN position[request[o].market][a] + move[o][a] ELSE 0]
    <3>1. f \in [Accounts -> Int]
      BY <2>2
    <3>2. newPos' = [newPos EXCEPT ![o] = f]
      BY <1>6 DEF PostTradeEvent
    <3> HIDE DEF f
    <3>3. QED
      BY <3>1, <3>2 DEF TypeOK
  <2>4. QED
    BY <1>6, <2>1, <2>3 DEF TypeOK, PostTradeEvent, InTransaction
<1>7. ASSUME NEW o \in Orders, Commit(o) PROVE TypeOK'
  <2>1. ForgetLocals(o)
    BY <1>7 DEF Commit
  <2>2. trades' \subseteq [taker : Orders, maker : Orders, price : Nat, quantity : Int]
    BY <1>7, DealsType DEF TypeOK, Commit
  <2>3. filled' \in [Orders -> Int]
    BY <1>7, FilledAfterType DEF TypeOK, Commit
  <2>4. status' \in [Orders -> OrderStatus \cup {"NONE"}]
    BY <1>7, FilledAfterType, StatusForType DEF TypeOK, Commit
  <2>5. executed' \in [Orders -> Int]
    <3>1. \A r \in Orders : executed[r] +
            (IF r = o THEN request[o].quantity - rest[o] ELSE got[o][r]) \in Int
      BY DEF TypeOK, Request
    <3>2. QED
      BY <1>7, <3>1 DEF Commit
  <2>6. balance' \in [Accounts -> Int] /\ ledger' \in [Accounts -> Int]
    BY <1>7 DEF TypeOK, Commit, NewBalance
  <2>7. position' \in [Markets -> [Accounts -> Int]]
    <3>1. request[o].market \in Markets
      BY DEF TypeOK, Request
    <3>2. QED
      BY <1>7, <3>1 DEF TypeOK, Commit
  <2>8. clock' \in Nat /\ createdAt' \in [Orders -> Nat]
    BY <1>7 DEF TypeOK, Commit
  <2>9. QED
    BY <1>7, <2>1, <2>2, <2>3, <2>4, <2>5, <2>6, <2>7, <2>8, ForgetType
       DEF TypeOK, Commit, Ended
<1>8. ASSUME NEW o \in Orders, Abort(o) PROVE TypeOK'
  <2>1. ForgetLocals(o)
    BY <1>8 DEF Abort
  <2>2. QED
    BY <1>8, <2>1, ForgetType DEF TypeOK, Abort, Ended
<1>9. ASSUME NEW o \in Orders, CancelRead(o) PROVE TypeOK'
  BY <1>9 DEF TypeOK, CancelRead
<1>10. ASSUME NEW o \in Orders, CancelWrite(o) PROVE TypeOK'
  BY <1>10 DEF TypeOK, CancelWrite, OrderStatus
<1>11. ASSUME NEW m \in Markets, LockMarket(m) PROVE TypeOK'
  BY <1>11 DEF TypeOK, LockMarket
<1>12. CASE UNCHANGED vars
  BY <1>12 DEF TypeOK, vars
<1>13. QED
  BY <1>1, <1>2, <1>3, <1>4, <1>5, <1>6, <1>7, <1>8, <1>9, <1>10, <1>11, <1>12
     DEF Next, Place

\* Every reachable state is well typed: no step of a placement, a cancellation or
\* an operator writes a row or a local value of another kind.
THEOREM TypeCorrect == Spec => []TypeOK
BY InitTypeOK, NextTypeOK, PTL DEF Spec

-----------------------------------------------------------------------------
(* The inductive invariant *)

\* Resting order r was on the book transaction o loaded.
Loaded(o, r) == left[o][r] > 0 \/ got[o][r] > 0

\* At most one open transaction per market.
LockExclusive ==
    \A p, q \in Orders :
        /\ pc[p] \in InTransaction /\ pc[q] \in InTransaction
        /\ request[p].market = request[q].market
        => p = q

\* A row exists once its placement has committed, and only well-formed requests
\* get past validation.
RowsInv ==
    \A o \in Orders :
        /\ status[o] = "NONE" <=> pc[o] # "committed"
        /\ o \in cancelling => status[o] # "NONE"
        /\ pc[o] \notin {"new", "rejected"} => WellFormed(request[o])

\* What a transaction knows of a resting order is still true of the row.
LocalInv ==
    \A o \in Orders :
        /\ rest[o] >= 0 /\ rest[o] <= request[o].quantity
        /\ pc[o] \in {"written", "posted"} => ~CanMatch(o)
        /\ \A r \in Orders :
            /\ left[o][r] >= 0 /\ got[o][r] >= 0
            /\ Loaded(o, r) =>
                /\ pc[o] \in InTransaction
                /\ status[r] # "NONE"
                /\ request[r].market = request[o].market
                /\ left[o][r] + got[o][r] = request[r].quantity - filled[r]
            /\ got[o][r] > 0 => LibSide(r) # LibSide(o) /\ WithinLimit(o, r)

\* The loaded book holds every limit order that rests, and is not crossed.
BookInv ==
    \A o \in Orders : pc[o] \in InTransaction =>
        /\ \A r \in Orders :
            /\ IsResting(r) /\ request[r].type = "LIMIT"
            /\ request[r].market = request[o].market
            => Loaded(o, r)
        /\ \A b, s \in Orders :
            /\ Loaded(o, b) /\ LibSide(b) = "buy"
            /\ Loaded(o, s) /\ LibSide(s) = "sell"
            => request[b].price < request[s].price

IInv ==
    /\ TypeOK
    /\ LockExclusive
    /\ RowsInv
    /\ FilledIsExecuted
    /\ StatusMatchesFill
    /\ LocalInv
    /\ BookInv
    /\ BookNotCrossed
    /\ PriceTimePriority

\* What IInv and the invariant conjuncts other than TypeOK speak of.
Core ==
    /\ LockExclusive
    /\ RowsInv
    /\ FilledIsExecuted
    /\ StatusMatchesFill
    /\ LocalInv
    /\ BookInv
    /\ BookNotCrossed
    /\ PriceTimePriority

LEMMA InitCore == Init => Core
<1> SUFFICES ASSUME Init PROVE Core
  OBVIOUS
<1>1. TypeOK
  BY InitTypeOK
<1>2. \A o, r \in Orders : left[o][r] = 0 /\ got[o][r] = 0
  BY DEF Init, NoAmounts
<1>3. \A o \in Orders : /\ status[o] = "NONE" /\ pc[o] = "new"
                        /\ filled[o] = 0 /\ executed[o] = 0 /\ rest[o] = 0
  BY DEF Init, NoAmounts
<1>4. LockExclusive /\ BookInv
  BY <1>3 DEF LockExclusive, BookInv, InTransaction
<1>5. RowsInv /\ FilledIsExecuted /\ BookNotCrossed
  BY <1>3 DEF RowsInv, FilledIsExecuted, BookNotCrossed, IsResting, Init
<1>6. StatusMatchesFill
  BY <1>1, <1>3 DEF StatusMatchesFill, TypeOK, Request
<1>7. LocalInv
  BY <1>1, <1>2, <1>3 DEF LocalInv, Loaded, TypeOK, Request
<1>8. PriceTimePriority
  BY <1>2 DEF PriceTimePriority, Hit
<1>9. QED
  BY <1>4, <1>5, <1>6, <1>7, <1>8 DEF Core

\* Facts about open transactions that several steps below use.
LEMMA OwnRow ==
  ASSUME IInv, NEW o \in Orders, pc[o] \in InTransaction
  PROVE  /\ status[o] = "NONE" /\ filled[o] = 0 /\ executed[o] = 0
         /\ left[o][o] = 0 /\ got[o][o] = 0 /\ o \notin Hit(o)
         /\ WellFormed(request[o])
         /\ \A p \in Orders : left[p][o] = 0 /\ got[p][o] = 0
<1>1. status[o] = "NONE" /\ WellFormed(request[o])
  BY DEF IInv, RowsInv, InTransaction
<1>2. filled[o] = 0 /\ executed[o] = 0
  BY <1>1 DEF IInv, StatusMatchesFill, FilledIsExecuted
<1>3. \A p \in Orders : left[p][o] = 0 /\ got[p][o] = 0
  BY <1>1 DEF IInv, LocalInv, Loaded, TypeOK
<1>4. QED
  BY <1>1, <1>2, <1>3 DEF Hit

\* Priority is a strict order on one side of the book.
LEMMA AheadAsymmetric ==
  ASSUME TypeOK, NEW r \in Orders, NEW s \in Orders,
         LibSide(r) = LibSide(s), Ahead(r, s)
  PROVE  ~Ahead(s, r)
<1>1. /\ request[r].price \in Nat /\ request[s].price \in Nat
      /\ createdAt[r] \in Nat /\ createdAt[s] \in Nat
  BY DEF TypeOK, Request
<1>2. LibSide(r) \in {"buy", "sell"}
  BY DEF LibSide
<1>3. QED
  BY <1>1, <1>2 DEF Ahead

\* A limit order at rest has something left to trade.
LEMMA RestingHasRemainder ==
  ASSUME IInv, NEW r \in Orders, IsResting(r)
  PROVE  /\ filled[r] < request[r].quantity
         /\ WellFormed(request[r])
         /\ request[r].type = "LIMIT" <=> request[r].price > 0
<1>1. pc[r] = "committed"
  BY DEF IInv, RowsInv, IsResting
<1>2. WellFormed(request[r])
  BY <1>1 DEF IInv, RowsInv
<1>3. request[r] \in Request /\ filled[r] \in Int
  BY DEF IInv, TypeOK
<1>4. filled[r] < request[r].quantity
  BY <1>2, <1>3 DEF IInv, StatusMatchesFill, IsResting, WellFormed, Request
<1>5. request[r].type \in {"LIMIT", "MARKET"}
  BY <1>3 DEF Request, OrderType
<1>6. request[r].type = "LIMIT" <=> request[r].price > 0
  BY <1>2, <1>3, <1>5, RequestsAssumption DEF WellFormed, Request
<1>7. QED
  BY <1>2, <1>4, <1>6

\* The definitions an invariant conjunct reads through unprimed rows and requests.
LEMMA QuietSteps ==
  ASSUME IInv, NEW o \in Orders,
         UNCHANGED <<request, status, filled, createdAt, executed, left, got, rest>>,
         \/ pc' = [pc EXCEPT ![o] = "admitted"] /\ pc[o] = "new"
                /\ WellFormed(request[o]) /\ cancelling' = cancelling
         \/ pc' = [pc EXCEPT ![o] = "rejected"] /\ pc[o] = "new" /\ cancelling' = cancelling
         \/ pc' = [pc EXCEPT ![o] = "written"] /\ pc[o] = "matching"
                /\ ~CanMatch(o) /\ cancelling' = cancelling
         \/ pc' = [pc EXCEPT ![o] = "posted"] /\ pc[o] = "matching"
                /\ ~CanMatch(o) /\ cancelling' = cancelling
         \/ pc' = [pc EXCEPT ![o] = "posted"] /\ pc[o] = "written" /\ cancelling' = cancelling
         \/ pc' = pc /\ IsResting(o) /\ cancelling' = cancelling \cup {o}
         \/ pc' = pc /\ cancelling' = cancelling
  PROVE  Core'
<1> USE DEF InTransaction
<1>1. \A p \in Orders : /\ pc'[p] \in InTransaction <=> pc[p] \in InTransaction
                        /\ pc'[p] = "committed" <=> pc[p] = "committed"
                        /\ pc'[p] \in {"written", "posted"} =>
                              pc[p] \in {"written", "posted"} \/ ~CanMatch(p)
                        /\ pc'[p] \notin {"new", "rejected"} =>
                              pc[p] \notin {"new", "rejected"} \/ WellFormed(request[p])
  BY DEF IInv, TypeOK
<1>2. \A p, r \in Orders : /\ (Loaded(p, r))' <=> Loaded(p, r)
                           /\ (LibSide(p))' = LibSide(p)
                           /\ (WithinLimit(p, r))' <=> WithinLimit(p, r)
                           /\ (Ahead(p, r))' <=> Ahead(p, r)
                           /\ (IsResting(p))' <=> IsResting(p)
                           /\ (WellFormed(request[p]))' <=> WellFormed(request[p])
  BY DEF Loaded, LibSide, WithinLimit, Ahead, IsResting, WellFormed
<1>3. \A p \in Orders : (Crossing(p))' = Crossing(p) /\ (Hit(p))' = Hit(p)
  BY <1>2 DEF Crossing, Hit, LibSide, WithinLimit
<1>4. \A p \in Orders : (CanMatch(p))' <=> CanMatch(p)
  BY <1>3 DEF CanMatch
<1>5. LockExclusive'
  BY <1>1 DEF IInv, LockExclusive
<1>6. RowsInv'
  BY <1>1, <1>2 DEF IInv, RowsInv, IsResting
<1>7. FilledIsExecuted' /\ StatusMatchesFill'
  BY DEF IInv, FilledIsExecuted, StatusMatchesFill
<1>8. LocalInv'
  BY <1>1, <1>2, <1>4 DEF IInv, LocalInv
<1>9. BookInv' /\ BookNotCrossed'
  BY <1>1, <1>2 DEF IInv, BookInv, BookNotCrossed
<1>10. PriceTimePriority'
  BY <1>2, <1>3 DEF IInv, PriceTimePriority, Hit, Crossing
<1>11. QED
  BY <1>5, <1>6, <1>7, <1>8, <1>9, <1>10 DEF Core

\* Loading the book: the lock is free, so no other transaction of the market is open.
LEMMA LoadKeepsCore ==
  ASSUME IInv, NEW o \in Orders, LockAndLoadBook(o)
  PROVE  Core'
<1> USE DEF InTransaction
<1> DEFINE m == request[o].market
<1>1. /\ pc' = [pc EXCEPT ![o] = "matching"] /\ pc[o] = "admitted"
      /\ left' = [left EXCEPT ![o] = BookOf(m)]
      /\ rest' = [rest EXCEPT ![o] = request[o].quantity]
      /\ \A p \in Orders : pc[p] \in InTransaction => request[p].market # m
      /\ UNCHANGED <<request, status, filled, createdAt, executed, got, cancelling>>
  BY DEF LockAndLoadBook, LockIsFree, rowVars
<1>2. m \in Markets /\ request[o] \in Request
  BY DEF IInv, TypeOK, Request
<1>3. BookOf(m) \in [Orders -> Int]
  BY <1>2, BookOfType DEF IInv
<1>4. \A r \in Orders : left[o][r] = 0 /\ got[o][r] = 0
  BY <1>1 DEF IInv, LocalInv, Loaded, TypeOK
<1>5. \A r \in Orders : left'[o][r] = BookOf(m)[r] /\ got'[o][r] = 0
  BY <1>1, <1>4 DEF IInv, TypeOK
<1>6. \A p \in Orders \ {o} : /\ pc'[p] = pc[p] /\ left'[p] = left[p]
                              /\ got'[p] = got[p] /\ rest'[p] = rest[p]
  BY <1>1 DEF IInv, TypeOK
<1>7. \A p, r \in Orders : /\ (LibSide(p))' = LibSide(p)
                           /\ (WithinLimit(p, r))' <=> WithinLimit(p, r)
                           /\ (Ahead(p, r))' <=> Ahead(p, r)
                           /\ (IsResting(p))' <=> IsResting(p)
                           /\ (WellFormed(request[p]))' <=> WellFormed(request[p])
                           /\ p # o => ((Loaded(p, r))' <=> Loaded(p, r))
  BY <1>1, <1>6 DEF Loaded, LibSide, WithinLimit, Ahead, IsResting, WellFormed
<1>8. \A p \in Orders \ {o} : /\ (Crossing(p))' = Crossing(p) /\ (Hit(p))' = Hit(p)
                              /\ (CanMatch(p))' <=> CanMatch(p)
  BY <1>1, <1>6, <1>7 DEF Crossing, Hit, CanMatch
<1>9. \A r \in Orders : (Loaded(o, r))' =>
          /\ IsResting(r) /\ request[r].market = m /\ request[r].price > 0
          /\ left'[o][r] = request[r].quantity - filled[r]
  BY <1>5 DEF Loaded, BookOf
<1>10. ASSUME NEW r \in Orders PROVE left'[o][r] >= 0
  <2>1. request[r].quantity \in Int /\ filled[r] \in Int
    BY DEF IInv, TypeOK, Request
  <2>2. CASE IsResting(r) /\ request[r].market = m /\ request[r].price > 0
    BY <2>1, <2>2, <1>5, RestingHasRemainder DEF BookOf
  <2>3. CASE ~(IsResting(r) /\ request[r].market = m /\ request[r].price > 0)
    BY <2>3, <1>5 DEF BookOf
  <2>4. QED
    BY <2>2, <2>3
<1>11. LockExclusive'
  BY <1>1, <1>6 DEF IInv, LockExclusive
<1>12. RowsInv'
  BY <1>1, <1>6, <1>7 DEF IInv, RowsInv, TypeOK
<1>13. FilledIsExecuted' /\ StatusMatchesFill' /\ BookNotCrossed'
  BY <1>1, <1>7 DEF IInv, FilledIsExecuted, StatusMatchesFill, BookNotCrossed
<1>14. LocalInv'
  <2> SUFFICES ASSUME NEW p \in Orders PROVE
        /\ rest'[p] >= 0 /\ rest'[p] <= request'[p].quantity
        /\ pc'[p] \in {"written", "posted"} => ~(CanMatch(p))'
        /\ \A r \in Orders :
            /\ left'[p][r] >= 0 /\ got'[p][r] >= 0
            /\ (Loaded(p, r))' =>
                /\ pc'[p] \in InTransaction
                /\ status'[r] # "NONE"
                /\ request'[r].market = request'[p].market
                /\ left'[p][r] + got'[p][r] = request'[r].quantity - filled'[r]
            /\ got'[p][r] > 0 => (LibSide(r))' # (LibSide(p))' /\ (WithinLimit(p, r))'
    BY DEF LocalInv
  <2>1. CASE p = o
    <3>1. pc'[o] = "matching" /\ rest'[o] = request[o].quantity
      BY <1>1 DEF IInv, TypeOK
    <3>2. request[o].quantity \in Nat
      BY <1>2 DEF Request
    <3>3. \A r \in Orders : IsResting(r) => status[r] # "NONE"
      BY DEF IsResting
    <3>4. \A r \in Orders : left'[o][r] \in Int
      BY <1>3, <1>5
    <3>5. QED
      BY <2>1, <3>1, <3>2, <3>3, <3>4, <1>1, <1>5, <1>9, <1>10
  <2>2. CASE p # o
    BY <2>2, <1>1, <1>6, <1>7, <1>8 DEF IInv, LocalInv
  <2>3. QED
    BY <2>1, <2>2
<1>15. BookInv'
  <2> SUFFICES ASSUME NEW p \in Orders, pc'[p] \in InTransaction PROVE
        /\ \A r \in Orders :
            /\ (IsResting(r))' /\ request'[r].type = "LIMIT"
            /\ request'[r].market = request'[p].market
            => (Loaded(p, r))'
        /\ \A b, s \in Orders :
            /\ (Loaded(p, b))' /\ (LibSide(b))' = "buy"
            /\ (Loaded(p, s))' /\ (LibSide(s))' = "sell"
            => request'[b].price < request'[s].price
    BY DEF BookInv
  <2>1. CASE p = o
    <3>1. ASSUME NEW r \in Orders, IsResting(r), request[r].type = "LIMIT",
                 request[r].market = m
          PROVE  (Loaded(o, r))'
      <4>1. request[r].price > 0 /\ filled[r] < request[r].quantity
        BY <3>1, RestingHasRemainder
      <4>2. request[r].quantity \in Int /\ filled[r] \in Int
        BY DEF IInv, TypeOK, Request
      <4>3. left'[o][r] > 0
        BY <3>1, <4>1, <4>2, <1>5 DEF BookOf
      <4>4. QED
        BY <4>3 DEF Loaded
    <3>2. ASSUME NEW b \in Orders, (Loaded(o, b))', LibSide(b) = "buy",
                 NEW s \in Orders, (Loaded(o, s))', LibSide(s) = "sell"
          PROVE  request[b].price < request[s].price
      <4>1. /\ IsResting(b) /\ request[b].type = "LIMIT"
            /\ IsResting(s) /\ request[s].type = "LIMIT"
            /\ request[b].market = request[s].market
        BY <3>2, <1>9, RestingHasRemainder
      <4>2. QED
        BY <3>2, <4>1 DEF IInv, BookNotCrossed
    <3>3. QED
      BY <2>1, <3>1, <3>2, <1>1, <1>7
  <2>2. CASE p # o
    BY <2>2, <1>1, <1>6, <1>7 DEF IInv, BookInv
  <2>3. QED
    BY <2>1, <2>2
<1>16. PriceTimePriority'
  <2>1. (Hit(o))' = {}
    BY <1>5 DEF Hit
  <2>2. QED
    BY <2>1, <1>1, <1>7, <1>8 DEF IInv, PriceTimePriority, Hit, Crossing
<1>17. QED
  BY <1>11, <1>12, <1>13, <1>14, <1>15, <1>16 DEF Core

\* One trade moves quantity from the loaded book and the incoming order to the match.
LEMMA MatchKeepsCore ==
  ASSUME IInv, NEW o \in Orders, MatchNext(o)
  PROVE  Core'
<1> USE DEF InTransaction
<1>1. PICK r \in Crossing(o) :
        /\ \A s \in Crossing(o) \ {r} : Ahead(r, s)
        /\ left' = [left EXCEPT ![o][r] = @ - Smaller(rest[o], left[o][r])]
        /\ got' = [got EXCEPT ![o][r] = @ + Smaller(rest[o], left[o][r])]
        /\ rest' = [rest EXCEPT ![o] = @ - Smaller(rest[o], left[o][r])]
  BY DEF MatchNext, Best
<1> DEFINE q == Smaller(rest[o], left[o][r])
<1>2. /\ r \in Orders /\ left[o][r] > 0
      /\ LibSide(r) # LibSide(o) /\ WithinLimit(o, r)
  BY <1>1 DEF Crossing
<1>3. /\ pc[o] = "matching" /\ rest[o] > 0
      /\ UNCHANGED <<request, status, filled, createdAt, executed, pc, cancelling>>
  BY DEF MatchNext, rowVars
<1>4. rest[o] \in Int /\ left[o][r] \in Int /\ got[o][r] \in Int
  BY <1>2 DEF IInv, TypeOK
<1>5. q \in Int /\ q > 0 /\ q <= rest[o] /\ q <= left[o][r]
  BY <1>2, <1>3, <1>4 DEF Smaller
<1>6. /\ left' = [left EXCEPT ![o][r] = @ - q]
      /\ got' = [got EXCEPT ![o][r] = @ + q]
      /\ rest' = [rest EXCEPT ![o] = @ - q]
  BY <1>1
<1> HIDE DEF q
<1>7. /\ left'[o][r] = left[o][r] - q /\ got'[o][r] = got[o][r] + q
      /\ rest'[o] = rest[o] - q
      /\ \A s \in Orders \ {r} : left'[o][s] = left[o][s] /\ got'[o][s] = got[o][s]
      /\ \A p \in Orders \ {o} : left'[p] = left[p] /\ got'[p] = got[p] /\ rest'[p] = rest[p]
  BY <1>2, <1>6 DEF IInv, TypeOK
<1>8. got[o][r] >= 0
  BY <1>2 DEF IInv, LocalInv
<1>9. \A p, s \in Orders : /\ (LibSide(p))' = LibSide(p)
                           /\ (WithinLimit(p, s))' <=> WithinLimit(p, s)
                           /\ (Ahead(p, s))' <=> Ahead(p, s)
                           /\ (IsResting(p))' <=> IsResting(p)
                           /\ (WellFormed(request[p]))' <=> WellFormed(request[p])
  BY <1>3 DEF LibSide, WithinLimit, Ahead, IsResting, WellFormed
<1>10. \A p, s \in Orders : (Loaded(p, s))' <=> Loaded(p, s)
  BY <1>2, <1>4, <1>5, <1>7, <1>8 DEF Loaded
<1>11. \A p \in Orders \ {o} : /\ (Crossing(p))' = Crossing(p) /\ (Hit(p))' = Hit(p)
                               /\ (CanMatch(p))' <=> CanMatch(p)
  BY <1>7, <1>9 DEF Crossing, Hit, CanMatch
<1>12. LockExclusive' /\ RowsInv'
  BY <1>3, <1>9 DEF IInv, LockExclusive, RowsInv
<1>13. FilledIsExecuted' /\ StatusMatchesFill' /\ BookNotCrossed'
  BY <1>3, <1>9 DEF IInv, FilledIsExecuted, StatusMatchesFill, BookNotCrossed
<1>14. LocalInv'
  <2> SUFFICES ASSUME NEW p \in Orders PROVE
        /\ rest'[p] >= 0 /\ rest'[p] <= request'[p].quantity
        /\ pc'[p] \in {"written", "posted"} => ~(CanMatch(p))'
        /\ \A s \in Orders :
            /\ left'[p][s] >= 0 /\ got'[p][s] >= 0
            /\ (Loaded(p, s))' =>
                /\ pc'[p] \in InTransaction
                /\ status'[s] # "NONE"
                /\ request'[s].market = request'[p].market
                /\ left'[p][s] + got'[p][s] = request'[s].quantity - filled'[s]
            /\ got'[p][s] > 0 => (LibSide(s))' # (LibSide(p))' /\ (WithinLimit(p, s))'
    BY DEF LocalInv
  <2>1. CASE p = o
    <3>1. rest'[o] >= 0 /\ rest'[o] <= request[o].quantity
      <4>1. rest[o] <= request[o].quantity /\ request[o].quantity \in Int
        BY DEF IInv, LocalInv, TypeOK, Request
      <4>2. QED
        BY <1>4, <1>5, <1>7, <4>1
    <3>2. ASSUME NEW s \in Orders
          PROVE  /\ left'[o][s] >= 0 /\ got'[o][s] >= 0
                 /\ left'[o][s] + got'[o][s] = left[o][s] + got[o][s]
      <4>1. CASE s = r
        BY <4>1, <1>4, <1>5, <1>7, <1>8
      <4>2. CASE s # r
        BY <4>2, <1>7 DEF IInv, LocalInv
      <4>3. QED
        BY <4>1, <4>2
    <3>3. ASSUME NEW s \in Orders, got'[o][s] > 0
          PROVE  LibSide(s) # LibSide(o) /\ WithinLimit(o, s)
      <4>1. CASE s = r
        BY <4>1, <1>2
      <4>2. CASE s # r
        BY <4>2, <3>3, <1>7 DEF IInv, LocalInv
      <4>3. QED
        BY <4>1, <4>2
    <3>4. QED
      BY <2>1, <3>1, <3>2, <3>3, <1>3, <1>9, <1>10 DEF IInv, LocalInv
  <2>2. CASE p # o
    BY <2>2, <1>3, <1>7, <1>9, <1>10, <1>11 DEF IInv, LocalInv
  <2>3. QED
    BY <2>1, <2>2
<1>15. BookInv'
  BY <1>3, <1>9, <1>10 DEF IInv, BookInv
<1>16. PriceTimePriority'
  <2> SUFFICES ASSUME NEW p \in Orders, NEW h \in (Hit(p))', NEW s \in (Crossing(p))'
               PROVE  ~(Ahead(s, h))'
    BY DEF PriceTimePriority
  <2>1. CASE p # o
    BY <2>1, <1>9, <1>11 DEF IInv, PriceTimePriority, Hit, Crossing
  <2>2. CASE p = o
    <3>1. s \in Orders /\ s \in Crossing(o)
      <4>1. s \in Orders /\ left'[o][s] > 0 /\ LibSide(s) # LibSide(o) /\ WithinLimit(o, s)
        BY <2>2, <1>9 DEF Crossing
      <4>2. left[o][s] > 0
        BY <4>1, <1>2, <1>7
      <4>3. QED
        BY <4>1, <4>2 DEF Crossing
    <3>2. CASE h = r
      <4>1. h \in Orders /\ LibSide(h) = LibSide(s)
        BY <3>1, <3>2, <1>2 DEF Crossing, LibSide
      <4>2. s = r \/ Ahead(h, s)
        BY <3>1, <3>2, <1>1
      <4>3. ~Ahead(s, h)
        <5>1. CASE s = r
          <6>1. ~(Ahead(r, r))
            BY <1>2 DEF Ahead, IInv, TypeOK, Request
          <6>2. QED
            BY <5>1, <6>1, <3>2
        <5>2. CASE Ahead(h, s)
          BY <5>2, <3>1, <4>1, AheadAsymmetric DEF IInv
        <5>3. QED
          BY <4>2, <5>1, <5>2
      <4>4. QED
        BY <4>1, <4>3, <3>1, <1>9
    <3>3. CASE h # r
      <4>1. h \in Hit(o) /\ h \in Orders
        BY <2>2, <3>3, <1>7 DEF Hit
      <4>2. QED
        BY <4>1, <3>1, <1>9 DEF IInv, PriceTimePriority
    <3>4. QED
      BY <3>2, <3>3
  <2>3. QED
    BY <2>1, <2>2
<1>17. QED
  BY <1>12, <1>13, <1>14, <1>15, <1>16 DEF Core

LEMMA Forgotten ==
  ASSUME IInv, NEW o \in Orders, ForgetLocals(o)
  PROVE  /\ rest'[o] = 0
         /\ \A r \in Orders : left'[o][r] = 0 /\ got'[o][r] = 0
         /\ \A p \in Orders \ {o} : left'[p] = left[p] /\ got'[p] = got[p] /\ rest'[p] = rest[p]
BY DEF ForgetLocals, NoAmounts, IInv, TypeOK

\* A failed transaction leaves the rows as they are and forgets its book.
LEMMA AbortKeepsCore ==
  ASSUME IInv, NEW o \in Orders, Abort(o)
  PROVE  Core'
<1> USE DEF InTransaction
<1>1. /\ pc[o] \in InTransaction \cup {"admitted"}
      /\ pc' = [pc EXCEPT ![o] = "aborted"]
      /\ UNCHANGED <<request, status, filled, createdAt, executed, cancelling>>
  BY DEF Abort, rowVars
<1>2. /\ rest'[o] = 0
      /\ \A r \in Orders : left'[o][r] = 0 /\ got'[o][r] = 0
      /\ \A p \in Orders \ {o} : left'[p] = left[p] /\ got'[p] = got[p] /\ rest'[p] = rest[p]
  BY Forgotten DEF Abort
<1>3. pc'[o] = "aborted" /\ \A p \in Orders \ {o} : pc'[p] = pc[p]
  BY <1>1 DEF IInv, TypeOK
<1>4. \A p, r \in Orders : /\ (LibSide(p))' = LibSide(p)
                           /\ (WithinLimit(p, r))' <=> WithinLimit(p, r)
                           /\ (Ahead(p, r))' <=> Ahead(p, r)
                           /\ (IsResting(p))' <=> IsResting(p)
                           /\ (WellFormed(request[p]))' <=> WellFormed(request[p])
                           /\ p # o => ((Loaded(p, r))' <=> Loaded(p, r))
                           /\ ~(Loaded(o, r))'
  BY <1>1, <1>2 DEF Loaded, LibSide, WithinLimit, Ahead, IsResting, WellFormed
<1>5. \A p \in Orders \ {o} : /\ (Crossing(p))' = Crossing(p) /\ (Hit(p))' = Hit(p)
                              /\ (CanMatch(p))' <=> CanMatch(p)
  BY <1>2, <1>4 DEF Crossing, Hit, CanMatch
<1>6. LockExclusive' /\ RowsInv'
  BY <1>1, <1>3, <1>4 DEF IInv, LockExclusive, RowsInv
<1>7. FilledIsExecuted' /\ StatusMatchesFill' /\ BookNotCrossed'
  BY <1>1, <1>4 DEF IInv, FilledIsExecuted, StatusMatchesFill, BookNotCrossed
<1>8. LocalInv'
  <2>1. request[o].quantity \in Nat
    BY DEF IInv, TypeOK, Request
  <2>2. QED
    BY <2>1, <1>1, <1>2, <1>3, <1>4, <1>5 DEF IInv, LocalInv
<1>9. BookInv'
  BY <1>1, <1>3, <1>4 DEF IInv, BookInv
<1>10. PriceTimePriority'
  <2>1. (Hit(o))' = {}
    BY <1>2 DEF Hit
  <2>2. QED
    BY <2>1, <1>4, <1>5 DEF IInv, PriceTimePriority, Hit, Crossing
<1>11. QED
  BY <1>6, <1>7, <1>8, <1>9, <1>10 DEF Core

\* A cancellation only takes orders off the resting set.
LEMMA CancelKeepsCore ==
  ASSUME IInv, NEW o \in Orders, CancelWrite(o)
  PROVE  Core'
<1> USE DEF InTransaction
<1>1. /\ o \in cancelling /\ cancelling' = cancelling \ {o}
      /\ status' = [status EXCEPT ![o] = "CANCELLED"]
      /\ UNCHANGED <<request, filled, createdAt, executed, pc, left, got, rest>>
  BY DEF CancelWrite, localVars
<1>2. status[o] # "NONE" /\ pc[o] = "committed"
  BY <1>1 DEF IInv, RowsInv
<1>3. status'[o] = "CANCELLED" /\ \A p \in Orders \ {o} : status'[p] = status[p]
  BY <1>1 DEF IInv, TypeOK
<1>4. \A p, r \in Orders : /\ (Loaded(p, r))' <=> Loaded(p, r)
                           /\ (LibSide(p))' = LibSide(p)
                           /\ (WithinLimit(p, r))' <=> WithinLimit(p, r)
                           /\ (Ahead(p, r))' <=> Ahead(p, r)
                           /\ (IsResting(p))' => IsResting(p)
                           /\ (WellFormed(request[p]))' <=> WellFormed(request[p])
  BY <1>1, <1>3 DEF Loaded, LibSide, WithinLimit, Ahead, IsResting, WellFormed
<1>5. \A p \in Orders : /\ (Crossing(p))' = Crossing(p) /\ (Hit(p))' = Hit(p)
                        /\ (CanMatch(p))' <=> CanMatch(p)
  BY <1>1, <1>4 DEF Crossing, Hit, CanMatch
<1>6. LockExclusive' /\ RowsInv'
  BY <1>1, <1>2, <1>3, <1>4 DEF IInv, LockExclusive, RowsInv
<1>7. FilledIsExecuted' /\ BookNotCrossed'
  BY <1>1, <1>4 DEF IInv, FilledIsExecuted, BookNotCrossed
<1>8. StatusMatchesFill'
  BY <1>1, <1>2, <1>3 DEF IInv, StatusMatchesFill
<1>9. LocalInv'
  BY <1>1, <1>3, <1>4, <1>5 DEF IInv, LocalInv
<1>10. BookInv'
  BY <1>1, <1>4 DEF IInv, BookInv
<1>11. PriceTimePriority'
  BY <1>4, <1>5 DEF IInv, PriceTimePriority, Hit, Crossing
<1>12. QED
  BY <1>6, <1>7, <1>8, <1>9, <1>10, <1>11 DEF Core

\* What a commit makes of the rows: the transaction's own, those it matched, others.
LEMMA CommittedRows ==
  ASSUME IInv, NEW o \in Orders, Commit(o)
  PROVE  /\ filled'[o] = request[o].quantity - rest[o]
         /\ status'[o] = StatusFor(o, request[o].quantity - rest[o])
         /\ \A r \in Hit(o) : /\ filled'[r] = filled[r] + got[o][r]
                              /\ filled'[r] = request[r].quantity - left[o][r]
                              /\ status'[r] = StatusFor(r, request[r].quantity - left[o][r])
         /\ \A r \in Orders : r \notin Hit(o) /\ r # o =>
                /\ filled'[r] = filled[r] /\ status'[r] = status[r]
                /\ createdAt'[r] = createdAt[r] /\ got[o][r] = 0
         /\ \A r \in Orders : executed'[r] = filled'[r]
<1> USE DEF InTransaction
<1>1. pc[o] \in InTransaction
  BY DEF Commit
<1>2. filled[o] = 0 /\ executed[o] = 0 /\ o \notin Hit(o) /\ Hit(o) \subseteq Orders
  BY <1>1, OwnRow DEF Hit
<1>3. \A r \in Orders : /\ filled[r] \in Int /\ got[o][r] \in Int /\ left[o][r] \in Int
                        /\ request[r].quantity \in Int /\ rest[o] \in Int
                        /\ executed[r] = filled[r]
  BY DEF IInv, TypeOK, Request, FilledIsExecuted
<1>4. \A r \in Hit(o) : left[o][r] + got[o][r] = request[r].quantity - filled[r]
  BY <1>2 DEF IInv, LocalInv, Loaded, Hit
<1>5. \A r \in Orders : r \notin Hit(o) => got[o][r] = 0
  BY <1>3 DEF IInv, LocalInv, Hit
<1>6. \A r \in Orders :
        /\ filled'[r] = IF r \in Hit(o) \cup {o} THEN FilledAfter(o, r) ELSE filled[r]
        /\ status'[r] = IF r \in Hit(o) \cup {o}
                        THEN StatusFor(r, FilledAfter(o, r)) ELSE status[r]
        /\ executed'[r] = executed[r] +
              (IF r = o THEN request[o].quantity - rest[o] ELSE got[o][r])
        /\ r # o => createdAt'[r] = createdAt[r]
  BY DEF Commit, IInv, TypeOK
<1>7. FilledAfter(o, o) = request[o].quantity - rest[o]
  BY DEF FilledAfter
<1>8. \A r \in Hit(o) : FilledAfter(o, r) = request[r].quantity - left[o][r]
  BY <1>2 DEF FilledAfter
<1>9. \A r \in Hit(o) : request[r].quantity - left[o][r] = filled[r] + got[o][r]
  BY <1>2, <1>3, <1>4
<1>10. \A r \in Orders : executed'[r] = filled'[r]
  <2> SUFFICES ASSUME NEW r \in Orders PROVE executed'[r] = filled'[r]
    OBVIOUS
  <2>1. CASE r = o
    BY <2>1, <1>2, <1>3, <1>6, <1>7
  <2>2. CASE r \in Hit(o)
    BY <2>2, <1>2, <1>3, <1>6, <1>8, <1>9
  <2>3. CASE r \notin Hit(o) /\ r # o
    BY <2>3, <1>3, <1>5, <1>6
  <2>4. QED
    BY <2>1, <2>2, <2>3
<1>11. QED
  BY <1>2, <1>5, <1>6, <1>7, <1>8, <1>9, <1>10

LEMMA StatusForFits ==
  ASSUME NEW r \in Orders, NEW n \in Int, request[r].quantity \in Int,
         0 <= n, n <= request[r].quantity, request[r].quantity > 0
  PROVE  /\ StatusFor(r, n) \in {"PENDING", "PARTIALLY_FILLED", "FILLED"}
         /\ StatusFor(r, n) = "PENDING" => n = 0
         /\ StatusFor(r, n) = "PARTIALLY_FILLED" => 0 < n /\ n < request[r].quantity
         /\ StatusFor(r, n) = "FILLED" => n = request[r].quantity
BY DEF StatusFor

\* A commit writes rows of its own market only, the ones it loaded under the lock.
LEMMA CommitKeepsCore ==
  ASSUME IInv, NEW o \in Orders, Commit(o)
  PROVE  Core'
<1> USE DEF InTransaction
<1>1. /\ pc[o] = "posted" /\ pc' = [pc EXCEPT ![o] = "committed"]
      /\ ForgetLocals(o)
      /\ UNCHANGED <<request, cancelling>>
  BY DEF Commit
<1>2. /\ status[o] = "NONE" /\ o \notin Hit(o) /\ WellFormed(request[o])
      /\ \A p \in Orders : left[p][o] = 0 /\ got[p][o] = 0
  BY <1>1, OwnRow
<1>3. /\ rest'[o] = 0
      /\ \A r \in Orders : left'[o][r] = 0 /\ got'[o][r] = 0
      /\ \A p \in Orders \ {o} : left'[p] = left[p] /\ got'[p] = got[p] /\ rest'[p] = rest[p]
  BY <1>1, Forgotten
<1>4. pc'[o] = "committed" /\ \A p \in Orders \ {o} : pc'[p] = pc[p]
  BY <1>1 DEF IInv, TypeOK
<1>5. \A r \in Hit(o) : r \in Orders /\ request[r].market = request[o].market
                        /\ status[r] # "NONE" /\ r # o
  BY <1>2 DEF IInv, LocalInv, Loaded, Hit
<1>6. \A p \in Orders \ {o}, r \in Orders : Loaded(p, r) => r \notin Hit(o) /\ r # o
  <2> SUFFICES ASSUME NEW p \in Orders \ {o}, NEW r \in Orders, Loaded(p, r)
               PROVE  r \notin Hit(o) /\ r # o
    OBVIOUS
  <2>1. pc[p] \in InTransaction /\ request[r].market = request[p].market
    BY DEF IInv, LocalInv
  <2>2. request[p].market # request[o].market
    BY <1>1, <2>1 DEF IInv, LockExclusive
  <2>3. r # o
    BY <2>1, <2>2
  <2>4. QED
    BY <1>5, <2>1, <2>2, <2>3
<1>7. \A r \in Orders : r \notin Hit(o) /\ r # o =>
          /\ filled'[r] = filled[r] /\ status'[r] = status[r] /\ createdAt'[r] = createdAt[r]
          /\ got[o][r] = 0
  BY CommittedRows
<1>8. \A p, r \in Orders : /\ (LibSide(p))' = LibSide(p)
                           /\ (WithinLimit(p, r))' <=> WithinLimit(p, r)
                           /\ (WellFormed(request[p]))' <=> WellFormed(request[p])
                           /\ p # o => ((Loaded(p, r))' <=> Loaded(p, r))
                           /\ ~(Loaded(o, r))'
  BY <1>1, <1>3 DEF Loaded, LibSide, WithinLimit, WellFormed
<1>9. \A p \in Orders \ {o} : /\ (Crossing(p))' = Crossing(p) /\ (Hit(p))' = Hit(p)
                              /\ (CanMatch(p))' <=> CanMatch(p)
  BY <1>3, <1>8 DEF Crossing, Hit, CanMatch
<1>10. \A r \in Orders : /\ request[r].quantity \in Int /\ request[r].price \in Int
                         /\ left[o][r] \in Int /\ got[o][r] \in Int /\ filled[r] \in Int
                         /\ rest[o] \in Int
  BY DEF IInv, TypeOK, Request
<1>11. 0 <= request[o].quantity - rest[o] /\ request[o].quantity - rest[o] <= request[o].quantity
  BY <1>10 DEF IInv, LocalInv
<1>12. \A r \in Hit(o) : /\ 0 <= request[r].quantity - left[o][r]
                         /\ request[r].quantity - left[o][r] <= request[r].quantity
                         /\ WellFormed(request[r])
  <2> SUFFICES ASSUME NEW r \in Hit(o)
               PROVE  /\ 0 <= request[r].quantity - left[o][r]
                      /\ request[r].quantity - left[o][r] <= request[r].quantity
                      /\ WellFormed(request[r])
    OBVIOUS
  <2>1. /\ left[o][r] + got[o][r] = request[r].quantity - filled[r]
        /\ left[o][r] >= 0 /\ got[o][r] >= 0
    BY <1>5 DEF IInv, LocalInv, Loaded, Hit
  <2>2. filled[r] >= 0
    BY <1>5 DEF IInv, StatusMatchesFill
  <2>3. WellFormed(request[r])
    BY <1>5 DEF IInv, RowsInv
  <2>4. QED
    BY <2>1, <2>2, <2>3, <1>5, <1>10
<1>13. \A r \in Hit(o) \cup {o} :
          /\ r \in Orders
          /\ status'[r] \in {"PENDING", "PARTIALLY_FILLED", "FILLED"}
          /\ 0 <= filled'[r] /\ filled'[r] <= request[r].quantity
          /\ status'[r] = "PENDING" => filled'[r] = 0
          /\ status'[r] = "PARTIALLY_FILLED" => 0 < filled'[r] /\ filled'[r] < request[r].quantity
          /\ status'[r] = "FILLED" => filled'[r] = request[r].quantity
  <2> SUFFICES ASSUME NEW r \in Hit(o) \cup {o}
               PROVE  /\ r \in Orders
                      /\ status'[r] \in {"PENDING", "PARTIALLY_FILLED", "FILLED"}
                      /\ 0 <= filled'[r] /\ filled'[r] <= request[r].quantity
                      /\ status'[r] = "PENDING" => filled'[r] = 0
                      /\ status'[r] = "PARTIALLY_FILLED" =>
                            0 < filled'[r] /\ filled'[r] < request[r].quantity
                      /\ status'[r] = "FILLED" => filled'[r] = request[r].quantity
    OBVIOUS
  <2>1. r \in Orders
    BY <1>5
  <2>2. PICK n \in Int : /\ filled'[r] = n /\ status'[r] = StatusFor(r, n)
                         /\ 0 <= n /\ n <= request[r].quantity
                         /\ request[r].quantity > 0
    <3>1. CASE r = o
      BY <3>1, <1>2, <1>10, <1>11, CommittedRows DEF WellFormed
    <3>2. CASE r \in Hit(o)
      BY <3>2, <1>5, <1>10, <1>12, CommittedRows DEF WellFormed
    <3>3. QED
      BY <3>1, <3>2
  <2>3. QED
    BY <2>1, <2>2, <1>10, StatusForFits
<1>14. \A r \in Orders : executed'[r] = filled'[r]
  BY CommittedRows
<1>15. LockExclusive'
  BY <1>1, <1>4 DEF IInv, LockExclusive
<1>16. RowsInv'
  <2> SUFFICES ASSUME NEW r \in Orders
               PROVE  /\ status'[r] = "NONE" <=> pc'[r] # "committed"
                      /\ r \in cancelling' => status'[r] # "NONE"
                      /\ pc'[r] \notin {"new", "rejected"} => (WellFormed(request[r]))'
    BY DEF RowsInv
  <2>1. CASE r = o
    BY <2>1, <1>2, <1>4, <1>8, <1>13
  <2>2. CASE r \in Hit(o)
    BY <2>2, <1>1, <1>4, <1>5, <1>8, <1>13 DEF IInv, RowsInv
  <2>3. CASE r # o /\ r \notin Hit(o)
    BY <2>3, <1>1, <1>4, <1>7, <1>8 DEF IInv, RowsInv
  <2>4. QED
    BY <2>1, <2>2, <2>3
<1>17. FilledIsExecuted'
  BY <1>14 DEF FilledIsExecuted
<1>18. StatusMatchesFill'
  <2> SUFFICES ASSUME NEW r \in Orders
               PROVE  /\ filled'[r] >= 0
                      /\ status'[r] # "NONE" => filled'[r] <= request'[r].quantity
                      /\ status'[r] \in {"NONE", "PENDING"} => filled'[r] = 0
                      /\ status'[r] = "PARTIALLY_FILLED" =>
                            0 < filled'[r] /\ filled'[r] < request'[r].quantity
                      /\ status'[r] = "FILLED" => filled'[r] = request'[r].quantity
    BY DEF StatusMatchesFill
  <2>1. CASE r \in Hit(o) \cup {o}
    <3>1. filled'[r] \in Int
      BY <2>1, <1>10, <1>5, CommittedRows
    <3>2. QED
      BY <2>1, <3>1, <1>1, <1>13
  <2>2. CASE r \notin Hit(o) \cup {o}
    BY <2>2, <1>1, <1>7 DEF IInv, StatusMatchesFill
  <2>3. QED
    BY <2>1, <2>2
<1>19. LocalInv'
  <2> SUFFICES ASSUME NEW p \in Orders PROVE
        /\ rest'[p] >= 0 /\ rest'[p] <= request'[p].quantity
        /\ pc'[p] \in {"written", "posted"} => ~(CanMatch(p))'
        /\ \A r \in Orders :
            /\ left'[p][r] >= 0 /\ got'[p][r] >= 0
            /\ (Loaded(p, r))' =>
                /\ pc'[p] \in InTransaction
                /\ status'[r] # "NONE"
                /\ request'[r].market = request'[p].market
                /\ left'[p][r] + got'[p][r] = request'[r].quantity - filled'[r]
            /\ got'[p][r] > 0 => (LibSide(r))' # (LibSide(p))' /\ (WithinLimit(p, r))'
    BY DEF LocalInv
  <2>1. CASE p = o
    <3>1. request[o].quantity >= 0
      BY DEF IInv, TypeOK, Request
    <3>2. QED
      BY <2>1, <3>1, <1>1, <1>3, <1>4, <1>8
  <2>2. CASE p # o
    BY <2>2, <1>1, <1>3, <1>4, <1>6, <1>7, <1>8, <1>9 DEF IInv, LocalInv
  <2>3. QED
    BY <2>1, <2>2
<1>20. BookInv'
  <2> SUFFICES ASSUME NEW p \in Orders, pc'[p] \in InTransaction PROVE
        /\ \A r \in Orders :
            /\ (IsResting(r))' /\ request'[r].type = "LIMIT"
            /\ request'[r].market = request'[p].market
            => (Loaded(p, r))'
        /\ \A b, s \in Orders :
            /\ (Loaded(p, b))' /\ (LibSide(b))' = "buy"
            /\ (Loaded(p, s))' /\ (LibSide(s))' = "sell"
            => request'[b].price < request'[s].price
    BY DEF BookInv
  <2>1. p # o /\ pc[p] \in InTransaction
    BY <1>4
  <2>2. request[p].market # request[o].market
    BY <2>1, <1>1 DEF IInv, LockExclusive
  <2>3. ASSUME NEW r \in Orders, (IsResting(r))', request[r].type = "LIMIT",
               request[r].market = request[p].market
        PROVE  (Loaded(p, r))'
    <3>1. r # o /\ r \notin Hit(o)
      BY <2>2, <2>3, <1>5
    <3>2. IsResting(r)
      BY <2>3, <3>1, <1>7 DEF IsResting
    <3>3. QED
      BY <2>1, <2>3, <3>2, <1>8 DEF IInv, BookInv
  <2>4. QED
    BY <2>1, <2>3, <1>1, <1>8 DEF IInv, BookInv
<1>21. BookNotCrossed'
  <2>1. ASSUME NEW r \in Orders, r # o, (IsResting(r))', request[r].type = "LIMIT",
               request[r].market = request[o].market
        PROVE  Loaded(o, r) /\ left[o][r] > 0
    <3>1. CASE r \in Hit(o)
      <4>1. Loaded(o, r)
        BY <3>1 DEF Hit, Loaded
      <4>2. filled'[r] < request[r].quantity /\ filled'[r] = request[r].quantity - left[o][r]
        <5>1. filled'[r] = request[r].quantity - left[o][r]
          BY <3>1, CommittedRows
        <5>2. request[r].quantity > 0
          BY <3>1, <1>12 DEF WellFormed
        <5>3. QED
          BY <2>1, <3>1, <5>1, <5>2, <1>10, <1>13 DEF IsResting
      <4>3. QED
        BY <4>1, <4>2, <1>10
    <3>2. CASE r \notin Hit(o)
      <4>1. IsResting(r) /\ got[o][r] = 0
        BY <3>2, <2>1, <1>7 DEF IsResting
      <4>2. Loaded(o, r)
        BY <4>1, <2>1, <1>1 DEF IInv, BookInv
      <4>3. QED
        BY <4>1, <4>2 DEF Loaded
    <3>3. QED
      BY <3>1, <3>2
  <2>2. ASSUME (IsResting(o))', NEW r \in Orders, left[o][r] > 0, LibSide(r) # LibSide(o)
        PROVE  ~WithinLimit(o, r)
    <3>1. filled'[o] = request[o].quantity - rest[o]
      BY CommittedRows
    <3>2. filled'[o] < request[o].quantity
      BY <2>2, <3>1, <1>2, <1>10, <1>13 DEF IsResting, WellFormed
    <3>3. rest[o] > 0
      BY <3>1, <3>2, <1>10
    <3>4. Crossing(o) = {}
      BY <3>3, <1>1 DEF IInv, LocalInv, CanMatch
    <3>5. QED
      BY <3>4, <2>2 DEF Crossing
  <2> SUFFICES ASSUME NEW b \in Orders, NEW s \in Orders,
                      (IsResting(b))', request[b].type = "LIMIT", LibSide(b) = "buy",
                      (IsResting(s))', request[s].type = "LIMIT", LibSide(s) = "sell",
                      request[b].market = request[s].market
               PROVE  request[b].price < request[s].price
    BY <1>1, <1>8 DEF BookNotCrossed
  <2>3. CASE request[b].market # request[o].market
    <3>1. b # o /\ s # o /\ b \notin Hit(o) /\ s \notin Hit(o)
      BY <2>3, <1>5
    <3>2. IsResting(b) /\ IsResting(s)
      BY <3>1, <1>7 DEF IsResting
    <3>3. QED
      BY <3>2 DEF IInv, BookNotCrossed
  <2>4. CASE request[b].market = request[o].market /\ b = o
    <3>1. s # o
      BY <2>4
    <3>2. left[o][s] > 0
      BY <2>1, <2>4, <3>1
    <3>3. ~WithinLimit(o, s)
      BY <2>2, <2>4, <3>2
    <3>4. QED
      BY <2>4, <3>3, <1>10 DEF WithinLimit
  <2>5. CASE request[b].market = request[o].market /\ s = o
    <3>1. b # o
      BY <2>5
    <3>2. left[o][b] > 0
      BY <2>1, <2>5, <3>1
    <3>3. ~WithinLimit(o, b)
      BY <2>2, <2>5, <3>2
    <3>4. QED
      BY <2>5, <3>3, <1>10 DEF WithinLimit
  <2>6. CASE request[b].market = request[o].market /\ b # o /\ s # o
    BY <2>1, <2>6, <1>1 DEF IInv, BookInv
  <2>7. QED
    BY <2>3, <2>4, <2>5, <2>6
<1>22. PriceTimePriority'
  <2> SUFFICES ASSUME NEW p \in Orders, NEW h \in (Hit(p))', NEW s \in (Crossing(p))'
               PROVE  ~(Ahead(s, h))'
    BY DEF PriceTimePriority
  <2>1. p # o
    BY <1>3 DEF Hit
  <2>2. h \in Hit(p) /\ s \in Crossing(p)
    BY <2>1, <1>9
  <2>3. h \in Orders /\ s \in Orders /\ Loaded(p, h) /\ Loaded(p, s)
    BY <2>2 DEF Hit, Crossing, Loaded
  <2>4. createdAt'[h] = createdAt[h] /\ createdAt'[s] = createdAt[s]
    BY <2>1, <2>3, <1>6, <1>7
  <2>5. (Ahead(s, h))' <=> Ahead(s, h)
    BY <2>3, <2>4, <1>1, <1>8 DEF Ahead
  <2>6. QED
    BY <2>2, <2>5 DEF IInv, PriceTimePriority
<1>23. QED
  BY <1>15, <1>16, <1>17, <1>18, <1>19, <1>20, <1>21, <1>22 DEF Core

-----------------------------------------------------------------------------
LEMMA NextCore == IInv /\ [Next]_vars => Core'
<1> SUFFICES ASSUME IInv, [Next]_vars PROVE Core'
  OBVIOUS
<1> USE DEF rowVars, localVars
<1>1. ASSUME NEW o \in Orders, Admit(o) PROVE Core'
  BY <1>1, QuietSteps DEF Admit, validateOrder
<1>2. ASSUME NEW o \in Orders, Reject(o) PROVE Core'
  BY <1>2, QuietSteps DEF Reject
<1>3. ASSUME NEW o \in Orders, LockAndLoadBook(o) PROVE Core'
  BY <1>3, LoadKeepsCore
<1>4. ASSUME NEW o \in Orders, MatchNext(o) PROVE Core'
  BY <1>4, MatchKeepsCore
<1>5. ASSUME NEW o \in Orders, PersistFills(o) PROVE Core'
  <2>1. pc' = [pc EXCEPT ![o] = "posted"] \/ pc' = [pc EXCEPT ![o] = "written"]
    BY <1>5 DEF PersistFills, AfterPersist
  <2>2. QED
    BY <1>5, <2>1, QuietSteps DEF PersistFills, AfterPersist
<1>6. ASSUME NEW o \in Orders, PostTradeEvent(o) PROVE Core'
  BY <1>6, QuietSteps DEF PostTradeEvent
<1>7. ASSUME NEW o \in Orders, Commit(o) PROVE Core'
  BY <1>7, CommitKeepsCore
<1>8. ASSUME NEW o \in Orders, Abort(o) PROVE Core'
  BY <1>8, AbortKeepsCore
<1>9. ASSUME NEW o \in Orders, CancelRead(o) PROVE Core'
  BY <1>9, QuietSteps DEF CancelRead
<1>10. ASSUME NEW o \in Orders, CancelWrite(o) PROVE Core'
  BY <1>10, CancelKeepsCore
<1>11. CASE /\ pc' = pc /\ cancelling' = cancelling
            /\ UNCHANGED <<request, status, filled, createdAt, executed, left, got, rest>>
  <2>1. CASE Orders = {}
    BY <2>1, <1>11 DEF Core, LockExclusive, RowsInv, FilledIsExecuted, StatusMatchesFill,
          LocalInv, BookInv, BookNotCrossed, PriceTimePriority
  <2>2. CASE Orders # {}
    BY <2>2, <1>11, QuietSteps
  <2>3. QED
    BY <2>1, <2>2
<1>12. ASSUME NEW m \in Markets, LockMarket(m) PROVE Core'
  BY <1>11, <1>12 DEF LockMarket
<1>13. CASE UNCHANGED vars
  BY <1>11, <1>13 DEF vars
<1>14. QED
  BY <1>1, <1>2, <1>3, <1>4, <1>5, <1>6, <1>7, <1>8, <1>9, <1>10, <1>12, <1>13
     DEF Next, Place

LEMMA Inductive == Spec => []IInv
<1>1. Init => IInv
  BY InitTypeOK, InitCore DEF IInv, Core
<1>2. IInv /\ [Next]_vars => IInv'
  BY NextTypeOK, NextCore DEF IInv, Core
<1>3. QED
  BY <1>1, <1>2, PTL DEF Spec

\* Whatever placements, cancellations and failures run side by side, the absolute
\* filledQuantity a placement writes is the total of the order's trades.
THEOREM FillsAreTrades == Spec => []FilledIsExecuted
BY Inductive, PTL DEF IInv

\* No order is overfilled, and every status written agrees with the quantity filled.
THEOREM StatusIsRight == Spec => []StatusMatchesFill
BY Inductive, PTL DEF IInv

\* No two resting limit orders of a market could trade with each other.
THEOREM BookStaysUncrossed == Spec => []BookNotCrossed
BY Inductive, PTL DEF IInv

\* No incoming order trades past a resting order that has priority.
THEOREM PriorityIsRespected == Spec => []PriceTimePriority
BY Inductive, PTL DEF IInv

\* A committed fill is never taken back.
THEOREM FillsAreFinal == Spec => FilledNeverShrinks
<1>1. IInv /\ [Next]_vars => [\A o \in Orders : filled'[o] >= filled[o]]_vars
  <2> SUFFICES ASSUME IInv, Next
               PROVE  \A r \in Orders : filled'[r] >= filled[r]
    OBVIOUS
  <2>1. \A r \in Orders : filled[r] \in Int
    BY DEF IInv, TypeOK
  <2>2. ASSUME NEW o \in Orders, Commit(o), NEW r \in Orders PROVE filled'[r] >= filled[r]
    <3>1. pc[o] \in InTransaction
      BY <2>2 DEF Commit, InTransaction
    <3>2. CASE r = o
      <4>1. filled'[o] = request[o].quantity - rest[o] /\ filled[o] = 0
        BY <2>2, <3>1, CommittedRows, OwnRow
      <4>2. rest[o] <= request[o].quantity /\ rest[o] \in Int /\ request[o].quantity \in Int
        BY DEF IInv, LocalInv, TypeOK, Request
      <4>3. QED
        BY <3>2, <4>1, <4>2
    <3>3. CASE r \in Hit(o)
      <4>1. filled'[r] = filled[r] + got[o][r]
        BY <2>2, <3>3, CommittedRows
      <4>2. got[o][r] > 0 /\ got[o][r] \in Int
        BY <3>3 DEF Hit, IInv, TypeOK
      <4>3. QED
        BY <4>1, <4>2, <2>1
    <3>4. CASE r # o /\ r \notin Hit(o)
      BY <2>2, <3>4, <2>1, CommittedRows
    <3>5. QED
      BY <3>2, <3>3, <3>4
  <2>3. CASE filled' = filled
    BY <2>1, <2>3
  <2>4. QED
    BY <2>2, <2>3 DEF Next, Place, Admit, Reject, LockAndLoadBook, MatchNext, PersistFills,
       PostTradeEvent, Abort, CancelRead, CancelWrite, LockMarket, rowVars
<1>2. QED
  BY <1>1, Inductive, PTL DEF Spec, FilledNeverShrinks

-----------------------------------------------------------------------------
\* What a transaction is about to commit has been broadcast.
AnnouncedInv ==
    /\ CommittedTradesAnnounced
    /\ \A o \in Orders : pc[o] = "posted" => Deals(o) \subseteq announced

LEMMA AnnouncedStep == TypeOK /\ AnnouncedInv /\ [Next]_vars => AnnouncedInv'
<1> SUFFICES ASSUME TypeOK, AnnouncedInv, [Next]_vars
             PROVE  AnnouncedInv'
  OBVIOUS
<1> USE DEF AnnouncedInv, CommittedTradesAnnounced, rowVars, localVars
<1>1. pc \in [Orders -> {"new", "admitted"} \cup InTransaction \cup Ended]
      /\ got \in [Orders -> [Orders -> Int]]
  BY DEF TypeOK
<1>2. ASSUME request' = request, announced \subseteq announced', trades' = trades,
             NEW o \in Orders, pc'[o] = "posted" => Deals(o)' \subseteq announced',
             \A p \in Orders \ {o} : pc'[p] = pc[p] /\ got'[p] = got[p]
      PROVE  AnnouncedInv'
  BY <1>2 DEF Deals, Hit
<1>3. ASSUME NEW o \in Orders, Admit(o) \/ Reject(o) \/ LockAndLoadBook(o) \/ MatchNext(o) \/ Abort(o)
      PROVE  AnnouncedInv'
  BY <1>1, <1>2, <1>3 DEF Admit, Reject, LockAndLoadBook, MatchNext, Abort, ForgetLocals
<1>4. ASSUME NEW o \in Orders, PersistFills(o)
      PROVE  AnnouncedInv'
  <2>1. pc'[o] = "posted" => Deals(o)' = {}
    BY <1>1, <1>4 DEF PersistFills, AfterPersist, Deals, Hit
  <2> QED
    BY <1>1, <1>2, <1>4, <2>1 DEF PersistFills
<1>5. ASSUME NEW o \in Orders, PostTradeEvent(o)
      PROVE  AnnouncedInv'
  <2>1. Deals(o)' = Deals(o)
    BY <1>5 DEF PostTradeEvent, Deals, Hit
  <2> QED
    BY <1>1, <1>2, <1>5, <2>1 DEF PostTradeEvent
<1>6. ASSUME NEW o \in Orders, Commit(o)
      PROVE  AnnouncedInv'
  <2>1. trades' \subseteq announced'
    BY <1>6 DEF Commit
  <2>2. \A p \in Orders \ {o} : pc'[p] = pc[p] /\ got'[p] = got[p]
    BY <1>1, <1>6 DEF Commit, ForgetLocals
  <2>3. pc'[o] # "posted" /\ request' = request /\ announced' = announced
    BY <1>1, <1>6 DEF Commit
  <2> QED
    BY <2>1, <2>2, <2>3 DEF Deals, Hit
<1>7. ASSUME UNCHANGED <<pc, got, request, announced, trades>>
      PROVE  AnnouncedInv'
  BY <1>7 DEF Deals, Hit
<1> QED
  BY <1>3, <1>4, <1>5, <1>6, <1>7 DEF Next, Place, CancelRead, CancelWrite, LockMarket, vars

\* Every committed trade was broadcast before, although transactions fail after their
\* broadcast and those without trades make none.
THEOREM CommitsAreAnnounced == Spec => []CommittedTradesAnnounced
<1>1. Init => AnnouncedInv
  BY DEF Init, AnnouncedInv, CommittedTradesAnnounced
<1>2. AnnouncedInv => CommittedTradesAnnounced
  BY DEF AnnouncedInv
<1> QED
  BY <1>1, <1>2, InitTypeOK, NextTypeOK, AnnouncedStep, PTL DEF Spec

-----------------------------------------------------------------------------
(* What trades add up to *)

Trade == [taker : Orders, maker : Orders, price : Nat, quantity : Int]

\* The trade between o and r once o has matched what it will.
Deal(o, r) == [taker |-> o, maker |-> r, price |-> request[r].price, quantity |-> got[o][r]]

\* One trade of the matching loop, by what it does to the local state of o.
LEMMA MatchedOne ==
  ASSUME IInv, NEW o \in Orders, MatchNext(o)
  PROVE  \E r \in Orders, q \in Int :
            /\ q > 0 /\ left[o][r] > 0 /\ got[o][r] >= 0 /\ r # o
            /\ LibSide(r) # LibSide(o)
            /\ request[r].market = request[o].market
            /\ got'[o][r] = got[o][r] + q /\ rest'[o] = rest[o] - q
            /\ \A s \in Orders \ {r} : got'[o][s] = got[o][s]
            /\ \A a \in Accounts : /\ cash'[o][a] = cash[o][a] + CashOf(o, r, q, a)
                                   /\ move'[o][a] = move[o][a] + MoveOf(o, r, q, a)
            /\ Hit(o)' = Hit(o) \cup {r}
            /\ \A p \in Orders \ {o} : /\ got'[p] = got[p] /\ rest'[p] = rest[p]
                                       /\ cash'[p] = cash[p] /\ move'[p] = move[p]
                                       /\ Hit(p)' = Hit(p)
<1>1. PICK r \in Crossing(o) :
          /\ got' = [got EXCEPT ![o][r] = @ + Smaller(rest[o], left[o][r])]
          /\ rest' = [rest EXCEPT ![o] = @ - Smaller(rest[o], left[o][r])]
          /\ cash' = [cash EXCEPT ![o] = [a \in Accounts |->
                        @[a] + CashOf(o, r, Smaller(rest[o], left[o][r]), a)]]
          /\ move' = [move EXCEPT ![o] = [a \in Accounts |->
                        @[a] + MoveOf(o, r, Smaller(rest[o], left[o][r]), a)]]
  BY DEF MatchNext, Best
<1> DEFINE q == Smaller(rest[o], left[o][r])
<1>2. r \in Orders /\ left[o][r] > 0 /\ LibSide(r) # LibSide(o) /\ rest[o] > 0
  BY <1>1 DEF Crossing, MatchNext
<1>3. rest[o] \in Int /\ left[o][r] \in Int
  BY <1>2 DEF IInv, TypeOK
<1>4. q \in Int /\ q > 0
  BY <1>2, <1>3 DEF Smaller
<1>5. got[o][r] >= 0 /\ got[o][r] \in Int /\ r # o /\ request[r].market = request[o].market
  BY <1>2 DEF IInv, LocalInv, Loaded, TypeOK
<1>6. /\ got' = [got EXCEPT ![o][r] = @ + q]
      /\ rest' = [rest EXCEPT ![o] = @ - q]
      /\ cash' = [cash EXCEPT ![o] = [a \in Accounts |-> @[a] + CashOf(o, r, q, a)]]
      /\ move' = [move EXCEPT ![o] = [a \in Accounts |-> @[a] + MoveOf(o, r, q, a)]]
  BY <1>1
<1> HIDE DEF q
<1>7. /\ got'[o][r] = got[o][r] + q /\ rest'[o] = rest[o] - q
      /\ \A s \in Orders \ {r} : got'[o][s] = got[o][s]
      /\ \A a \in Accounts : /\ cash'[o][a] = cash[o][a] + CashOf(o, r, q, a)
                             /\ move'[o][a] = move[o][a] + MoveOf(o, r, q, a)
      /\ \A p \in Orders \ {o} : /\ got'[p] = got[p] /\ rest'[p] = rest[p]
                                 /\ cash'[p] = cash[p] /\ move'[p] = move[p]
  BY <1>2, <1>6 DEF IInv, TypeOK
<1>8. \A p \in Orders \ {o} : Hit(p)' = Hit(p)
  BY <1>7 DEF Hit
<1>9. got'[o][r] > 0
  BY <1>4, <1>5, <1>7
<1>10. Hit(o)' = Hit(o) \cup {r}
  BY <1>2, <1>7, <1>9 DEF Hit
<1> QED
  BY <1>2, <1>4, <1>5, <1>7, <1>8, <1>10

\* What a transaction knew is forgotten when it ends, and no other one's is touched.
LEMMA ForgottenLocals ==
  ASSUME IInv, NEW o \in Orders, ForgetLocals(o)
  PROVE  /\ Hit(o)' = {}
         /\ \A a \in Accounts : cash'[o][a] = 0 /\ move'[o][a] = 0
         /\ \A p \in Orders \ {o} : /\ Hit(p)' = Hit(p) /\ got'[p] = got[p] /\ rest'[p] = rest[p]
                                    /\ cash'[p] = cash[p] /\ move'[p] = move[p]
                                    /\ seen'[p] = seen[p] /\ newPos'[p] = newPos[p]
<1>1. /\ \A r \in Orders : got'[o][r] = 0
      /\ \A p \in Orders \ {o} : got'[p] = got[p] /\ rest'[p] = rest[p]
  BY Forgotten
<1>2. Hit(o)' = {} /\ \A p \in Orders \ {o} : Hit(p)' = Hit(p)
  BY <1>1 DEF Hit
<1>3. /\ \A a \in Accounts : cash'[o][a] = 0 /\ move'[o][a] = 0
      /\ \A p \in Orders \ {o} : /\ cash'[p] = cash[p] /\ move'[p] = move[p]
                                 /\ seen'[p] = seen[p] /\ newPos'[p] = newPos[p]
  BY DEF ForgetLocals, NoDeltas, IInv, TypeOK
<1> QED
  BY <1>1, <1>2, <1>3

LEMMA DealFacts ==
  ASSUME IInv, NEW o \in Orders
  PROVE  /\ \A r \in Hit(o) : /\ r \in Orders /\ r # o /\ Deal(o, r) \in Trade
                              /\ request[r].market = request[o].market
                              /\ LibSide(r) # LibSide(o)
         /\ \A r, s \in Hit(o) : Deal(o, r) = Deal(o, s) => r = s
         /\ Deals(o) = {Deal(o, r) : r \in Hit(o)}
<1>1. \A r \in Hit(o) : r \in Orders /\ got[o][r] > 0 /\ got[o][r] \in Int
                        /\ request[r].price \in Nat
  BY DEF Hit, IInv, TypeOK, Request
<1>2. \A r \in Hit(o) : request[r].market = request[o].market /\ LibSide(r) # LibSide(o)
  BY <1>1 DEF IInv, LocalInv, Loaded
<1>3. \A r \in Hit(o) : Deal(o, r) \in Trade
  BY <1>1 DEF Deal, Trade
<1>4. Deals(o) = {Deal(o, r) : r \in Hit(o)}
  BY DEF Deals, Deal
<1>5. \A r, s \in Hit(o) : Deal(o, r) = Deal(o, s) => r = s
  BY DEF Deal
<1> QED
  BY <1>1, <1>2, <1>3, <1>4, <1>5

\* The trades of Sel are counted by f; R are the orders that o has such a deal with,
\* and g what each of them counts for.
Counted(f, g, o, Sel, R) ==
    /\ \A t \in Trade : f[t] \in Int
    /\ \A r \in Hit(o) : g[r] = f[Deal(o, r)]
    /\ R = {r \in Hit(o) : Deal(o, r) \in Sel}

\* A commit adds its deals to what the trades of Sel add up to.
LEMMA CommitAdds ==
  ASSUME IInv, NEW o \in Orders, Commit(o), NEW f, NEW g, NEW Sel, NEW R,
         IsFiniteSet(trades), IsFiniteSet(Hit(o)),
         \A t \in trades : t.taker # o, Counted(f, g, o, Sel, R)
  PROVE  /\ IsFiniteSet(trades')
         /\ SumFunctionOnSet(f, trades' \cap Sel)
                = SumFunctionOnSet(f, trades \cap Sel) + SumFunctionOnSet(g, R)
<1> USE DEF Counted
<1> DEFINE name == [r \in Hit(o) |-> Deal(o, r)]
           S == trades \cap Sel
           D == Deals(o) \cap Sel
<1>1. /\ \A r \in Hit(o) : Deal(o, r) \in Trade /\ Deal(o, r).taker = o
      /\ \A r, s \in Hit(o) : Deal(o, r) = Deal(o, s) => r = s
      /\ Deals(o) = {Deal(o, r) : r \in Hit(o)}
  BY DealFacts DEF Deal
<1>2. trades' = trades \cup Deals(o) /\ trades \subseteq Trade
  BY DEF Commit, IInv, TypeOK, Trade
<1>3. Renames(name, f, g, Hit(o), Deals(o))
  BY <1>1 DEF Renames
<1>4. R \subseteq Hit(o) /\ Renames(name, f, g, R, D)
  BY <1>1 DEF Renames
<1>5. S \cap D = {}
  BY <1>1
<1>6. \A t \in S \cup D : f[t] \in Int
  BY <1>1, <1>2
<1>7. trades' \cap Sel = S \cup D
  BY <1>2
<1> HIDE DEF name, D
<1>8. IsFiniteSet(Deals(o))
  BY <1>3, SumRename
<1>9. IsFiniteSet(trades')
  BY <1>2, <1>8, FS_Union
<1>10. IsFiniteSet(R) /\ IsFiniteSet(S)
  BY <1>4, FS_Subset
<1> HIDE DEF S
<1>11. IsFiniteSet(D) /\ SumFunctionOnSet(f, D) = SumFunctionOnSet(g, R)
  BY <1>4, <1>10, SumRename
<1>12. SumFunctionOnSet(f, S \cup D) = SumFunctionOnSet(f, S) + SumFunctionOnSet(f, D)
  BY <1>5, <1>6, <1>10, <1>11, SumDisjoint
<1> QED
  BY <1>7, <1>9, <1>11, <1>12 DEF S

Amount == [t \in Trade |-> t.quantity]
Naming(o) == {t \in Trade : o \in {t.taker, t.maker}}

\* Every trade is of a committed placement; the trade table and what a transaction
\* matches are finite, and what it matched is what it no longer has to match.
TallyInv ==
    /\ IsFiniteSet(trades)
    /\ \A t \in trades : pc[t.taker] = "committed"
    /\ \A o \in Orders :
        /\ IsFiniteSet(Hit(o))
        /\ pc[o] \in InTransaction =>
               SumFunctionOnSet(got[o], Hit(o)) = request[o].quantity - rest[o]
        /\ filled[o] = SumFunctionOnSet(Amount, trades \cap Naming(o))

LEMMA TallyInit == Init => TallyInv
<1> SUFFICES ASSUME Init PROVE TallyInv
  OBVIOUS
<1>1. trades = {}
  BY DEF Init
<1>2. \A o \in Orders : Hit(o) = {} /\ pc[o] \notin InTransaction /\ filled[o] = 0
  BY DEF Init, Hit, NoAmounts, InTransaction
<1>3. SumFunctionOnSet(Amount, {}) = 0 /\ IsFiniteSet({})
  BY SumEmpty, FS_EmptySet
<1>4. \A o \in Orders : trades \cap Naming(o) = {}
  BY <1>1
<1> QED
  BY <1>1, <1>2, <1>3, <1>4 DEF TallyInv

\* A step that leaves trades, fills and matches alone.
LEMMA TallyQuiet ==
  ASSUME TallyInv, UNCHANGED <<request, trades, filled, got, rest>>,
         \A o \in Orders : /\ pc'[o] \in InTransaction => pc[o] \in InTransaction
                           /\ pc[o] = "committed" => pc'[o] = "committed",
         \A t \in trades : t.taker \in Orders
  PROVE  TallyInv'
<1>1. \A o \in Orders : Hit(o)' = Hit(o)
  BY DEF Hit
<1> QED
  BY <1>1 DEF TallyInv, Naming

LEMMA TallyLoad ==
  ASSUME IInv, TallyInv, NEW o \in Orders, LockAndLoadBook(o)
  PROVE  TallyInv'
<1>1. /\ pc' = [pc EXCEPT ![o] = "matching"] /\ pc[o] = "admitted"
      /\ rest' = [rest EXCEPT ![o] = request[o].quantity]
      /\ UNCHANGED <<request, filled, got, trades>>
  BY DEF LockAndLoadBook, rowVars
<1>2. \A p \in Orders : Hit(p)' = Hit(p)
  BY <1>1 DEF Hit
<1>3. Hit(o) = {}
  BY <1>1 DEF IInv, LocalInv, Loaded, Hit, InTransaction
<1>4. rest'[o] = request[o].quantity /\ request[o].quantity \in Int
  BY <1>1 DEF IInv, TypeOK, Request
<1>5. SumFunctionOnSet(got[o], {}) = 0
  BY SumEmpty
<1>6. SumFunctionOnSet(got'[o], Hit(o)') = request'[o].quantity - rest'[o]
  BY <1>1, <1>2, <1>3, <1>4, <1>5
<1>7. \A p \in Orders \ {o} : rest'[p] = rest[p] /\ (pc'[p] = pc[p])
  BY <1>1 DEF IInv, TypeOK
<1>8. pc'[o] # "committed" /\ pc[o] # "committed" /\ \A p \in Orders : pc'[p] = "committed" <=> pc[p] = "committed"
  BY <1>1, <1>7 DEF IInv, TypeOK
<1>9. \A t \in trades : t.taker \in Orders
  BY DEF IInv, TypeOK
<1> QED
  BY <1>1, <1>2, <1>6, <1>7, <1>8, <1>9 DEF TallyInv, Naming

LEMMA TallyMatch ==
  ASSUME IInv, TallyInv, NEW o \in Orders, MatchNext(o)
  PROVE  TallyInv'
<1>1. PICK r \in Orders, q \in Int :
        /\ q > 0 /\ got[o][r] >= 0
        /\ got'[o][r] = got[o][r] + q /\ rest'[o] = rest[o] - q
        /\ \A s \in Orders \ {r} : got'[o][s] = got[o][s]
        /\ Hit(o)' = Hit(o) \cup {r}
        /\ \A p \in Orders \ {o} : got'[p] = got[p] /\ rest'[p] = rest[p] /\ Hit(p)' = Hit(p)
  BY MatchedOne
<1>2. UNCHANGED <<request, filled, trades, pc>> /\ pc[o] \in InTransaction
  BY DEF MatchNext, rowVars, InTransaction
<1>3. \A s \in Orders : got[o][s] \in Int
  BY DEF IInv, TypeOK
<1>4. IsFiniteSet(Hit(o)) /\ Hit(o) \subseteq Orders
  BY DEF TallyInv, Hit
<1>5. \A s \in Hit(o) \cup {r} : got[o][s] \in Int /\ (s # r => got'[o][s] = got[o][s])
  BY <1>1, <1>3, <1>4
<1>6. r \notin Hit(o) => got[o][r] = 0
  BY <1>1, <1>3 DEF Hit
<1>7. SumFunctionOnSet(got'[o], Hit(o) \cup {r}) = SumFunctionOnSet(got[o], Hit(o)) + q
  <2> DEFINE f == got[o]
             g == got'[o]
             S == Hit(o)
  <2>1. /\ IsFiniteSet(S) /\ q \in Int
        /\ \A s \in S \cup {r} : f[s] \in Int /\ (s # r => g[s] = f[s])
        /\ r \notin S => f[r] = 0
        /\ g[r] = f[r] + q
    BY <1>1, <1>4, <1>5, <1>6
  <2> HIDE DEF f, g, S
  <2>2. SumFunctionOnSet(g, S \cup {r}) = SumFunctionOnSet(f, S) + q
    BY <2>1, SumStep
  <2> QED
    BY <2>2 DEF f, g, S
<1>8. SumFunctionOnSet(got[o], Hit(o)) = request[o].quantity - rest[o]
  BY <1>2 DEF TallyInv
<1>9. rest[o] \in Int /\ request[o].quantity \in Int
  BY DEF IInv, TypeOK, Request
<1>10. SumFunctionOnSet(got'[o], Hit(o)') = request'[o].quantity - rest'[o]
  BY <1>1, <1>2, <1>7, <1>8, <1>9
<1>11. IsFiniteSet(Hit(o)')
  BY <1>1, <1>4, FS_AddElement
<1> QED
  BY <1>1, <1>2, <1>10, <1>11 DEF TallyInv, Naming

LEMMA TallyAbort ==
  ASSUME IInv, TallyInv, NEW o \in Orders, Abort(o)
  PROVE  TallyInv'
<1>1. /\ pc' = [pc EXCEPT ![o] = "aborted"] /\ pc[o] # "committed" /\ ForgetLocals(o)
      /\ UNCHANGED <<request, filled, trades>>
  BY DEF Abort, rowVars, InTransaction
<1>2. /\ Hit(o)' = {}
      /\ \A p \in Orders \ {o} : Hit(p)' = Hit(p) /\ got'[p] = got[p] /\ rest'[p] = rest[p]
  BY <1>1, ForgottenLocals
<1>3. pc'[o] \notin InTransaction /\ \A p \in Orders \ {o} : pc'[p] = pc[p]
  BY <1>1 DEF IInv, TypeOK, InTransaction
<1>4. \A t \in trades : t.taker \in Orders
  BY DEF IInv, TypeOK
<1>5. IsFiniteSet(Hit(o)')
  BY <1>2, FS_EmptySet
<1> QED
  BY <1>1, <1>2, <1>3, <1>4, <1>5 DEF TallyInv, Naming

LEMMA TallyCommit ==
  ASSUME IInv, TallyInv, NEW o \in Orders, Commit(o)
  PROVE  TallyInv'
<1>1. /\ pc' = [pc EXCEPT ![o] = "committed"] /\ pc[o] = "posted" /\ ForgetLocals(o)
      /\ request' = request /\ trades' = trades \cup Deals(o)
  BY DEF Commit
<1>2. /\ Hit(o)' = {}
      /\ \A p \in Orders \ {o} : Hit(p)' = Hit(p) /\ got'[p] = got[p] /\ rest'[p] = rest[p]
  BY <1>1, ForgottenLocals
<1>3. pc'[o] = "committed" /\ \A p \in Orders \ {o} : pc'[p] = pc[p]
  BY <1>1 DEF IInv, TypeOK
<1>4. /\ IsFiniteSet(trades) /\ IsFiniteSet(Hit(o))
      /\ \A t \in trades : t.taker # o /\ t.taker \in Orders /\ pc[t.taker] = "committed"
  BY <1>1 DEF TallyInv, IInv, TypeOK
<1>5. \A t \in trades' : pc'[t.taker] = "committed"
  BY <1>1, <1>3, <1>4 DEF Deals
<1>6. /\ \A t \in Trade : Amount[t] \in Int
      /\ \A r \in Hit(o) : got[o][r] = Amount[Deal(o, r)]
  <2>1. \A r \in Hit(o) : Deal(o, r) \in Trade /\ Deal(o, r).quantity = got[o][r]
    BY DealFacts DEF Deal
  <2> QED
    BY <2>1 DEF Amount, Trade
<1>7. ASSUME NEW x \in Orders, NEW R, Counted(Amount, got[o], o, Naming(x), R)
      PROVE  /\ IsFiniteSet(trades')
             /\ SumFunctionOnSet(Amount, trades' \cap Naming(x))
                    = SumFunctionOnSet(Amount, trades \cap Naming(x)) + SumFunctionOnSet(got[o], R)
  BY <1>4, <1>6, <1>7, CommitAdds
<1>8. \A r \in Hit(o) : /\ r \in Orders /\ r # o /\ got[o][r] \in Int
                        /\ Deal(o, r) \in Trade /\ Deal(o, r).taker = o /\ Deal(o, r).maker = r
  BY DealFacts DEF Deal, IInv, TypeOK
<1>9. \A x \in Orders : filled[x] = SumFunctionOnSet(Amount, trades \cap Naming(x)) /\ filled[x] \in Int
  BY DEF TallyInv, IInv, TypeOK
<1>10. filled[o] = 0
  BY <1>1, OwnRow DEF InTransaction
<1>11. ASSUME NEW x \in Orders
       PROVE  filled'[x] = SumFunctionOnSet(Amount, trades' \cap Naming(x))
  <2> DEFINE R == {r \in Hit(o) : Deal(o, r) \in Naming(x)}
             s == SumFunctionOnSet(Amount, trades' \cap Naming(x))
  <2> filled[x] \in Int
    BY <1>9
  <2>1. s = filled[x] + SumFunctionOnSet(got[o], R)
    <3>1. Counted(Amount, got[o], o, Naming(x), R)
      BY <1>6 DEF Counted
    <3> HIDE DEF R
    <3> QED
      BY <1>7, <1>9, <3>1
  <2>2. CASE x = o
    <3>1. R = Hit(o)
      BY <1>8, <2>2 DEF Naming
    <3>2. SumFunctionOnSet(got[o], Hit(o)) = request[o].quantity - rest[o]
      BY <1>1 DEF TallyInv, InTransaction
    <3>3. filled'[o] = request[o].quantity - rest[o] /\ request[o].quantity - rest[o] \in Int
      BY CommittedRows DEF IInv, TypeOK, Request
    <3> HIDE DEF s, R
    <3> QED
      BY <1>10, <2>1, <2>2, <3>1, <3>2, <3>3 DEF s
  <2>3. CASE x \in Hit(o)
    <3>1. R = {x}
      BY <1>8, <2>3 DEF Naming
    <3>2. SumFunctionOnSet(got[o], {x}) = got[o][x]
      BY <1>8, <2>3, SumOne
    <3>3. filled'[x] = filled[x] + got[o][x]
      BY <2>3, CommittedRows
    <3> HIDE DEF s, R
    <3> QED
      BY <2>1, <3>1, <3>2, <3>3 DEF s
  <2>4. CASE x # o /\ x \notin Hit(o)
    <3>1. R = {}
      BY <1>8, <2>4 DEF Naming
    <3>2. SumFunctionOnSet(got[o], {}) = 0
      BY SumEmpty
    <3>3. filled'[x] = filled[x]
      BY <2>4, CommittedRows
    <3> HIDE DEF s, R
    <3> QED
      BY <1>9, <2>1, <3>1, <3>2, <3>3 DEF s
  <2> QED
    BY <2>2, <2>3, <2>4
<1>12. IsFiniteSet(trades')
  <2> DEFINE R == {r \in Hit(o) : Deal(o, r) \in Naming(o)}
  <2>1. Counted(Amount, got[o], o, Naming(o), R)
    BY <1>6 DEF Counted
  <2> HIDE DEF R
  <2> QED
    BY <1>7, <2>1
<1>13. ASSUME NEW p \in Orders
       PROVE  /\ IsFiniteSet(Hit(p)')
              /\ pc'[p] \in InTransaction =>
                    SumFunctionOnSet(got'[p], Hit(p)') = request'[p].quantity - rest'[p]
  <2>1. CASE p = o
    BY <1>2, <1>3, <2>1, FS_EmptySet DEF InTransaction
  <2>2. CASE p # o
    BY <1>1, <1>2, <1>3, <2>2 DEF TallyInv
  <2> QED
    BY <2>1, <2>2
<1> QED
  BY <1>5, <1>11, <1>12, <1>13 DEF TallyInv, Naming

LEMMA TallyStep == IInv /\ TallyInv /\ [Next]_vars => TallyInv'
<1> SUFFICES ASSUME IInv, TallyInv, [Next]_vars PROVE TallyInv'
  OBVIOUS
<1> USE DEF rowVars, localVars
<1>1. \A t \in trades : t.taker \in Orders
  BY DEF IInv, TypeOK
<1>2. pc \in [Orders -> {"new", "admitted"} \cup InTransaction \cup Ended]
  BY DEF IInv, TypeOK
<1>3. ASSUME NEW o \in Orders, Admit(o) \/ Reject(o) \/ PersistFills(o) \/ PostTradeEvent(o)
      PROVE  TallyInv'
  <2>1. /\ UNCHANGED <<request, trades, filled, got, rest>>
        /\ \A p \in Orders : /\ pc'[p] \in InTransaction => pc[p] \in InTransaction
                             /\ pc[p] = "committed" => pc'[p] = "committed"
    BY <1>2, <1>3 DEF Admit, Reject, PersistFills, PostTradeEvent, AfterPersist, InTransaction
  <2> QED
    BY <1>1, <2>1, TallyQuiet
<1>4. ASSUME UNCHANGED <<request, trades, filled, got, rest, pc>>
      PROVE  TallyInv'
  BY <1>1, <1>4, TallyQuiet
<1> QED
  BY <1>3, <1>4, TallyLoad, TallyMatch, TallyCommit, TallyAbort
     DEF Next, Place, CancelRead, CancelWrite, LockMarket, vars

LEMMA TallyInductive == Spec => []TallyInv
BY Inductive, TallyInit, TallyStep, PTL DEF Spec

LEMMA TallyMeans == TypeOK /\ TallyInv => FilledMatchesTrades
<1> SUFFICES ASSUME TypeOK, TallyInv, NEW o \in Orders
             PROVE  filled[o] = SumFunctionOnSet([t \in trades |-> t.quantity],
                                                 {t \in trades : o \in {t.taker, t.maker}})
  BY DEF FilledMatchesTrades
<1> DEFINE S == trades \cap Naming(o)
           g == [t \in trades |-> t.quantity]
<1>1. trades \subseteq Trade
  BY DEF TypeOK, Trade
<1>2. S = {t \in trades : o \in {t.taker, t.maker}}
  BY <1>1 DEF Naming
<1>3. \A t \in S : Amount[t] \in Int /\ g[t] = Amount[t]
  BY <1>1 DEF Amount, Trade
<1>4. IsFiniteSet(S)
  BY FS_Subset DEF TallyInv
<1>5. filled[o] = SumFunctionOnSet(Amount, S)
  BY DEF TallyInv
<1> HIDE DEF S, g
<1>6. SumFunctionOnSet(g, S) = SumFunctionOnSet(Amount, S)
  BY <1>3, <1>4, SumAgree
<1> QED
  BY <1>2, <1>5, <1>6 DEF g

\* The absolute filledQuantity that placements write is, order by order, the sum of the
\* rows of the trade table that name the order, however placements, cancellations and
\* failures interleave.
THEOREM FillsSumTrades == Spec => []FilledMatchesTrades
BY TypeCorrect, TallyInductive, TallyMeans, PTL

-----------------------------------------------------------------------------
(* Positions *)

Contracts(a) == [t \in Trade |-> Bought(t, a)]
In(m) == {t \in Trade : request[t.taker].market = m}

\* What each match of transaction o is worth in contracts of account a.
Legs(o, a) == [r \in Orders |-> Bought(Deal(o, r), a)]

\* Account a does not trade with itself in transaction o.
Apart(o, a) == \A r \in Hit(o) : {request[o].account, request[r].account} # {a}

PosInv ==
    /\ \A o \in Orders, a \in Accounts :
        /\ pc[o] \notin InTransaction => move[o][a] = 0
        /\ pc[o] \in InTransaction /\ Apart(o, a) =>
               move[o][a] = SumFunctionOnSet(Legs(o, a), Hit(o))
        /\ pc[o] = "posted" /\ Hit(o) # {} /\ a \in Parties(o) =>
               newPos[o][a] = position[request[o].market][a] + move[o][a]
    /\ \A a \in Accounts, m \in Markets :
        (\A t \in trades \cap In(m) : AccountsOf(t) # {a}) =>
            position[m][a] = SumFunctionOnSet(Contracts(a), trades \cap In(m))

LEMMA BoughtType ==
  ASSUME NEW t \in Trade, NEW a
  PROVE  Bought(t, a) \in Int
BY DEF Bought, Trade

\* What a match is worth grows by what the handler adds to the position delta, except
\* that of an account with itself.
LEMMA MoveIsLeg ==
  ASSUME NEW o \in Orders, NEW r \in Orders, NEW q \in Int, NEW a,
         {request[o].account, request[r].account} # {a},
         got[o][r] \in Int, request' = request, got'[o][r] = got[o][r] + q
  PROVE  Bought(Deal(o, r), a)' = Bought(Deal(o, r), a) + MoveOf(o, r, q, a)
<1> DEFINE buyer == IF LibSide(o) = "buy" THEN o ELSE r
           seller == IF LibSide(o) = "buy" THEN r ELSE o
           b == request[buyer].account = a
           s == request[seller].account = a
<1>1. ~(b /\ s)
  OBVIOUS
<1>2. Bought(Deal(o, r), a) = (IF b THEN got[o][r] ELSE 0) - (IF s THEN got[o][r] ELSE 0)
  BY DEF Bought, Deal
<1>3. LibSide(o)' = LibSide(o)
  BY DEF LibSide
<1>4. Bought(Deal(o, r), a)' = (IF b THEN got[o][r] + q ELSE 0) - (IF s THEN got[o][r] + q ELSE 0)
  BY <1>3 DEF Bought, Deal
<1>5. MoveOf(o, r, q, a) = IF b THEN q ELSE IF s THEN -q ELSE 0
  BY <1>1 DEF MoveOf
<1> HIDE DEF b, s
<1> QED
  BY <1>1, <1>2, <1>4, <1>5

LEMMA PosInit == Init => PosInv
<1> SUFFICES ASSUME Init PROVE PosInv
  OBVIOUS
<1>1. trades = {}
  BY DEF Init
<1>2. \A o \in Orders : pc[o] \notin InTransaction /\ pc[o] # "posted"
                        /\ \A a \in Accounts : move[o][a] = 0
  BY DEF Init, InTransaction, NoDeltas
<1>3. \A a \in Accounts, m \in Markets : position[m][a] = 0
  BY DEF Init, NoDeltas
<1>4. \A a : SumFunctionOnSet(Contracts(a), {}) = 0
  BY SumEmpty
<1>5. \A m : trades \cap In(m) = {}
  BY <1>1
<1> QED
  BY <1>2, <1>3, <1>4, <1>5 DEF PosInv

\* What the invariant says of a transaction that a step leaves alone.
LEMMA OthersKeep ==
  ASSUME PosInv, NEW p \in Orders, request' = request, pc'[p] = pc[p], got'[p] = got[p],
         move'[p] = move[p], newPos'[p] = newPos[p],
         pc[p] = "posted" => position'[request[p].market] = position[request[p].market],
         NEW a \in Accounts
  PROVE  /\ pc'[p] \notin InTransaction => move'[p][a] = 0
         /\ pc'[p] \in InTransaction /\ Apart(p, a)' =>
               move'[p][a] = SumFunctionOnSet(Legs(p, a)', Hit(p)')
         /\ pc'[p] = "posted" /\ Hit(p)' # {} /\ a \in Parties(p)' =>
               newPos'[p][a] = position'[request'[p].market][a] + move'[p][a]
<1>1. Hit(p)' = Hit(p)
  BY DEF Hit
<1>2. (Apart(p, a)' <=> Apart(p, a)) /\ Parties(p)' = Parties(p)
  BY <1>1 DEF Apart, Parties
<1>3. Legs(p, a)' = Legs(p, a)
  BY DEF Legs, Bought, Deal, LibSide
<1> QED
  BY <1>1, <1>2, <1>3 DEF PosInv

\* The rows of trades and positions, when a step leaves both alone.
LEMMA PositionsKeep ==
  ASSUME PosInv, UNCHANGED <<request, trades, position>>
  PROVE  \A a \in Accounts, m \in Markets :
            (\A t \in trades' \cap In(m)' : AccountsOf(t)' # {a}) =>
                position'[m][a] = SumFunctionOnSet(Contracts(a)', trades' \cap In(m)')
<1>1. \A m : In(m)' = In(m)
  BY DEF In
<1>2. \A a : Contracts(a)' = Contracts(a)
  BY DEF Contracts, Bought, LibSide
<1>3. \A t : AccountsOf(t)' = AccountsOf(t)
  BY DEF AccountsOf
<1> QED
  BY <1>1, <1>2, <1>3 DEF PosInv

\* One order moves on, the trades and positions stay.
LEMMA PosLocal ==
  ASSUME PosInv, NEW o \in Orders, UNCHANGED <<request, trades, position>>,
         \A p \in Orders \ {o} : /\ pc'[p] = pc[p] /\ got'[p] = got[p]
                                 /\ move'[p] = move[p] /\ newPos'[p] = newPos[p],
         \A a \in Accounts :
            /\ pc'[o] \notin InTransaction => move'[o][a] = 0
            /\ pc'[o] \in InTransaction /\ Apart(o, a)' =>
                   move'[o][a] = SumFunctionOnSet(Legs(o, a)', Hit(o)')
            /\ pc'[o] = "posted" /\ Hit(o)' # {} /\ a \in Parties(o)' =>
                   newPos'[o][a] = position'[request'[o].market][a] + move'[o][a]
  PROVE  PosInv'
<1>1. ASSUME NEW p \in Orders \ {o}, NEW a \in Accounts
      PROVE  /\ pc'[p] \notin InTransaction => move'[p][a] = 0
             /\ pc'[p] \in InTransaction /\ Apart(p, a)' =>
                   move'[p][a] = SumFunctionOnSet(Legs(p, a)', Hit(p)')
             /\ pc'[p] = "posted" /\ Hit(p)' # {} /\ a \in Parties(p)' =>
                   newPos'[p][a] = position'[request'[p].market][a] + move'[p][a]
  BY <1>1, OthersKeep
<1>2. \A a \in Accounts, m \in Markets :
            (\A t \in trades' \cap In(m)' : AccountsOf(t)' # {a}) =>
                position'[m][a] = SumFunctionOnSet(Contracts(a)', trades' \cap In(m)')
  BY PositionsKeep
<1>3. \A p \in Orders, a \in Accounts :
             /\ pc'[p] \notin InTransaction => move'[p][a] = 0
             /\ pc'[p] \in InTransaction /\ Apart(p, a)' =>
                   move'[p][a] = SumFunctionOnSet(Legs(p, a)', Hit(p)')
             /\ pc'[p] = "posted" /\ Hit(p)' # {} /\ a \in Parties(p)' =>
                   newPos'[p][a] = position'[request'[p].market][a] + move'[p][a]
  BY <1>1
<1> HIDE DEF InTransaction, Apart, Legs, Hit, Parties, In, Contracts, AccountsOf
<1> QED
  BY <1>2, <1>3 DEF PosInv

LEMMA PosQuiet ==
  ASSUME IInv, PosInv, NEW o \in Orders, Admit(o) \/ Reject(o) \/ PersistFills(o)
  PROVE  PosInv'
<1> USE DEF rowVars, moneyVars, localVars
<1>1. /\ UNCHANGED <<request, trades, position, got, move, newPos>>
      /\ \A p \in Orders \ {o} : pc'[p] = pc[p]
      /\ pc'[o] \in InTransaction <=> pc[o] \in InTransaction
      /\ pc'[o] = "posted" => Hit(o) = {}
  BY DEF IInv, TypeOK, Admit, Reject, PersistFills, AfterPersist, InTransaction
<1>2. Hit(o)' = Hit(o) /\ \A a : (Apart(o, a)' <=> Apart(o, a))
  BY <1>1 DEF Apart, Hit
<1>3. \A a : Legs(o, a)' = Legs(o, a)
  BY <1>1 DEF Legs, Bought, Deal, LibSide
<1>4. \A a \in Accounts :
            /\ pc'[o] \notin InTransaction => move'[o][a] = 0
            /\ pc'[o] \in InTransaction /\ Apart(o, a)' =>
                   move'[o][a] = SumFunctionOnSet(Legs(o, a)', Hit(o)')
            /\ ~(pc'[o] = "posted" /\ Hit(o)' # {})
  BY <1>1, <1>2, <1>3 DEF PosInv
<1> QED
  BY <1>1, <1>4, PosLocal

LEMMA PosLoad ==
  ASSUME IInv, PosInv, NEW o \in Orders, LockAndLoadBook(o)
  PROVE  PosInv'
<1>1. /\ UNCHANGED <<request, trades, position, got, move, newPos>>
      /\ pc[o] = "admitted" /\ pc'[o] = "matching"
      /\ \A p \in Orders \ {o} : pc'[p] = pc[p]
  BY DEF IInv, TypeOK, LockAndLoadBook, rowVars, moneyVars
<1>2. Hit(o)' = {}
  BY <1>1 DEF IInv, LocalInv, Loaded, Hit, InTransaction
<1>3. \A f : SumFunctionOnSet(f, {}) = 0
  BY SumEmpty
<1>4. \A a \in Accounts : move'[o][a] = 0
  BY <1>1 DEF PosInv, InTransaction
<1>5. \A a \in Accounts : move'[o][a] = SumFunctionOnSet(Legs(o, a)', Hit(o)')
  BY <1>2, <1>3, <1>4
<1>6. pc'[o] \in InTransaction /\ pc'[o] # "posted"
  BY <1>1 DEF InTransaction
<1> QED
  BY <1>1, <1>5, <1>6, PosLocal

LEMMA PosAbort ==
  ASSUME IInv, PosInv, NEW o \in Orders, Abort(o)
  PROVE  PosInv'
<1>1. /\ UNCHANGED <<request, trades, position>> /\ ForgetLocals(o)
      /\ pc'[o] = "aborted" /\ \A p \in Orders \ {o} : pc'[p] = pc[p]
  BY DEF IInv, TypeOK, Abort, rowVars, moneyVars
<1>2. /\ \A a \in Accounts : move'[o][a] = 0
      /\ \A p \in Orders \ {o} : got'[p] = got[p] /\ move'[p] = move[p] /\ newPos'[p] = newPos[p]
  BY <1>1, ForgottenLocals
<1>3. pc'[o] \notin InTransaction /\ pc'[o] # "posted"
  BY <1>1 DEF InTransaction
<1> QED
  BY <1>1, <1>2, <1>3, PosLocal

LEMMA PosPost ==
  ASSUME IInv, PosInv, NEW o \in Orders, PostTradeEvent(o)
  PROVE  PosInv'
<1>1. /\ UNCHANGED <<request, trades, position, got, move>>
      /\ pc[o] = "written" /\ pc'[o] = "posted" /\ \A p \in Orders \ {o} : pc'[p] = pc[p]
  BY DEF IInv, TypeOK, PostTradeEvent, rowVars, moneyVars
<1>2. /\ \A p \in Orders \ {o} : newPos'[p] = newPos[p]
      /\ \A a \in Accounts : a \in Parties(o) =>
            newPos'[o][a] = position[request[o].market][a] + move[o][a]
  BY DEF IInv, TypeOK, PostTradeEvent
<1>3. Hit(o)' = Hit(o) /\ (\A a : Apart(o, a)' <=> Apart(o, a)) /\ Parties(o)' = Parties(o)
  BY <1>1 DEF Apart, Hit, Parties
<1>4. \A a : Legs(o, a)' = Legs(o, a)
  BY <1>1 DEF Legs, Bought, Deal, LibSide
<1>5. \A a \in Accounts : Apart(o, a)' => move'[o][a] = SumFunctionOnSet(Legs(o, a)', Hit(o)')
  BY <1>1, <1>3, <1>4 DEF PosInv, InTransaction
<1>6. \A a \in Accounts : a \in Parties(o)' =>
            newPos'[o][a] = position'[request'[o].market][a] + move'[o][a]
  BY <1>1, <1>2, <1>3
<1>7. pc'[o] \in InTransaction
  BY <1>1 DEF InTransaction
<1> QED
  BY <1>1, <1>2, <1>5, <1>6, <1>7, PosLocal

LEMMA PosMatch ==
  ASSUME IInv, TallyInv, PosInv, NEW o \in Orders, MatchNext(o)
  PROVE  PosInv'
<1>1. PICK r \in Orders, q \in Int :
        /\ q > 0 /\ got[o][r] >= 0 /\ got'[o][r] = got[o][r] + q
        /\ \A s \in Orders \ {r} : got'[o][s] = got[o][s]
        /\ \A a \in Accounts : move'[o][a] = move[o][a] + MoveOf(o, r, q, a)
        /\ Hit(o)' = Hit(o) \cup {r}
        /\ \A p \in Orders \ {o} : got'[p] = got[p] /\ move'[p] = move[p]
  BY MatchedOne
<1>2. UNCHANGED <<request, trades, position, pc, newPos>> /\ pc[o] = "matching"
  BY DEF MatchNext, rowVars, moneyVars
<1>3. \A s \in Orders : got[o][s] \in Int
  BY DEF IInv, TypeOK
<1>4. IsFiniteSet(Hit(o)) /\ Hit(o) \subseteq Orders
  BY DEF TallyInv, Hit
<1>5. ASSUME NEW a \in Accounts, Apart(o, a)'
      PROVE  move'[o][a] = SumFunctionOnSet(Legs(o, a)', Hit(o)')
  <2>1. {request[o].account, request[r].account} # {a} /\ Apart(o, a)
    BY <1>1, <1>2, <1>5 DEF Apart
  <2> DEFINE f == Legs(o, a)
             g == Legs(o, a)'
             S == Hit(o)
             d == MoveOf(o, r, q, a)
  <2>2. move[o][a] = SumFunctionOnSet(f, S) /\ pc[o] \in InTransaction
    BY <1>2, <2>1 DEF PosInv, InTransaction
  <2>3. d \in Int
    BY DeltaTypes DEF IInv
  <2>4. \A s \in S \cup {r} : f[s] \in Int
    BY <1>3, <1>4 DEF Legs, Bought, Deal
  <2>5. \A s \in S \cup {r} : s # r => g[s] = f[s]
    BY <1>1, <1>2, <1>4 DEF Legs, Bought, Deal, LibSide
  <2>6. r \notin S => f[r] = 0
    <3>1. r \notin S => got[o][r] = 0
      BY <1>1, <1>3 DEF Hit
    <3> QED
      BY <3>1 DEF Legs, Bought, Deal
  <2>7. g[r] = f[r] + d
    <3>1. Bought(Deal(o, r), a)' = Bought(Deal(o, r), a) + MoveOf(o, r, q, a)
      BY <1>1, <1>2, <1>3, <2>1, MoveIsLeg
    <3> QED
      BY <3>1 DEF Legs
  <2>8. Hit(o)' = S \cup {r} /\ IsFiniteSet(S) /\ move'[o][a] = move[o][a] + d
    BY <1>1, <1>4
  <2> HIDE DEF f, g, S, d
  <2>9. SumFunctionOnSet(g, S \cup {r}) = SumFunctionOnSet(f, S) + d
    BY <2>3, <2>4, <2>5, <2>6, <2>7, <2>8, SumStep
  <2>10. move'[o][a] = SumFunctionOnSet(g, Hit(o)')
    BY <2>2, <2>8, <2>9
  <2> QED
    BY <2>10 DEF g
<1>6. \A p \in Orders \ {o} : pc'[p] = pc[p] /\ newPos'[p] = newPos[p]
  BY <1>2
<1>7. pc'[o] \in InTransaction /\ pc'[o] # "posted"
  BY <1>2 DEF InTransaction
<1> QED
  BY <1>1, <1>2, <1>5, <1>6, <1>7, PosLocal

LEMMA PosCommit ==
  ASSUME IInv, TallyInv, PosInv, NEW o \in Orders, Commit(o)
  PROVE  PosInv'
<1> DEFINE k == request[o].market
<1>1. /\ pc[o] = "posted" /\ pc' = [pc EXCEPT ![o] = "committed"] /\ ForgetLocals(o)
      /\ request' = request /\ trades' = trades \cup Deals(o)
  BY DEF Commit
<1>2. k \in Markets
  BY DEF IInv, TypeOK, Request
<1>3. /\ \A a \in Accounts : position'[k][a] =
            IF Hit(o) # {} /\ a \in Parties(o) THEN newPos[o][a] ELSE position[k][a]
      /\ \A m \in Markets \ {k} : position'[m] = position[m]
  BY <1>2 DEF Commit, IInv, TypeOK
<1>4. pc'[o] = "committed" /\ \A p \in Orders \ {o} : pc'[p] = pc[p]
  BY <1>1 DEF IInv, TypeOK
<1>5. /\ Hit(o)' = {} /\ \A a \in Accounts : move'[o][a] = 0
      /\ \A p \in Orders \ {o} : got'[p] = got[p] /\ move'[p] = move[p] /\ newPos'[p] = newPos[p]
  BY <1>1, ForgottenLocals
<1>6. ASSUME NEW p \in Orders \ {o}, pc[p] = "posted"
      PROVE  position'[request[p].market] = position[request[p].market]
  <2>1. request[p].market # k /\ request[p].market \in Markets
    BY <1>1, <1>6 DEF IInv, LockExclusive, InTransaction, TypeOK, Request
  <2> QED
    BY <1>3, <2>1
<1>7. \A p \in Orders, a \in Accounts :
             /\ pc'[p] \notin InTransaction => move'[p][a] = 0
             /\ pc'[p] \in InTransaction /\ Apart(p, a)' =>
                   move'[p][a] = SumFunctionOnSet(Legs(p, a)', Hit(p)')
             /\ pc'[p] = "posted" /\ Hit(p)' # {} /\ a \in Parties(p)' =>
                   newPos'[p][a] = position'[request'[p].market][a] + move'[p][a]
  <2>1. pc'[o] \notin InTransaction /\ pc'[o] # "posted"
    BY <1>4 DEF InTransaction
  <2>2. ASSUME NEW p \in Orders \ {o}, NEW a \in Accounts
        PROVE  /\ pc'[p] \notin InTransaction => move'[p][a] = 0
               /\ pc'[p] \in InTransaction /\ Apart(p, a)' =>
                     move'[p][a] = SumFunctionOnSet(Legs(p, a)', Hit(p)')
               /\ pc'[p] = "posted" /\ Hit(p)' # {} /\ a \in Parties(p)' =>
                     newPos'[p][a] = position'[request'[p].market][a] + move'[p][a]
    BY <1>1, <1>4, <1>5, <1>6, <2>2, OthersKeep
  <2> HIDE DEF InTransaction, Apart, Legs, Hit, Parties
  <2> QED
    BY <1>5, <2>1, <2>2
<1>8. /\ \A r \in Hit(o) : /\ r \in Orders /\ Deal(o, r) \in Trade
                           /\ Deal(o, r).taker = o /\ Deal(o, r).maker = r
      /\ Deals(o) = {Deal(o, r) : r \in Hit(o)}
  BY DealFacts DEF Deal
<1>9. /\ IsFiniteSet(trades) /\ IsFiniteSet(Hit(o)) /\ trades \subseteq Trade
      /\ \A t \in trades : t.taker # o
  BY <1>1 DEF TallyInv, IInv, TypeOK, Trade
<1>10. \A a : Contracts(a)' = Contracts(a)
  BY <1>1 DEF Contracts, Bought, LibSide
<1>11. \A m : In(m)' = In(m)
  BY <1>1 DEF In
<1>12. \A t : AccountsOf(t)' = AccountsOf(t)
  BY <1>1 DEF AccountsOf
<1>13. ASSUME NEW a \in Accounts, NEW m \in Markets,
              \A t \in trades' \cap In(m) : AccountsOf(t) # {a}
       PROVE  position'[m][a] = SumFunctionOnSet(Contracts(a), trades' \cap In(m))
  <2> DEFINE R == {r \in Hit(o) : Deal(o, r) \in In(m)}
             old == SumFunctionOnSet(Contracts(a), trades \cap In(m))
             new == SumFunctionOnSet(Contracts(a), trades' \cap In(m))
             legs == Legs(o, a)
  <2> SUFFICES position'[m][a] = new
    OBVIOUS
  <2>1. Counted(Contracts(a), legs, o, In(m), R)
    <3>1. \A t \in Trade : Contracts(a)[t] \in Int
      BY BoughtType DEF Contracts
    <3>2. \A r \in Hit(o) : legs[r] = Contracts(a)[Deal(o, r)]
      BY <1>8 DEF Contracts, Legs
    <3> QED
      BY <3>1, <3>2 DEF Counted
  <2>2. \A r \in Hit(o) : legs[r] \in Int
    BY <1>8, BoughtType DEF Legs
  <2>3. position[m][a] = old /\ position[m][a] \in Int
    <3>1. \A t \in trades \cap In(m) : AccountsOf(t) # {a}
      BY <1>1, <1>13
    <3> QED
      BY <3>1 DEF PosInv, IInv, TypeOK
  <2>4. m # k => R = {}
    BY <1>8 DEF In
  <2>5. m = k => R = Hit(o)
    BY <1>8 DEF In
  <2>6. m = k => Apart(o, a)
    <3> SUFFICES ASSUME m = k, NEW r \in Hit(o)
                 PROVE  {request[o].account, request[r].account} # {a}
      BY DEF Apart
    <3>1. Deal(o, r) \in trades' \cap In(m)
      BY <1>1, <1>8 DEF In
    <3>2. AccountsOf(Deal(o, r)) = {request[o].account, request[r].account}
      BY DEF AccountsOf, Deal
    <3> QED
      BY <1>13, <3>1, <3>2
  <2>7. SumFunctionOnSet(legs, {}) = 0
    BY SumEmpty
  <2>8. ASSUME a \notin Parties(o), NEW r \in Hit(o)
        PROVE  legs[r] = 0
    <3>1. request[o].account # a /\ request[r].account # a
      BY <2>8 DEF Parties
    <3>2. Bought(Deal(o, r), a) = 0
      BY <1>8, <3>1 DEF Bought
    <3> QED
      BY <1>8, <3>2 DEF Legs
  <2> HIDE DEF R, legs
  <2>9. new = old + SumFunctionOnSet(legs, R)
    BY <1>9, <2>1, CommitAdds
  <2> HIDE DEF old, new
  <2>10. R = {} => new = position[m][a]
    <3>1. SUFFICES ASSUME R = {}
                   PROVE  new = position[m][a]
      OBVIOUS
    <3>2. SumFunctionOnSet(legs, R) = 0
      BY <2>7, <3>1
    <3> QED
      BY <2>3, <2>9, <3>2
  <2>11. CASE m # k
    BY <1>3, <2>4, <2>10, <2>11
  <2>12. CASE m = k /\ Hit(o) = {}
    BY <1>3, <2>5, <2>10, <2>12
  <2>13. CASE m = k /\ Hit(o) # {} /\ a \in Parties(o)
    <3>1. newPos[o][a] = position[k][a] + move[o][a]
      BY <1>1, <2>13 DEF PosInv
    <3>2. move[o][a] = SumFunctionOnSet(legs, Hit(o))
      BY <1>1, <2>6, <2>13 DEF PosInv, InTransaction, legs
    <3> QED
      BY <1>3, <2>3, <2>5, <2>9, <2>13, <3>1, <3>2
  <2>14. CASE m = k /\ Hit(o) # {} /\ a \notin Parties(o)
    <3>1. SumFunctionOnSet(legs, Hit(o)) = 0
      BY <1>9, <2>8, <2>14, SumZero
    <3> QED
      BY <1>3, <2>3, <2>5, <2>9, <2>14, <3>1
  <2> QED
    BY <2>11, <2>12, <2>13, <2>14
<1>14. \A a \in Accounts, m \in Markets :
            (\A t \in trades' \cap In(m)' : AccountsOf(t)' # {a}) =>
                position'[m][a] = SumFunctionOnSet(Contracts(a)', trades' \cap In(m)')
  BY <1>10, <1>11, <1>12, <1>13
<1> HIDE DEF InTransaction, Apart, Legs, Hit, Parties, In, Contracts, AccountsOf
<1> QED
  BY <1>7, <1>14 DEF PosInv

LEMMA PosStep == IInv /\ TallyInv /\ PosInv /\ [Next]_vars => PosInv'
<1> SUFFICES ASSUME IInv, TallyInv, PosInv, [Next]_vars PROVE PosInv'
  OBVIOUS
<1> USE DEF rowVars, moneyVars, localVars
<1>1. ASSUME UNCHANGED <<request, trades, position, pc, got, move, newPos>>
      PROVE  PosInv'
  <2>1. CASE Orders = {}
    BY <1>1, <2>1, PositionsKeep DEF PosInv
  <2>2. CASE Orders # {}
    <3>1. PICK o : o \in Orders
      BY <2>2
    <3>2. ASSUME NEW p \in Orders, NEW a \in Accounts
          PROVE  /\ pc'[p] \notin InTransaction => move'[p][a] = 0
                 /\ pc'[p] \in InTransaction /\ Apart(p, a)' =>
                       move'[p][a] = SumFunctionOnSet(Legs(p, a)', Hit(p)')
                 /\ pc'[p] = "posted" /\ Hit(p)' # {} /\ a \in Parties(p)' =>
                       newPos'[p][a] = position'[request'[p].market][a] + move'[p][a]
      BY <1>1, <3>2, OthersKeep
    <3> QED
      BY <1>1, <3>1, <3>2, PosLocal
  <2> QED
    BY <2>1, <2>2
<1> QED
  BY <1>1, PosQuiet, PosLoad, PosMatch, PosPost, PosCommit, PosAbort
     DEF Next, Place, CancelRead, CancelWrite, LockMarket, vars

LEMMA PosMeans == TypeOK /\ TallyInv /\ PosInv => PositionsMatchTrades
<1> SUFFICES ASSUME TypeOK, TallyInv, PosInv, NEW a \in Accounts, NEW m \in Markets,
                    \A t \in TradesIn(m) : AccountsOf(t) # {a}
             PROVE  position[m][a] = NetContracts(a, m)
  BY DEF PositionsMatchTrades
<1> DEFINE S == trades \cap In(m)
           f == Contracts(a)
           g == [t \in trades |-> Bought(t, a)]
<1>1. trades \subseteq Trade
  BY DEF TypeOK, Trade
<1>2. S = TradesIn(m)
  BY <1>1 DEF In, TradesIn
<1>3. \A t \in S : f[t] \in Int /\ g[t] = f[t]
  BY <1>1, BoughtType DEF Contracts
<1>4. IsFiniteSet(S)
  BY FS_Subset DEF TallyInv
<1>5. position[m][a] = SumFunctionOnSet(f, S)
  BY <1>2 DEF PosInv
<1>6. NetContracts(a, m) = SumFunctionOnSet(g, S)
  BY <1>2 DEF NetContracts
<1> HIDE DEF S, f, g
<1>7. SumFunctionOnSet(g, S) = SumFunctionOnSet(f, S)
  BY <1>3, <1>4, SumAgree
<1> QED
  BY <1>5, <1>6, <1>7

\* Positions, written as absolute values computed before the commit, are the net
\* contracts of the trade table for every account that did not trade with itself.
THEOREM PositionsSumTrades == Spec => []PositionsMatchTrades
<1>1. Spec => []PosInv
  BY Inductive, TallyInductive, PosInit, PosStep, PTL DEF Spec
<1> QED
  BY <1>1, TypeCorrect, TallyInductive, PosMeans, PTL

-----------------------------------------------------------------------------
(* Balances *)

\* All trades of account a are in one market.
OneMarket(a) ==
    \A t, u \in trades :
        a \in AccountsOf(t) /\ a \in AccountsOf(u) =>
            request[t.taker].market = request[u.taker].market

\* Transaction o has a trade of account a.
TradesFor(o, a) == \E r \in Hit(o) : a \in {request[o].account, request[r].account}

\* Account a has a committed trade in a market other than that of o.
TradedElsewhere(o, a) ==
    \E t \in trades : a \in AccountsOf(t) /\ request[t.taker].market # request[o].market

\* What a transaction moves it has traded, and the balance it has read is still the
\* one in the table unless the account has traded in another market.
MoneyInv ==
    /\ \A o \in Orders, a \in Accounts : cash[o][a] # 0 =>
        /\ pc[o] \in InTransaction
        /\ TradesFor(o, a)
        /\ pc[o] \in {"written", "posted"} =>
               seen[o][a] = balance[a] \/ TradedElsewhere(o, a)
    /\ \A a \in Accounts : OneMarket(a) => balance[a] = LedgerBalance(a)

LEMMA MoneyInit == Init => MoneyInv
<1> SUFFICES ASSUME Init PROVE MoneyInv
  OBVIOUS
<1>1. \A o \in Orders, a \in Accounts : cash[o][a] = 0
  BY DEF Init, NoDeltas
<1>2. \A a \in Accounts : balance[a] = OpeningBalance[a] /\ ledger[a] = 0 /\ OpeningBalance[a] \in Int
  BY RequestsAssumption DEF Init, NoDeltas
<1> QED
  BY <1>1, <1>2 DEF MoneyInv, LedgerBalance

LEMMA MoneyQuiet ==
  ASSUME MoneyInv, UNCHANGED <<request, trades, balance, ledger, got, cash, seen>>,
         \A o \in Orders :
            /\ pc[o] \in InTransaction => pc'[o] \in InTransaction
            /\ pc'[o] \in {"written", "posted"} /\ pc[o] \in InTransaction =>
                    pc[o] \in {"written", "posted"}
  PROVE  MoneyInv'
BY DEF MoneyInv, TradesFor, TradedElsewhere, OneMarket, AccountsOf, LedgerBalance, Hit

LEMMA MoneyPersist ==
  ASSUME IInv, MoneyInv, NEW o \in Orders, PersistFills(o)
  PROVE  MoneyInv'
<1>1. /\ UNCHANGED <<request, trades, balance, ledger, got, cash>>
      /\ pc'[o] \in InTransaction
      /\ \A a \in Accounts : cash[o][a] # 0 => seen'[o][a] = balance[a]
      /\ \A p \in Orders \ {o} : pc'[p] = pc[p] /\ seen'[p] = seen[p]
  BY DEF IInv, TypeOK, PersistFills, AfterPersist, InTransaction, rowVars, moneyVars
<1>2. \A p \in Orders, a \in Accounts : (TradesFor(p, a)' <=> TradesFor(p, a))
  BY <1>1 DEF TradesFor, Hit
<1>3. \A p \in Orders, a \in Accounts : (TradedElsewhere(p, a)' <=> TradedElsewhere(p, a))
  BY <1>1 DEF TradedElsewhere, AccountsOf
<1>4. \A a \in Accounts : (OneMarket(a)' <=> OneMarket(a)) /\ LedgerBalance(a)' = LedgerBalance(a)
  BY <1>1 DEF OneMarket, AccountsOf, LedgerBalance
<1> QED
  BY <1>1, <1>2, <1>3, <1>4 DEF MoneyInv

LEMMA MoneyMatch ==
  ASSUME IInv, MoneyInv, NEW o \in Orders, MatchNext(o)
  PROVE  MoneyInv'
<1>1. PICK r \in Orders, q \in Int :
        /\ \A a \in Accounts : cash'[o][a] = cash[o][a] + CashOf(o, r, q, a)
        /\ Hit(o)' = Hit(o) \cup {r}
        /\ \A p \in Orders \ {o} : cash'[p] = cash[p] /\ Hit(p)' = Hit(p)
  BY MatchedOne
<1>2. /\ UNCHANGED <<request, trades, balance, ledger, pc, seen>>
      /\ pc[o] \in InTransaction /\ pc[o] \notin {"written", "posted"}
  BY DEF MatchNext, rowVars, moneyVars, InTransaction
<1>3. ASSUME NEW a \in Accounts, cash'[o][a] # 0
      PROVE  TradesFor(o, a)'
  <2>1. CASE a \in {request[o].account, request[r].account}
    BY <1>1, <1>2, <2>1 DEF TradesFor
  <2>2. CASE a \notin {request[o].account, request[r].account}
    <3>1. CashOf(o, r, q, a) = 0
      BY <2>2 DEF CashOf
    <3>2. cash[o][a] # 0
      BY <1>1, <1>3, <3>1 DEF IInv, TypeOK
    <3>3. TradesFor(o, a)
      BY <3>2 DEF MoneyInv
    <3> QED
      BY <1>1, <1>2, <3>3 DEF TradesFor
  <2> QED
    BY <2>1, <2>2
<1>4. \A p \in Orders \ {o}, a \in Accounts : (TradesFor(p, a)' <=> TradesFor(p, a))
  BY <1>1, <1>2 DEF TradesFor
<1>5. \A p \in Orders, a \in Accounts : (TradedElsewhere(p, a)' <=> TradedElsewhere(p, a))
  BY <1>2 DEF TradedElsewhere, AccountsOf
<1>6. \A a \in Accounts : (OneMarket(a)' <=> OneMarket(a)) /\ LedgerBalance(a)' = LedgerBalance(a)
  BY <1>2 DEF OneMarket, AccountsOf, LedgerBalance
<1> QED
  BY <1>1, <1>2, <1>3, <1>4, <1>5, <1>6 DEF MoneyInv

LEMMA MoneyAbort ==
  ASSUME IInv, MoneyInv, NEW o \in Orders, Abort(o)
  PROVE  MoneyInv'
<1>1. /\ UNCHANGED <<request, trades, balance, ledger>> /\ ForgetLocals(o)
      /\ \A p \in Orders \ {o} : pc'[p] = pc[p]
  BY DEF IInv, TypeOK, Abort, rowVars, moneyVars
<1>2. /\ \A a \in Accounts : cash'[o][a] = 0
      /\ \A p \in Orders \ {o} : Hit(p)' = Hit(p) /\ cash'[p] = cash[p] /\ seen'[p] = seen[p]
  BY <1>1, ForgottenLocals
<1>4. \A p \in Orders \ {o}, a \in Accounts : (TradesFor(p, a)' <=> TradesFor(p, a))
  BY <1>1, <1>2 DEF TradesFor
<1>5. \A p \in Orders, a \in Accounts : (TradedElsewhere(p, a)' <=> TradedElsewhere(p, a))
  BY <1>1 DEF TradedElsewhere, AccountsOf
<1>6. \A a \in Accounts : (OneMarket(a)' <=> OneMarket(a)) /\ LedgerBalance(a)' = LedgerBalance(a)
  BY <1>1 DEF OneMarket, AccountsOf, LedgerBalance
<1> QED
  BY <1>1, <1>2, <1>4, <1>5, <1>6 DEF MoneyInv

LEMMA MoneyCommit ==
  ASSUME IInv, MoneyInv, NEW o \in Orders, Commit(o)
  PROVE  MoneyInv'
<1>1. /\ pc[o] = "posted" /\ request' = request /\ trades' = trades \cup Deals(o)
      /\ ForgetLocals(o)
  BY DEF Commit
<1>2. \A p \in Orders \ {o} : pc'[p] = pc[p]
  BY DEF Commit, IInv, TypeOK
<1>3. /\ \A a \in Accounts : cash'[o][a] = 0
      /\ \A p \in Orders \ {o} : Hit(p)' = Hit(p) /\ cash'[p] = cash[p] /\ seen'[p] = seen[p]
  BY <1>1, ForgottenLocals
<1>4. \A a \in Accounts :
        /\ balance'[a] = IF cash[o][a] # 0 THEN seen[o][a] + cash[o][a] ELSE balance[a]
        /\ LedgerBalance(a)' = OpeningBalance[a] + (ledger[a] + cash[o][a])
        /\ LedgerBalance(a) = OpeningBalance[a] + ledger[a]
        /\ OpeningBalance[a] \in Int /\ ledger[a] \in Int /\ cash[o][a] \in Int
        /\ balance[a] \in Int
  BY RequestsAssumption DEF Commit, NewBalance, LedgerBalance, IInv, TypeOK
<1>5. \A r \in Hit(o) : /\ Deal(o, r) \in trades' /\ Deal(o, r).taker = o
                        /\ AccountsOf(Deal(o, r)) = {request[o].account, request[r].account}
  BY <1>1, DealFacts DEF Deal, AccountsOf
<1>6. \A t : AccountsOf(t)' = AccountsOf(t)
  BY <1>1 DEF AccountsOf
<1>7. ASSUME NEW a \in Accounts, cash[o][a] # 0
      PROVE  \E t \in trades' : a \in AccountsOf(t) /\ t.taker = o
  <2>1. TradesFor(o, a)
    BY <1>7 DEF MoneyInv
  <2> QED
    BY <1>5, <2>1 DEF TradesFor
<1>8. ASSUME NEW p \in Orders, NEW a \in Accounts, TradedElsewhere(p, a)
      PROVE  TradedElsewhere(p, a)'
  BY <1>1, <1>6, <1>8 DEF TradedElsewhere
<1>9. ASSUME NEW p \in Orders \ {o}, NEW a \in Accounts, cash'[p][a] # 0
      PROVE  /\ pc'[p] \in InTransaction
             /\ TradesFor(p, a)'
             /\ pc'[p] \in {"written", "posted"} =>
                    seen'[p][a] = balance'[a] \/ TradedElsewhere(p, a)'
  <2>1. pc[p] \in InTransaction /\ TradesFor(p, a)
    BY <1>3, <1>9 DEF MoneyInv
  <2>2. TradesFor(p, a)' /\ pc'[p] \in InTransaction
    BY <1>1, <1>2, <1>3, <2>1 DEF TradesFor
  <2>3. ASSUME pc'[p] \in {"written", "posted"}
        PROVE  seen'[p][a] = balance'[a] \/ TradedElsewhere(p, a)'
    <3>1. seen[p][a] = balance[a] \/ TradedElsewhere(p, a)
      BY <1>2, <1>3, <1>9, <2>3 DEF MoneyInv
    <3>2. CASE cash[o][a] = 0
      BY <1>3, <1>4, <1>8, <3>1, <3>2
    <3>3. CASE cash[o][a] # 0
      <4>1. request[o].market # request[p].market
        BY <1>1, <2>1 DEF IInv, LockExclusive, InTransaction
      <4>2. TradedElsewhere(p, a)'
        BY <1>1, <1>6, <1>7, <3>3, <4>1 DEF TradedElsewhere
      <4> QED
        BY <4>2
    <3> QED
      BY <3>2, <3>3
  <2> QED
    BY <2>2, <2>3
<1>10. ASSUME NEW a \in Accounts, OneMarket(a)'
       PROVE  balance'[a] = LedgerBalance(a)'
  <2>1. OneMarket(a)
    BY <1>1, <1>6, <1>10 DEF OneMarket
  <2>2. balance[a] = LedgerBalance(a)
    BY <2>1 DEF MoneyInv
  <2>3. CASE cash[o][a] = 0
    BY <1>4, <2>2, <2>3
  <2>4. CASE cash[o][a] # 0
    <3>1. PICK u \in trades' : a \in AccountsOf(u) /\ u.taker = o
      BY <1>7, <2>4
    <3>2. ~TradedElsewhere(o, a)
      BY <1>1, <1>6, <1>10, <3>1 DEF TradedElsewhere, OneMarket
    <3>3. seen[o][a] = balance[a]
      BY <1>1, <2>4, <3>2 DEF MoneyInv
    <3> QED
      BY <1>4, <2>2, <2>4, <3>3
  <2> QED
    BY <2>3, <2>4
<1> HIDE DEF InTransaction, TradesFor, TradedElsewhere, OneMarket, LedgerBalance
<1>11. \A p \in Orders, a \in Accounts : cash'[p][a] # 0 =>
             /\ pc'[p] \in InTransaction
             /\ TradesFor(p, a)'
             /\ pc'[p] \in {"written", "posted"} =>
                    seen'[p][a] = balance'[a] \/ TradedElsewhere(p, a)'
  BY <1>3, <1>9
<1> QED
  BY <1>10, <1>11 DEF MoneyInv

LEMMA MoneyStep == IInv /\ MoneyInv /\ [Next]_vars => MoneyInv'
<1> SUFFICES ASSUME IInv, MoneyInv, [Next]_vars PROVE MoneyInv'
  OBVIOUS
<1> USE DEF rowVars, moneyVars, localVars
<1>1. pc \in [Orders -> {"new", "admitted"} \cup InTransaction \cup Ended]
  BY DEF IInv, TypeOK
<1>2. ASSUME NEW o \in Orders, Admit(o) \/ Reject(o) \/ LockAndLoadBook(o) \/ PostTradeEvent(o)
      PROVE  MoneyInv'
  <2>1. UNCHANGED <<request, trades, balance, ledger, got, cash, seen>>
    BY <1>2 DEF Admit, Reject, LockAndLoadBook, PostTradeEvent
  <2>2. \A p \in Orders :
            /\ pc[p] \in InTransaction => pc'[p] \in InTransaction
            /\ pc'[p] \in {"written", "posted"} /\ pc[p] \in InTransaction =>
                    pc[p] \in {"written", "posted"}
    BY <1>1, <1>2 DEF Admit, Reject, LockAndLoadBook, PostTradeEvent, InTransaction
  <2> QED
    BY <2>1, <2>2, MoneyQuiet
<1>3. ASSUME UNCHANGED <<request, trades, balance, ledger, got, cash, seen, pc>>
      PROVE  MoneyInv'
  BY <1>3, MoneyQuiet
<1> QED
  BY <1>2, <1>3, MoneyPersist, MoneyMatch, MoneyCommit, MoneyAbort
     DEF Next, Place, CancelRead, CancelWrite, LockMarket, vars

\* A finite set of at most one element.
LEMMA AtMostOne ==
  ASSUME NEW S, IsFiniteSet(S), Cardinality(S) <= 1, NEW x \in S, NEW y \in S
  PROVE  x = y
<1>1. {x, y} \subseteq S /\ Cardinality({x, y}) <= Cardinality(S)
  BY FS_Subset
<1>2. x # y => Cardinality({x, y}) = 2
  <2>1. x # y => Cardinality({x} \cup {y}) = Cardinality({x}) + 1
    BY FS_Singleton, FS_AddElement
  <2>2. {x} \cup {y} = {x, y} /\ Cardinality({x}) = 1
    BY FS_Singleton
  <2> QED
    BY <2>1, <2>2
<1>3. Cardinality(S) \in Nat
  BY FS_CardinalityType
<1> QED
  BY <1>1, <1>2, <1>3

LEMMA MoneyMeans == TypeOK /\ TallyInv /\ MoneyInv => OneMarketBalanceIsLedger
<1> SUFFICES ASSUME TypeOK, TallyInv, MoneyInv, NEW a \in Accounts,
                    Cardinality({request[t.taker].market :
                                    t \in {u \in trades : a \in AccountsOf(u)}}) <= 1
             PROVE  balance[a] = LedgerBalance(a)
  BY DEF OneMarketBalanceIsLedger
<1> DEFINE T == {u \in trades : a \in AccountsOf(u)}
           S == {request[t.taker].market : t \in T}
<1>1. IsFiniteSet(S)
  <2>1. IsFiniteSet(T)
    BY FS_Subset DEF TallyInv
  <2> DEFINE f == [t \in T |-> request[t.taker].market]
  <2>2. f \in Surjection(T, S)
    BY DEF Surjection
  <2> HIDE DEF f, T, S
  <2> QED
    BY <2>1, <2>2, FS_Surjection
<1>2. ASSUME NEW t \in T, NEW u \in T
      PROVE  request[t.taker].market = request[u.taker].market
  <2>1. request[t.taker].market \in S /\ request[u.taker].market \in S /\ Cardinality(S) <= 1
    OBVIOUS
  <2> HIDE DEF S
  <2> QED
    BY <1>1, <2>1, AtMostOne
<1>3. OneMarket(a)
  BY <1>2 DEF OneMarket
<1> QED
  BY <1>3 DEF MoneyInv

\* postJournal writes a balance computed from one it has read before.  The lock of the
\* market makes that safe for every account whose trades are all in one market: its
\* balance is what its journal lines add up to.
THEOREM OneMarketBalancesRight == Spec => []OneMarketBalanceIsLedger
<1>1. Spec => []MoneyInv
  BY Inductive, MoneyInit, MoneyStep, PTL DEF Spec
<1> QED
  BY <1>1, TypeCorrect, TallyInductive, MoneyMeans, PTL

-----------------------------------------------------------------------------
(***************************************************************************)
(* Order placement implements the atomic exchange.                         *)
(***************************************************************************)

\* What a call has matched and what is left of it never exceed what it asks for, and
\* only orders with a price are on its book.
TakeInv ==
    \A o, r \in Orders :
        /\ got[o][r] + rest[o] <= request[o].quantity
        /\ Loaded(o, r) => request[r].price > 0

LEMMA InitTakeInv == Init => TakeInv
<1> SUFFICES ASSUME Init PROVE TakeInv
  OBVIOUS
<1>1. \A o, r \in Orders : left[o][r] = 0 /\ got[o][r] = 0 /\ rest[o] = 0
  BY DEF Init, NoAmounts
<1>2. TypeOK
  BY InitTypeOK
<1>3. \A o \in Orders : request[o].quantity \in Nat
  BY <1>2 DEF TypeOK, Request
<1>4. QED
  BY <1>1, <1>3 DEF TakeInv, Loaded

\* A call that ends or fails keeps nothing of its book.
LEMMA ForgottenTakes ==
  ASSUME IInv, TakeInv, NEW o \in Orders, ForgetLocals(o), request' = request
  PROVE  TakeInv'
<1>1. \A p, r \in Orders :
        /\ left'[p][r] = (IF p = o THEN 0 ELSE left[p][r])
        /\ got'[p][r] = (IF p = o THEN 0 ELSE got[p][r])
        /\ rest'[p] = (IF p = o THEN 0 ELSE rest[p])
  BY DEF ForgetLocals, NoAmounts, IInv, TypeOK
<1>2. \A p \in Orders : request[p].quantity \in Nat
  BY DEF IInv, TypeOK, Request
<1>3. QED
  BY <1>1, <1>2 DEF TakeInv, Loaded

LEMMA LoadTakes ==
  ASSUME IInv, TakeInv, NEW o \in Orders, LockAndLoadBook(o)
  PROVE  TakeInv'
<1>1. pc[o] = "admitted" /\ request' = request /\ got' = got
  BY DEF LockAndLoadBook
<1>2. \A r \in Orders : got[o][r] = 0
  <2>1. \A r \in Orders : ~(got[o][r] > 0) /\ got[o][r] >= 0
    BY <1>1 DEF IInv, LocalInv, Loaded, InTransaction
  <2>2. QED
    BY <2>1 DEF IInv, TypeOK
<1>3. \A p, r \in Orders :
        /\ left'[p][r] = (IF p = o THEN BookOf(request[o].market)[r] ELSE left[p][r])
        /\ rest'[p] = (IF p = o THEN request[o].quantity ELSE rest[p])
  BY DEF LockAndLoadBook, IInv, TypeOK
<1>4. \A r \in Orders : BookOf(request[o].market)[r] > 0 => request[r].price > 0
  BY DEF BookOf
<1>5. \A p \in Orders : request[p].quantity \in Nat
  BY DEF IInv, TypeOK, Request
<1>6. QED
  BY <1>1, <1>2, <1>3, <1>4, <1>5 DEF TakeInv, Loaded

LEMMA MatchTakes ==
  ASSUME IInv, TakeInv, NEW o \in Orders, MatchNext(o)
  PROVE  TakeInv'
<1>1. PICK r \in Crossing(o) :
        /\ left' = [left EXCEPT ![o][r] = @ - Smaller(rest[o], left[o][r])]
        /\ got' = [got EXCEPT ![o][r] = @ + Smaller(rest[o], left[o][r])]
        /\ rest' = [rest EXCEPT ![o] = @ - Smaller(rest[o], left[o][r])]
  BY DEF MatchNext, Best
<1> DEFINE q == Smaller(rest[o], left[o][r])
<1>2. r \in Orders /\ left[o][r] > 0 /\ rest[o] > 0
  BY DEF Crossing, MatchNext
<1>3. q \in Int /\ q >= 0 /\ q <= left[o][r] /\ q <= rest[o]
  BY <1>2 DEF Smaller, IInv, TypeOK
<1>4. left' = [left EXCEPT ![o][r] = @ - q] /\ got' = [got EXCEPT ![o][r] = @ + q]
      /\ rest' = [rest EXCEPT ![o] = @ - q]
  BY <1>1 DEF q
<1> HIDE DEF q
<1>5. \A p, s \in Orders :
        /\ left'[p][s] = (IF p = o /\ s = r THEN left[p][s] - q ELSE left[p][s])
        /\ got'[p][s] = (IF p = o /\ s = r THEN got[p][s] + q ELSE got[p][s])
        /\ rest'[p] = (IF p = o THEN rest[p] - q ELSE rest[p])
  BY <1>2, <1>3, <1>4 DEF IInv, TypeOK
<1>6. request' = request
  BY DEF MatchNext
<1>7. \A p, s \in Orders : left[p][s] \in Int /\ got[p][s] \in Int /\ rest[p] \in Int
  BY DEF IInv, TypeOK
<1>8. \A p \in Orders : request[p].quantity \in Nat
  BY DEF IInv, TypeOK, Request
<1>9. ASSUME NEW p \in Orders, NEW s \in Orders
      PROVE  /\ got'[p][s] + rest'[p] <= request'[p].quantity
             /\ Loaded(p, s)' => request'[s].price > 0
  <2>1. got'[p][s] + rest'[p] <= request'[p].quantity
    BY <1>2, <1>3, <1>5, <1>6, <1>7, <1>8 DEF TakeInv
  <2>2. Loaded(p, s)' => Loaded(p, s)
    BY <1>2, <1>3, <1>5, <1>7 DEF Loaded
  <2>3. QED
    BY <1>6, <2>1, <2>2 DEF TakeInv
<1>10. QED
  BY <1>9 DEF TakeInv

LEMMA NextTakeInv == IInv /\ TakeInv /\ [Next]_vars => TakeInv'
<1> SUFFICES ASSUME IInv, TakeInv, [Next]_vars PROVE TakeInv'
  OBVIOUS
<1> USE DEF localVars
<1>1. ASSUME NEW o \in Orders, Admit(o) \/ Reject(o) PROVE TakeInv'
  BY <1>1 DEF Admit, Reject, TakeInv, Loaded
<1>2. ASSUME NEW o \in Orders, LockAndLoadBook(o) PROVE TakeInv'
  BY <1>2, LoadTakes
<1>3. ASSUME NEW o \in Orders, MatchNext(o) PROVE TakeInv'
  BY <1>3, MatchTakes
<1>4. ASSUME NEW o \in Orders, PersistFills(o) \/ PostTradeEvent(o) PROVE TakeInv'
  BY <1>4 DEF PersistFills, PostTradeEvent, TakeInv, Loaded
<1>5. ASSUME NEW o \in Orders, Commit(o) \/ Abort(o) PROVE TakeInv'
  <2>1. ForgetLocals(o) /\ request' = request
    BY <1>5 DEF Commit, Abort
  <2>2. QED
    BY <2>1, ForgottenTakes
<1>6. ASSUME NEW o \in Orders, CancelRead(o) \/ CancelWrite(o) PROVE TakeInv'
  BY <1>6 DEF CancelRead, CancelWrite, TakeInv, Loaded
<1>7. ASSUME NEW m \in Markets, LockMarket(m) PROVE TakeInv'
  BY <1>7 DEF LockMarket, TakeInv, Loaded
<1>8. CASE UNCHANGED vars
  BY <1>8 DEF vars, TakeInv, Loaded
<1>9. QED
  BY <1>1, <1>2, <1>3, <1>4, <1>5, <1>6, <1>7, <1>8 DEF Next, Place

-----------------------------------------------------------------------------
(* A commit is a placement of the exchange *)

\* The book that transaction o loaded, what rests and what was cancelled since.
LoadedBook(o) == {r \in Orders : Loaded(o, r)}

LEMMA LoadedIsABook ==
  ASSUME IInv, TakeInv, NEW o \in Orders, pc[o] \in InTransaction
  PROVE  LoadedBook(o) \in Atomic!Books(request[o].market)
<1> DEFINE m == request[o].market
           resting == {r \in Atomic!Limits(m) : Atomic!Rests(r)}
           lost == {r \in Atomic!Limits(m) : Rows[r].status = "CANCELLED"}
<1>1. \A r \in Orders : Atomic!Rests(r) <=> IsResting(r)
  BY DEF Atomic!Rests, IsResting, Rows
<1>2. resting \subseteq LoadedBook(o)
  <2> SUFFICES ASSUME NEW r \in resting PROVE Loaded(o, r)
    BY DEF Atomic!Limits, LoadedBook
  <2>1. r \in Orders /\ IsResting(r) /\ request[r].price > 0 /\ request[r].market = m
    BY <1>1 DEF Atomic!Limits
  <2>2. request[r].type = "LIMIT"
    BY <2>1, RestingHasRemainder
  <2>3. QED
    BY <2>1, <2>2 DEF IInv, BookInv
<1>3. LoadedBook(o) \ resting \subseteq lost
  <2> SUFFICES ASSUME NEW r \in Orders, Loaded(o, r), r \notin resting PROVE r \in lost
    BY DEF LoadedBook
  <2>1. request[r].price > 0 /\ request[r].market = m
    BY DEF TakeInv, IInv, LocalInv
  <2>2. r \in Atomic!Limits(m) /\ ~IsResting(r)
    BY <1>1, <2>1 DEF Atomic!Limits
  <2>3. status[r] # "NONE" /\ left[o][r] + got[o][r] = request[r].quantity - filled[r]
        /\ left[o][r] >= 0 /\ got[o][r] >= 0
    BY DEF IInv, LocalInv
  <2>4. left[o][r] + got[o][r] > 0
    BY <2>3 DEF Loaded, IInv, TypeOK
  <2>5. filled[r] # request[r].quantity
    BY <2>3, <2>4 DEF IInv, TypeOK, Request
  <2>6. status[r] # "FILLED"
    BY <2>5 DEF IInv, StatusMatchesFill
  <2>7. status[r] \in OrderStatus \cup {"NONE"}
    BY DEF IInv, TypeOK
  <2>8. status[r] = "CANCELLED"
    BY <2>2, <2>3, <2>6, <2>7 DEF IsResting, OrderStatus
  <2>9. QED
    BY <2>2, <2>8 DEF Rows
<1>4. LoadedBook(o) = resting \cup (LoadedBook(o) \cap lost)
  BY <1>2, <1>3
<1>5. QED
  BY <1>4 DEF Atomic!Books

LEMMA SidesAgree ==
  ASSUME NEW o \in Orders, NEW r \in Orders
  PROVE  /\ Atomic!Suits(o, r) <=> LibSide(o) # LibSide(r) /\ WithinLimit(o, r)
         /\ Atomic!Prior(o, r) <=> Ahead(o, r)
BY DEF Atomic!Suits, Atomic!Prior, Atomic!Buys, LibSide, WithinLimit, Ahead, Rows

LEMMA CommitMatches ==
  ASSUME IInv, TakeInv, NEW o \in Orders, pc[o] = "posted"
  PROVE  Atomic!Matches(o, LoadedBook(o), got[o], request[o].quantity - rest[o])
<1>1. \A r \in Orders : /\ left[o][r] \in Int /\ got[o][r] \in Int /\ filled[r] \in Int
                        /\ request[r].quantity \in Nat /\ rest[o] \in Int
  BY DEF IInv, TypeOK, Request
<1>2. \A r \in Orders : left[o][r] >= 0 /\ got[o][r] >= 0
  BY DEF IInv, LocalInv
<1>3. \A r \in Orders : Loaded(o, r) => left[o][r] + got[o][r] = Atomic!Remaining(r)
  BY DEF IInv, LocalInv, Atomic!Remaining, Rows
<1>4. \A r \in Orders : got[o][r] > 0 => LibSide(r) # LibSide(o) /\ WithinLimit(o, r)
  BY DEF IInv, LocalInv
<1>5. \A r \in LoadedBook(o) :
        Atomic!Suits(o, r) /\ r \notin Crossing(o) => got[o][r] = Atomic!Remaining(r)
  <2> SUFFICES ASSUME NEW r \in LoadedBook(o), Atomic!Suits(o, r), r \notin Crossing(o)
               PROVE  got[o][r] = Atomic!Remaining(r)
    OBVIOUS
  <2>1. r \in Orders /\ Loaded(o, r)
    BY DEF LoadedBook
  <2>2. ~(left[o][r] > 0)
    BY <2>1, SidesAgree DEF Crossing
  <2>3. left[o][r] = 0
    BY <1>1, <1>2, <2>1, <2>2
  <2>4. left[o][r] + got[o][r] = Atomic!Remaining(r)
    BY <1>3, <2>1
  <2>5. QED
    BY <1>1, <2>1, <2>3, <2>4
<1>6. ASSUME NEW r \in Orders
      PROVE  /\ got[o][r] <= request[o].quantity - rest[o]
             /\ got[o][r] > 0 => /\ r \in LoadedBook(o) /\ Atomic!Suits(o, r)
                                 /\ got[o][r] <= Atomic!Remaining(r)
  <2>1. got[o][r] <= request[o].quantity - rest[o]
    BY <1>1 DEF TakeInv
  <2>2. ASSUME got[o][r] > 0 PROVE r \in LoadedBook(o) /\ Atomic!Suits(o, r)
    BY <1>4, <2>2, SidesAgree DEF LoadedBook, Loaded
  <2>3. ASSUME got[o][r] > 0 PROVE got[o][r] <= Atomic!Remaining(r)
    <3>1. left[o][r] + got[o][r] = Atomic!Remaining(r)
      BY <1>3, <2>3 DEF Loaded
    <3>2. QED
      BY <1>1, <1>2, <3>1
  <2>4. QED
    BY <2>1, <2>2, <2>3
<1>7. ASSUME NEW r \in LoadedBook(o), NEW s \in LoadedBook(o),
             got[o][r] > 0, Atomic!Suits(o, s), Atomic!Prior(s, r)
      PROVE  got[o][s] = Atomic!Remaining(s)
  <2>1. r \in Hit(o) /\ s \in Orders /\ r \in Orders
    BY <1>7 DEF Hit, LoadedBook
  <2>2. Ahead(s, r)
    BY <1>7, <2>1, SidesAgree
  <2>3. s \notin Crossing(o)
    BY <2>1, <2>2 DEF IInv, PriceTimePriority
  <2>4. QED
    BY <1>5, <1>7, <2>3
<1>8. ASSUME request[o].quantity - rest[o] < request[o].quantity,
             NEW r \in LoadedBook(o), Atomic!Suits(o, r)
      PROVE  got[o][r] = Atomic!Remaining(r)
  <2>1. rest[o] > 0
    BY <1>1, <1>8
  <2>2. Crossing(o) = {}
    BY <2>1 DEF IInv, LocalInv, CanMatch
  <2>3. QED
    BY <1>5, <1>8, <2>2
<1>9. QED
  BY <1>6, <1>7, <1>8 DEF Atomic!Matches

LEMMA StatusAgrees ==
  ASSUME NEW r \in Orders, NEW n \in Nat, n <= request[r].quantity, request[r].quantity \in Nat,
         request[r].quantity > 0
  PROVE  StatusFor(r, n) = Atomic!StatusOf(r, n)
BY DEF StatusFor, Atomic!StatusOf

LEMMA CommitIsPlacement ==
  ASSUME IInv, TakeInv, NEW o \in Orders, Commit(o)
  PROVE  Atomic!Place(o)
<1> DEFINE taken == request[o].quantity - rest[o]
<1>1. pc[o] = "posted" /\ pc[o] \in InTransaction
  BY DEF Commit, InTransaction
<1>2. \A r \in Orders : /\ left[o][r] \in Int /\ got[o][r] \in Int /\ filled[r] \in Int
                        /\ request[r].quantity \in Nat /\ rest[o] \in Int
  BY DEF IInv, TypeOK, Request
<1>3. \A r \in Orders : left[o][r] >= 0 /\ got[o][r] >= 0
  BY DEF IInv, LocalInv
<1>4. status[o] = "NONE" /\ WellFormed(request[o]) /\ got[o][o] = 0 /\ filled[o] = 0
  BY <1>1, OwnRow
<1>5. Rows[o].status = "NONE" /\ request[o].quantity > 0
  BY <1>4 DEF Rows, WellFormed
<1>6. rest[o] >= 0 /\ rest[o] <= request[o].quantity /\ taken \in 0..request[o].quantity
  BY <1>2 DEF IInv, LocalInv
<1>7. got[o] \in [Orders -> 0..request[o].quantity]
  <2>1. got[o] \in [Orders -> Int]
    BY DEF IInv, TypeOK
  <2>2. \A r \in Orders : got[o][r] \in 0..request[o].quantity
    BY <1>2, <1>3, <1>6 DEF TakeInv
  <2>3. QED
    BY <2>1, <2>2
<1>8. ASSUME NEW r \in Orders, r # o, got[o][r] > 0
      PROVE  /\ FilledAfter(o, r) = filled[r] + got[o][r]
             /\ StatusFor(r, FilledAfter(o, r)) = Atomic!StatusOf(r, filled[r] + got[o][r])
  <2>1. left[o][r] + got[o][r] = request[r].quantity - filled[r]
    BY <1>8 DEF IInv, LocalInv, Loaded
  <2>2. FilledAfter(o, r) = filled[r] + got[o][r]
    BY <1>2, <1>8, <2>1 DEF FilledAfter
  <2>3. filled[r] >= 0
    BY DEF IInv, StatusMatchesFill
  <2>4. filled[r] + got[o][r] \in Nat /\ filled[r] + got[o][r] <= request[r].quantity
        /\ request[r].quantity > 0
    BY <1>2, <1>3, <1>8, <2>1, <2>3
  <2>5. QED
    BY <1>2, <2>2, <2>4, StatusAgrees
<1>9. FilledAfter(o, o) = taken /\ StatusFor(o, taken) = Atomic!StatusOf(o, taken)
  BY <1>2, <1>5, <1>6, StatusAgrees DEF FilledAfter
<1>10. clock' = clock + 1
  BY DEF Commit
<1> HIDE DEF taken
<1>11. \A r \in Orders : r \in Hit(o) <=> got[o][r] > 0
  BY DEF Hit
<1>12. ASSUME NEW r \in Orders
       PROVE  Rows'[r] =
                IF r = o THEN Atomic!Row(o, taken, clock')
                ELSE IF got[o][r] > 0
                     THEN Atomic!Row(r, Rows[r].filled + got[o][r], Rows[r].at)
                ELSE Rows[r]
  <2>1. Rows'[r] = [status |-> status'[r], filled |-> filled'[r], at |-> createdAt'[r]]
    BY DEF Rows
  <2>2. Rows[r] = [status |-> status[r], filled |-> filled[r], at |-> createdAt[r]]
    BY DEF Rows
  <2>3. /\ filled'[r] = IF r \in Hit(o) \cup {o} THEN FilledAfter(o, r) ELSE filled[r]
        /\ status'[r] = IF r \in Hit(o) \cup {o} THEN StatusFor(r, FilledAfter(o, r)) ELSE status[r]
        /\ createdAt'[r] = IF r = o THEN clock' ELSE createdAt[r]
    BY DEF Commit, IInv, TypeOK
  <2>4. CASE r = o
    BY <1>9, <2>1, <2>3, <2>4 DEF Atomic!Row
  <2>5. CASE r # o /\ got[o][r] > 0
    BY <1>8, <1>11, <2>1, <2>2, <2>3, <2>5 DEF Atomic!Row
  <2>6. CASE r # o /\ ~(got[o][r] > 0)
    BY <1>11, <2>1, <2>2, <2>3, <2>6
  <2>7. QED
    BY <2>4, <2>5, <2>6
<1>13. Rows' = [r \in Orders |->
                IF r = o THEN Atomic!Row(o, taken, clock')
                ELSE IF got[o][r] > 0
                     THEN Atomic!Row(r, Rows[r].filled + got[o][r], Rows[r].at)
                ELSE Rows[r]]
  <2>1. Rows' = [r \in Orders |-> Rows'[r]]
    BY DEF Rows
  <2>2. QED
    BY <1>12, <2>1
<1>14. trades' = trades \cup
          {[taker |-> o, maker |-> r, price |-> request[r].price, quantity |-> got[o][r]] :
              r \in {s \in Orders : got[o][s] > 0}}
  BY DEF Commit, Deals, Hit
<1>15. request' = request
  BY DEF Commit
<1>16. LoadedBook(o) \in Atomic!Books(request[o].market)
  BY <1>1, LoadedIsABook
<1>17. Atomic!Matches(o, LoadedBook(o), got[o], taken)
  BY <1>1, CommitMatches DEF taken
<1>18. QED
  BY <1>5, <1>6, <1>7, <1>10, <1>13, <1>14, <1>15, <1>16, <1>17 DEF Atomic!Place

-----------------------------------------------------------------------------
(* The refinement *)

LEMMA InitRefines == Init => Atomic!Init
<1> SUFFICES ASSUME Init PROVE Atomic!Init
  OBVIOUS
<1>1. Rows = [o \in Orders |-> [status |-> "NONE", filled |-> 0, at |-> 0]]
  BY DEF Init, Rows, NoAmounts
<1>2. QED
  BY <1>1 DEF Init, Atomic!Init

LEMMA CancelRefines ==
  ASSUME IInv, NEW o \in Orders, CancelWrite(o)
  PROVE  Atomic!Cancel(o)
<1>1. status[o] # "NONE" /\ Rows[o].status # "NONE"
  BY DEF CancelWrite, IInv, RowsInv, Rows
<1>2. /\ status' = [status EXCEPT ![o] = "CANCELLED"]
      /\ filled' = filled /\ createdAt' = createdAt
      /\ request' = request /\ trades' = trades /\ clock' = clock
  BY DEF CancelWrite
<1>3. Rows' = [Rows EXCEPT ![o] =
          [status |-> "CANCELLED", filled |-> Rows[o].filled, at |-> Rows[o].at]]
  BY <1>2 DEF Rows, IInv, TypeOK
<1>4. QED
  BY <1>1, <1>2, <1>3 DEF Atomic!Cancel

LEMMA NextRefines == IInv /\ TakeInv /\ [Next]_vars => [Atomic!Next]_(Atomic!vars)
<1> SUFFICES ASSUME IInv, TakeInv, [Next]_vars PROVE Atomic!Next \/ UNCHANGED Atomic!vars
  OBVIOUS
<1> USE DEF rowVars
<1>1. ASSUME NEW o \in Orders,
             Admit(o) \/ Reject(o) \/ LockAndLoadBook(o) \/ MatchNext(o)
                \/ PersistFills(o) \/ PostTradeEvent(o) \/ Abort(o) \/ CancelRead(o)
      PROVE  UNCHANGED Atomic!vars
  BY <1>1 DEF Admit, Reject, LockAndLoadBook, MatchNext, PersistFills, PostTradeEvent,
              Abort, CancelRead, Atomic!vars, Rows
<1>2. ASSUME NEW o \in Orders, Commit(o) PROVE Atomic!Next
  BY <1>2, CommitIsPlacement DEF Atomic!Next
<1>3. ASSUME NEW o \in Orders, CancelWrite(o) PROVE Atomic!Next
  BY <1>3, CancelRefines DEF Atomic!Next
<1>4. ASSUME NEW m \in Markets, LockMarket(m) PROVE UNCHANGED Atomic!vars
  BY <1>4 DEF LockMarket, Atomic!vars, Rows
<1>5. CASE UNCHANGED vars
  BY <1>5 DEF vars, Atomic!vars, Rows
<1>6. QED
  BY <1>1, <1>2, <1>3, <1>4, <1>5 DEF Next, Place

\* Order placement implements the atomic exchange: seen through the committed rows,
\* every execution is one of single-step placements by price-time priority.
THEOREM PlacementIsAtomic == Spec => ImplementsExchange
<1>1. Spec => []TakeInv
  BY InitTakeInv, NextTakeInv, Inductive, PTL DEF Spec
<1>2. QED
  BY <1>1, InitRefines, NextRefines, Inductive, PTL DEF Spec, ImplementsExchange, Atomic!Spec
=============================================================================
